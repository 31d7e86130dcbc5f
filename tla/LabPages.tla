-------------------------------- MODULE LabPages --------------------------------
(***************************************************************************)
(* The pages of the Lab: routes/*.tsx with the hooks of lib/use*Filters.ts *)
(* and components/challenges/LabEnvironmentPanel.tsx.  A page asks its     *)
(* providers when it is shown and renders what they answer; the visitor    *)
(* may be on another page by then, of the same component or another.       *)
(* React commits a new location in one step and runs the effects of what   *)
(* it committed, and the cleanup of those before, in a later one; answers  *)
(* come in between, but no other location, as its commit runs them first.  *)
(***************************************************************************)
EXTENDS LabCatalog

CONSTANTS
  Panels,      \* the slugs of the tools that have a panel
  Unknown,     \* a slug that no record has
  Queries,     \* what is searched for: sets of slugs
  MaxLoads,    \* bound: answers that are awaited at once
  MaxFilters   \* bound: criteria that are set at once

ASSUME PagesAssumption ==
  /\ Unknown \notin SlugsOf(Challenges) \cup SlugsOf(LearningPaths) \cup SlugsOf(Missions)
                     \cup ToSet(SecurityTools) \cup {""}
  /\ MaxLoads \in Nat /\ MaxFilters \in Nat

(* Kept by hand: PANELS has what data/tools.ts has.                        *)
ASSUME PanelsAssumption == ToSet(SecurityTools) \subseteq Panels

VARIABLES
  route,       \* the location: [kind, slug], "" in place of a slug for a list
  page,        \* the state of the page
  panel,       \* the slug whose environment the panel shows
  criteria,    \* the state of the filters
  applied,     \* what the effects have been run for: [to, panel]
  loads        \* answers that are awaited, and whether their effect is active

pageVars == <<route, page, panel, criteria, applied, loads>>

-----------------------------------------------------------------------------
Lists == [challenges |-> Challenges, learning |-> LearningList, ctf |-> MissionList]

To(kind, slug) == [kind |-> kind, slug |-> slug]

Details(kind, slugs) == {To(kind, slug) : slug \in slugs \cup {Unknown}}

(* The navigation of every page.                                           *)
PrimaryNav == {To(kind, "") : kind \in DOMAIN Lists \cup {"dashboard", "tools", "about"}}

(* App.tsx; "*" stands for every other location.                           *)
Routes ==
  PrimaryNav \cup {To("*", "")}
    \cup Details("challenges", SlugsOf(Challenges)) \cup Details("learning", SlugsOf(LearningList))
    \cup Details("ctf", SlugsOf(MissionList)) \cup Details("tools", ToSet(SecurityTools))

Still == [state |-> "still"]

Loading == [state |-> "loading"]

NotFound == [state |-> "not-found"]

Showing(x, links) == [state |-> "found", slug |-> x, links |-> links]

Links(kind, s) == {To(kind, x.slug) : x \in ToSet(s)}

ToolLinks(slugs) == {To("tools", slug) : slug \in ToSet(KnownTools(slugs))}

(* Modules and stages link to challenges whose titles are known.           *)
ModuleLinks(m) == Links("challenges", Resolved(m.challenges, Challenges)) \cup ToolLinks(m.tools)

StageLinks(stage) == Links("challenges", Resolved(stage, Challenges))

-----------------------------------------------------------------------------
(* What the detail pages render of a record.                               *)
ChallengePage(c) ==
  Showing(c.slug, Links("challenges", RelatedChallenges(Challenges, c)))

LearningPage(p) ==
  Showing(p.slug,
    Links("learning", ResolvePrerequisites(p, LearningList))
      \cup Links("challenges", Resolved(p.challenges, Challenges))
      \cup Links("ctf", Filtered(MissionList, LAMBDA q : p.slug \in ToSet(q.paths)))
      \cup ToolLinks(p.tools)
      \cup UNION {ModuleLinks(m) : m \in ToSet(p.modules)})

MissionPage(q) ==
  Showing(q.slug,
    Links("challenges", Resolved(q.challenges, Challenges))
      \cup Links("learning", Resolved(q.paths, LearningList))
      \cup ToolLinks(q.tools)
      \cup UNION {StageLinks(stage) : stage \in ToSet(q.stages)})

ToolNav == {To("tools", slug) : slug \in ToSet(SecurityTools)}

(* A tool and its panel are looked up while the page renders.              *)
ToolPage(slug) ==
  IF slug \in ToSet(SecurityTools) \cap Panels
  THEN Showing(slug, ToolNav)
  ELSE NotFound

DetailPage(to) ==
  LET found == Lookup(Lists[to.kind], to.slug)
      x == CHOOSE y \in found : TRUE IN
  IF found = {} THEN NotFound
  ELSE CASE to.kind = "challenges" -> ChallengePage(x)
         [] to.kind = "learning" -> LearningPage(x)
         [] to.kind = "ctf" -> MissionPage(x)

-----------------------------------------------------------------------------
(* The state a page starts in.  A detail page that is given another slug   *)
(* resets itself while it renders.                                         *)
Blanked(to) ==
  CASE to.kind = "dashboard" -> [kind \in DOMAIN Lists |-> <<>>]
    [] to.kind \in {"tools", "about", "*"} -> IF to.slug = "" THEN Still ELSE ToolPage(to.slug)
    [] OTHER -> Loading

Load(to, part) == [to |-> to, part |-> part, active |-> TRUE]

(* What the effects of a page ask for.                                     *)
Asked(to) ==
  CASE to.kind = "dashboard" -> {Load(to, kind) : kind \in DOMAIN Lists}
    [] to.kind \in {"tools", "about", "*"} -> {}
    [] OTHER -> {Load(to, "page")}

(* The slug of the panel that a page has mounted.                          *)
Mounted(to, p) ==
  IF to.kind = "challenges" /\ to.slug # "" /\ p.state = "found" THEN p.slug ELSE "none"

Due == [to |-> route, panel |-> Mounted(route, page)]

(* The effects that are run again: of the page or of the panel.            *)
Renewed(part) ==
  IF part = "environment" THEN applied.panel # Due.panel ELSE applied.to # route

PagesInit ==
  /\ route = To("dashboard", "")
  /\ page = Blanked(route)
  /\ panel = "none"
  /\ criteria = Criteria
  /\ applied = Due
  /\ loads = Asked(route)

(* What is still asked for finds its page gone, unless it is of the same   *)
(* component.                                                              *)
Navigate(to) ==
  /\ to # route /\ Cardinality(loads) <= MaxLoads
  /\ applied = Due
  /\ route' = to
  /\ page' = Blanked(to)
  /\ panel' = "none"
  /\ criteria' = Criteria
  /\ UNCHANGED <<applied, loads>>

(* Wrong: an effect is not cleaned up.                                     *)
CleanedUpNever(l) == l

CleanedUp(l) == [l EXCEPT !.active = @ /\ ~Renewed(l.part)]

ApplyEffects ==
  /\ applied # Due
  /\ loads' = {CleanedUp(l) : l \in loads}
       \cup (IF Renewed("page") THEN Asked(route) ELSE {})
       \cup (IF Renewed("environment") /\ Due.panel # "none"
             THEN {Load(To("challenges", Due.panel), "environment")} ELSE {})
  /\ applied' = Due
  /\ UNCHANGED <<route, page, panel, criteria>>

First(s) == SubSeq(s, 1, Min({3, Len(s)}))

(* The component that asked is still there.                                *)
Alive(l) ==
  IF l.part = "environment" THEN Due.panel # "none"
  ELSE l.to.kind = route.kind /\ (l.to.slug = "" <=> route.slug = "")

(* An answer sets the state of what asked, if that is still there and its  *)
(* effect has not been cleaned up.  The panel goes with its challenge.     *)
Answered(l) ==
  /\ l \in loads
  /\ UNCHANGED <<route, criteria, applied>>
  /\ page' =
       IF ~(l.active /\ Alive(l)) \/ l.part = "environment" THEN page
       ELSE CASE l.to.kind = "dashboard" -> [page EXCEPT ![l.part] = First(Lists[l.part])]
              [] l.to.kind # "dashboard" /\ l.to.slug = "" ->
                   [state |-> "listed", all |-> Lists[l.to.kind]]
              [] OTHER -> DetailPage(l.to)
  /\ panel' =
       IF l.active /\ Alive(l) /\ l.part = "environment" THEN l.to.slug
       ELSE IF Mounted(route, page') = "none" THEN "none" ELSE panel
  /\ loads' = loads \ {l}

-----------------------------------------------------------------------------
(* The filters of a list.                                                  *)
Categories ==
  [challenges |-> {"all", "web", "authentication", "api", "recon", "ctf"},
   learning |-> {"all", "fundamentals", "web", "authentication", "api", "access-control", "recon",
                 "testing"},
   ctf |-> {"all", "recon", "web", "authentication", "access-control", "api", "defensive"}]

Difficulties ==
  [challenges |-> {"all", "beginner", "easy", "medium", "hard", "expert"},
   learning |-> {"all", "beginner", "intermediate", "advanced"},
   ctf |-> {"all", "beginner", "intermediate", "advanced"}]

Extras ==
  [challenges |-> {"all"}, learning |-> {"all", "short", "medium", "long"},
   ctf |-> {"all", "available", "in-progress", "completed"}]

OnList == route.slug = "" /\ route.kind \in DOMAIN Lists

SetFilter ==
  /\ OnList
  /\ \/ \E v \in Categories[route.kind] : criteria' = [criteria EXCEPT !.category = v]
     \/ \E v \in Difficulties[route.kind] : criteria' = [criteria EXCEPT !.difficulty = v]
     \/ \E v \in Extras[route.kind] : criteria' = [criteria EXCEPT !.extra = v]
     \/ \E v \in Queries \cup {Blank} : criteria' = [criteria EXCEPT !.query = v]
  /\ Cardinality({f \in DOMAIN Criteria : criteria'[f] # Criteria[f]}) <= MaxFilters
  /\ UNCHANGED <<route, page, panel, applied, loads>>

(* What the list shows, and whether it counts as filtered.                 *)
Results ==
  CASE route.kind = "challenges" -> FilterChallenges(page.all, criteria)
    [] route.kind = "learning" -> FilterLearningPaths(page.all, criteria)
    [] route.kind = "ctf" -> FilterMissions(page.all, criteria)

(* The dashboard links the areas, and what it has of paths and missions.   *)
DashboardLinks ==
  (PrimaryNav \ {To("dashboard", ""), To("about", "")})
    \cup Links("learning", page["learning"]) \cup Links("ctf", page["ctf"])

ListLinks == IF page.state = "listed" THEN Links(route.kind, Results) ELSE {}

(* A page that shows no record links back to its list, as the bar does.    *)
LinksOn ==
  PrimaryNav \cup
    CASE route.kind = "dashboard" -> DashboardLinks
      [] route = To("tools", "") -> ToolNav
      [] OnList -> ListLinks
      [] route.slug # "" /\ page.state = "found" -> page.links
      [] OTHER -> {}

IsFiltered == criteria # Criteria

(* The button is offered when nothing is left.                             *)
ResetFilters ==
  /\ OnList /\ page.state = "listed" /\ Results = <<>> /\ IsFiltered
  /\ criteria' = Criteria
  /\ UNCHANGED <<route, page, panel, applied, loads>>

PagesNext ==
  \/ \E to \in Routes : Navigate(to)
  \/ ApplyEffects
  \/ \E l \in loads : Answered(l)
  \/ SetFilter
  \/ ResetFilters

PagesSpec == PagesInit /\ [][PagesNext]_pageVars

-----------------------------------------------------------------------------
(* Something is still to come that the effects of this part ask for.       *)
Awaited(part) == Renewed(part) \/ \E l \in loads : l.active /\ l.part = part

(* Whatever was asked on pages that were left, in whatever order answers   *)
(* arrive: a page shows the record of its own location and says that there *)
(* is none only of a slug that is not in the content, a list is that of    *)
(* its location, and the panel shows the environment of the challenge it   *)
(* is on.  An answer that comes after the commit of another slug and       *)
(* before the cleanup does set the old record (or the old absence) on the  *)
(* new page, and the panel follows; this lasts until the answers for the   *)
(* new slug are there, and none that comes later brings it back.  The page *)
(* of a tool asks for nothing and is never wrong.                          *)
ShowsTheRoute ==
  /\ route.slug # "" =>
       \/ route.kind # "tools" /\ Awaited("page")
       \/ /\ page.state = "found" => page.slug = route.slug
          /\ page.state = "not-found" => route.slug = Unknown
          /\ panel \in {"none", route.slug} \/ Awaited("environment")
  /\ OnList /\ page.state = "listed" => page.all = Lists[route.kind]

(* A page shows its route, the dashboard the first of each list, and every *)
(* link of every page leads to a page that finds what it shows.            *)
PagesTellTheRoute ==
  /\ ShowsTheRoute
  /\ route.kind = "dashboard" => \A kind \in DOMAIN Lists : IsPrefix(page[kind], Lists[kind])
  /\ LinksOn \subseteq Routes /\ \A to \in LinksOn : to.slug # Unknown /\ to.kind # "*"

(* A list, filtered in any way: what a record builds on is in the list and *)
(* shown before it, whatever else is left out, and records are missing     *)
(* only when the list counts as filtered, so that an empty one can always  *)
(* be reset.                                                               *)
ListsLeadOn ==
  OnList /\ page.state = "listed" =>
    LET all == page.all
        shown == Results
        Before(s, x) == {s[i].slug : i \in {j \in DOMAIN s : s[j].order < x.order}} IN
    /\ ToSet(shown) # ToSet(all) => IsFiltered
    /\ route.kind # "challenges" =>
         \A i \in DOMAIN shown :
           /\ ToSet(shown[i].prerequisites) \subseteq Before(all, shown[i])
           /\ ToSet(shown[i].prerequisites) \cap SlugsOf(shown)
                \subseteq SlugsOf(SubSeq(shown, 1, i - 1))
=============================================================================
