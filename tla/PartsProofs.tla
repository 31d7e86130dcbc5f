----------------------------- MODULE PartsProofs -----------------------------
(***************************************************************************)
(* Theorems about the parts that stand alone: the policy of a sandbox, the *)
(* configuration of the process, the environments of challenges, the       *)
(* contact form with the function behind it, the menus, the pages, and the *)
(* repositories.                                                           *)
(***************************************************************************)
EXTENDS SandboxPolicy, Configuration, Repositories, ChallengeEnvironments, LabPages, ContactForm,
        MobileMenu, FiniteSetTheorems, TLAPS

-----------------------------------------------------------------------------
(* The configuration: what has been passed by the time of each stage.      *)
Passed ==
  /\ stage \in {"loading", "refused"} \/ ConfigAccepted
  /\ stage \in {"resolved", "built", "listening"} => (store = "memory" <=> env.REDIS_URL = "unset")
  /\ stage \in {"built", "listening"} => tables = IF env.DATABASE_URL THEN "prisma" ELSE "memory"

LEMMA PassedInductive == Passed /\ [BootNext]_bootVars => Passed'
<1> SUFFICES ASSUME Passed, [BootNext]_bootVars PROVE Passed'
  OBVIOUS
<1>1. env' = env /\ (ConfigAccepted' <=> ConfigAccepted)
  <2>1. env' = env
    BY DEF BootNext, LoadConfig, ResolveSharedStateStore, CreateRepositories, Listen, bootVars
  <2> QED BY <2>1 DEF ConfigAccepted, EnvironmentPolicyAccepted, EnvironmentPolicy,
             SecurityConfigAccepted, Production, CorsAccepted, RedisAccepted
<1>2. CASE LoadConfig
  BY <1>1, <1>2 DEF LoadConfig, Passed
<1>3. CASE ResolveSharedStateStore
  BY <1>1, <1>3 DEF ResolveSharedStateStore, Passed
<1>4. CASE CreateRepositories
  BY <1>1, <1>4 DEF CreateRepositories, Passed
<1>5. CASE Listen
  BY <1>1, <1>5 DEF Listen, Passed
<1>6. CASE UNCHANGED bootVars
  BY <1>1, <1>6 DEF bootVars, Passed
<1> QED BY <1>2, <1>3, <1>4, <1>5, <1>6 DEF BootNext

(* A policy that is accepted is one the environment service works with.    *)
LEMMA AcceptedIsOrdered ==
  ASSUME EnvironmentPolicyAccepted
  PROVE  /\ 1 <= EnvironmentPolicy["MAX_ACTIVE"]
         /\ EnvironmentPolicy["MAX_ACTIVE"] <= EnvironmentPolicy["MAX_TOTAL"]
         /\ 1 <= EnvironmentPolicy["TTL_MINUTES"]
         /\ EnvironmentPolicy["TTL_MINUTES"] <= EnvironmentPolicy["MAX_LIFETIME_MINUTES"]
<1>1. \A p \in Policies : EnvironmentPolicy[p] \in Nat \ {0}
  <2> SUFFICES ASSUME NEW p \in Policies PROVE Count(env.policy[p], Fallback[p]) \in Nat \ {0}
    BY DEF EnvironmentPolicy
  <2>1. Fallback[p] \in Nat \ {0} /\ Highest[p] \in Nat
    BY DEF Policies, Fallback, Highest
  <2>2. CountAccepted(env.policy[p], Highest[p])
    BY DEF EnvironmentPolicyAccepted
  <2> QED BY <2>1, <2>2 DEF CountAccepted, Count
<1>2. /\ EnvironmentPolicy["MAX_LIFETIME_MINUTES"] >= EnvironmentPolicy["TTL_MINUTES"]
      /\ EnvironmentPolicy["MAX_TOTAL"] >= EnvironmentPolicy["MAX_ACTIVE"]
  BY DEF EnvironmentPolicyAccepted
<1>3. {"MAX_ACTIVE", "MAX_TOTAL", "TTL_MINUTES", "MAX_LIFETIME_MINUTES"} = Policies
  BY DEF Policies
<1> DEFINE a == EnvironmentPolicy["MAX_ACTIVE"]
           t == EnvironmentPolicy["MAX_TOTAL"]
           m == EnvironmentPolicy["TTL_MINUTES"]
           l == EnvironmentPolicy["MAX_LIFETIME_MINUTES"]
<1>4. a \in Nat \ {0} /\ t \in Nat \ {0} /\ m \in Nat \ {0} /\ l \in Nat \ {0}
  BY <1>1, <1>3
<1>5. l >= m /\ t >= a
  BY <1>2
<1> HIDE DEF a, t, m, l
<1>6. 1 <= a /\ a <= t /\ 1 <= m /\ m <= l
  BY <1>4, <1>5
<1> QED BY <1>6 DEF a, t, m, l

(* BootIsCoherent: main of server.ts ends in a process that listens with a *)
(* coherent configuration or in none, whatever the environment is.         *)
THEOREM BootCoherent == BootSpec => []BootIsCoherent
<1>1. BootInit => Passed
  BY DEF BootInit, Passed
<1>2. Passed => BootIsCoherent
  <2> SUFFICES ASSUME Passed, stage = "listening" PROVE BootIsCoherent
    BY DEF BootIsCoherent
  <2>1. ConfigAccepted /\ (store = "memory" <=> env.REDIS_URL = "unset")
    BY DEF Passed
  <2>2. tables = IF env.DATABASE_URL THEN "prisma" ELSE "memory"
    BY DEF Passed
  <2>3. ASSUME Production PROVE tables = "prisma" /\ \A o \in CorsOrigin : o.scheme = "https:"
    BY <2>1, <2>2, <2>3 DEF ConfigAccepted, CorsAccepted, CorsOrigin
  <2> QED BY <2>1, <2>3, AcceptedIsOrdered DEF ConfigAccepted, BootIsCoherent
<1> QED BY <1>1, <1>2, PassedInductive, PTL DEF BootSpec

-----------------------------------------------------------------------------
(* The policy of a sandbox.  The cases of classifyIpv4 cover the reserved  *)
(* blocks to the octet.                                                    *)
LEMMA ClassifiedIsPublic ==
  ASSUME NEW a \in 0 .. 255, NEW b \in 0 .. 255, ClassifyIpv4(a, b) = "none"
  PROVE  ~Reserved(a, b)
<1>1. /\ a # 127 /\ a # 0 /\ a # 10
      /\ ~(a = 169 /\ b = 254)
      /\ ~(a = 172 /\ b \in 16 .. 31) /\ ~(a = 192 /\ b = 168) /\ ~(a = 100 /\ b \in 64 .. 127)
  BY DEF ClassifyIpv4
<1> QED BY <1>1 DEF Reserved, In

LEMMA DestinationIsPublic ==
  ASSUME NEW d \in Destination, ClassifyDestination(d) = "none"
  PROVE  Public(d) \/ Overlooked(d)
<1>1. /\ d.kind \in HostKinds /\ d.a \in 0 .. 255 /\ d.b \in 0 .. 255
      /\ d.spelling \in {"usual", "dotted", "account", "other"} /\ d.spelling \in Spellings(d.kind)
  BY DEF Destination
<1>2. CASE d.spelling = "usual"
  <2>1. ClassifyUsual(d) = "none"
    BY <1>2 DEF ClassifyDestination
  <2>2. d.kind \in {"name", "v6", "v4", "v6mapped", "v6linkHigh"}
    BY <1>1, <2>1 DEF ClassifyUsual, HostKinds, NameKinds, V6Kinds
  <2>3. d.kind \in {"v4", "v6mapped"} => ClassifyIpv4(d.a, d.b) = "none"
    BY <2>1 DEF ClassifyUsual
  <2> QED BY <1>1, <2>2, <2>3, ClassifiedIsPublic DEF Public, Overlooked
<1>3. CASE d.spelling = "account"
  BY <1>1, <1>3 DEF ClassifyDestination, HostKinds, NameKinds, V6Kinds, Spellings, Public, Overlooked
<1>4. CASE d.spelling = "other"
  BY <1>4 DEF ClassifyDestination, Overlooked
<1>5. CASE d.spelling = "dotted"
  BY <1>5 DEF Overlooked
<1> QED BY <1>1, <1>2, <1>3, <1>4, <1>5

LEMMA GrantedPolicy ==
  ASSUME NEW p \in Proposal, Accepted(p)
  PROVE  Safe(Policy(p)) /\ ResolveSandboxPolicy(Policy(p)) = [ok |-> TRUE, policy |-> Policy(p)]
<1> DEFINE q == Policy(p)
<1>1. /\ q.resources = [f \in Resources |-> Picked(f, p.resources[f])]
      /\ q.flags = Granted(p.flags) /\ q.ingress = p.ingress
      /\ q.egress = p.egress /\ q.destinations = p.destinations
  BY DEF Policy, Proposal
<1>2. \A f \in Resources : q.resources[f] \in 1 .. Ceiling[f]
  BY <1>1 DEF Accepted, InBounds, Picked, Resources, Ceiling, Default
<1>3. q.flags \cap Forbidden = {} /\ (q.flags # {} => "network" \in q.flags)
  BY <1>1 DEF Granted, Forbidden
<1>4. Granted(q.flags) = q.flags
  BY <1>1 DEF Granted, Forbidden
<1>5. NetworkAccepted(p)
  BY DEF Accepted
<1>6. q.ingress = "deny" /\ (q.destinations # {} => "network" \in q.flags)
  BY <1>1, <1>5 DEF NetworkAccepted
<1>7. \A d \in q.destinations : d \in Destination /\ ClassifyDestination(d) = "none"
  BY <1>1, <1>5 DEF NetworkAccepted, Proposal
<1>8. Safe(q)
  BY <1>2, <1>3, <1>6, <1>7, DestinationIsPublic DEF Safe
<1>9. Accepted(q)
  <2>1. NetworkAccepted(q)
    BY <1>1, <1>4, <1>5 DEF NetworkAccepted
  <2> QED BY <1>2, <1>3, <2>1 DEF Accepted, InBounds
<1>10. Policy(q) = q
  <2>1. [f \in Resources |-> Picked(f, q.resources[f])] = q.resources
    BY <1>1, <1>2 DEF Picked, Resources, Ceiling
  <2>2. q = [q EXCEPT !.resources = q.resources, !.flags = q.flags]
    BY DEF Policy, Proposal
  <2> QED BY <1>4, <2>1, <2>2 DEF Policy
<1> QED BY <1>8, <1>9, <1>10 DEF ResolveSandboxPolicy

(* GrantedPolicyIsSafe: resolveSandboxPolicy grants only what is safe, as  *)
(* far as it recognises a destination, and grants that again, whatever is  *)
(* proposed.                                                               *)
THEOREM GrantedSafe == PolicySpec => []GrantedPolicyIsSafe
<1> DEFINE Inv == proposal \in Proposal /\ GrantedPolicyIsSafe
<1>1. PolicyInit => Inv
  BY ProposalsAssumption DEF PolicyInit, GrantedPolicyIsSafe, Unresolved
<1>2. Inv /\ [Resolve]_policyVars => Inv'
  <2> SUFFICES ASSUME Inv, [Resolve]_policyVars PROVE Inv'
    OBVIOUS
  <2>1. CASE Resolve /\ Accepted(proposal)
    BY <2>1, GrantedPolicy DEF Resolve, ResolveSandboxPolicy, GrantedPolicyIsSafe
  <2>2. CASE Resolve /\ ~Accepted(proposal)
    BY <2>2 DEF Resolve, ResolveSandboxPolicy, GrantedPolicyIsSafe
  <2>3. CASE UNCHANGED policyVars
    BY <2>3 DEF policyVars, GrantedPolicyIsSafe
  <2> QED BY <2>1, <2>2, <2>3
<1>3. Inv => GrantedPolicyIsSafe
  OBVIOUS
<1> QED BY <1>1, <1>2, <1>3, PTL DEF PolicySpec

-----------------------------------------------------------------------------
(* The contact form.                                                       *)
Texts == {Empty, "broken", "given"} \cup Messages

Bodies == [name : Texts, email : Texts, message : Texts]

PostStages == {"none", "sent", "lost", "refused", "unconfigured", "failed", "ok"}

ContactTypes ==
  /\ values \in [name : Texts, email : Texts, message : Texts, website : Texts]
  /\ status \in {"idle", "submitting", "done"}
  /\ result \in {Nothing, "sent", "error"}
  /\ draft \in BOOLEAN
  /\ post \in [stage : PostStages, body : Bodies]

(* What is in flight is what is on the screen, and complete; what the      *)
(* function reports as mailed is mailed.                                   *)
InFlight ==
  /\ post.stage # "none" => status = "submitting" /\ post.body = Body /\ Invalid = {}
  /\ post.stage \in {"none", "ok"} \/ post.stage \in PostStages \ {"refused"}
  /\ post.stage = "ok" => post.body \in mailed

ContactInv == ContactTypes /\ InFlight /\ ContactIsHonest

LEMMA CompleteForm ==
  Invalid = {} <=> values.name # Empty /\ values.message # Empty /\ values.email = "given"
  BY DEF Invalid

LEMMA ContactInductive == ContactInv /\ [ContactNext]_contactVars => ContactInv'
<1> SUFFICES ASSUME ContactInv, [ContactNext]_contactVars PROVE ContactInv'
  OBVIOUS
<1> USE DEF ContactInv, ContactTypes, InFlight, ContactIsHonest, Received, Body, Bodies, Empty, Nothing
<1>1. ASSUME NEW field \in {"name", "email", "message", "website"}, NEW v \in Texts, Type(field, v)
      PROVE ContactInv'
  <2>1. values' \in [name : Texts, email : Texts, message : Texts, website : Texts]
    BY <1>1 DEF Type
  <2>2. Nothing # "sent" /\ result' = Nothing /\ draft' = FALSE
    BY <1>1 DEF Type, AfterEdit
  <2>3. CASE post.stage = "none"
    BY <1>1, <2>1, <2>2, <2>3 DEF Type
  <2>4. CASE post.stage # "none"
    <3>1. field = "website"
      BY <1>1, <2>4 DEF Type
    <3>2. Body' = Body /\ Invalid' = Invalid
      BY <1>1, <3>1 DEF Type, Invalid
    <3> QED BY <1>1, <2>1, <2>2, <2>4, <3>2 DEF Type
  <2> QED BY <2>3, <2>4
<1>2. CASE Submit
  <2>1. Body' = Body /\ Invalid' = Invalid
    BY <1>2 DEF Submit, Invalid
  <2>2. CASE Invalid = {}
    <3>1. /\ status' = "submitting" /\ post' = [stage |-> "sent", body |-> Body]
          /\ UNCHANGED <<values, result, draft, mailed>>
      BY <1>2, <2>2 DEF Submit
    <3>2. ContactTypes'
      BY <3>1 DEF PostStages
    <3> QED BY <2>1, <2>2, <3>1, <3>2 DEF PostStages
  <2>3. CASE Invalid # {}
    BY <1>2, <2>1, <2>3 DEF Submit
  <2> QED BY <2>2, <2>3
<1>3. CASE Handle
  <2>1. Body' = Body /\ Invalid' = Invalid
    BY <1>3 DEF Handle, Invalid
  <2>2. /\ post.stage = "sent" /\ status = "submitting" /\ post.body = Body /\ Invalid = {}
        /\ UNCHANGED <<values, status, result, draft>>
    BY <1>3 DEF Handle
  <2>3. Checked(post.body) \in {"forward", "unconfigured"}
    <3>1. values.name # Empty /\ values.message # Empty /\ values.email = "given"
      BY <2>2, CompleteForm
    <3>2. /\ post.body.name = values.name /\ post.body.message = values.message
          /\ post.body.email = values.email
      <4>1. post.body = Body
        BY <2>2
      <4> QED BY ONLY <4>1 DEF Body
    <3>3. \/ Checked(post.body) = "forward"
          \/ Checked(post.body) = "unconfigured"
      BY <3>1, <3>2 DEF Checked
    <3> QED BY <3>3
  <2>4. PICK x \in PostStages \ {"none", "refused"} :
          /\ post' = [post EXCEPT !.stage = x]
          /\ x = "ok" => post.body \in mailed'
          /\ mailed \subseteq mailed'
    <3>1. CASE post' = [post EXCEPT !.stage = "lost"] /\ UNCHANGED mailed
      BY <3>1 DEF PostStages
    <3>2. CASE post' = [post EXCEPT !.stage = "unconfigured"] /\ UNCHANGED mailed
      BY <3>2 DEF PostStages
    <3>3. CASE post' = [post EXCEPT !.stage = "failed"] /\ UNCHANGED mailed
      BY <3>3 DEF PostStages
    <3>4. ASSUME NEW how \in {"ok", "failed"}, mailed' = mailed \cup {post.body},
                 post' = [post EXCEPT !.stage = how]
          PROVE \E x \in PostStages \ {"none", "refused"} :
                  /\ post' = [post EXCEPT !.stage = x]
                  /\ x = "ok" => post.body \in mailed'
                  /\ mailed \subseteq mailed'
      BY <3>4 DEF PostStages
    <3> QED BY <1>3, <2>3, <3>1, <3>2, <3>3, <3>4 DEF Handle
  <2>5. ContactTypes' /\ post'.body = post.body /\ post'.stage = x
    BY <2>2, <2>4
  <2> QED BY <2>1, <2>2, <2>4, <2>5
<1>4. CASE Conclude
  <2>1. Body' = Body /\ Invalid' = Invalid
    BY <1>4 DEF Conclude, Invalid
  <2>2. PICK sent \in {FALSE, Confirmed} :
          result' = (IF sent THEN "sent" ELSE "error") /\ draft' = ~sent
    BY <1>4 DEF Conclude
  <2>3. /\ post' = NoPost /\ status' = "done" /\ values' = values /\ mailed' = mailed
        /\ NoPost.stage = "none" /\ NoPost \in [stage : PostStages, body : Bodies]
    BY <1>4 DEF Conclude, NoPost, PostStages, Texts
  <2>4. ContactTypes' /\ InFlight'
    <3>1. result' \in {Nothing, "sent", "error"} /\ draft' \in BOOLEAN
      BY <2>2 DEF Confirmed
    <3> QED BY <2>3, <3>1
  <2>5. Invalid = {} /\ (sent => Body \in mailed)
    BY <1>4, <2>2 DEF Conclude, Confirmed
  <2>6. ContactIsHonest'
    BY <2>1, <2>2, <2>3, <2>5
  <2> QED BY <2>4, <2>6
<1>5. CASE UNCHANGED contactVars
  BY <1>5 DEF contactVars, Invalid
<1> QED BY <1>1, <1>2, <1>3, <1>4, <1>5 DEF ContactNext, Texts, Contents

(* ContactIsHonest: the form of the main site thanks only for mail that    *)
(* the function behind it got accepted, whatever is written and lost.      *)
THEOREM ContactHonest == ContactSpec => []ContactIsHonest
<1>1. ContactInit => ContactInv
  <2> SUFFICES ASSUME ContactInit PROVE ContactInv
    OBVIOUS
  <2>1. ContactTypes
    BY DEF ContactInit, ContactTypes, Bodies, NoPost, PostStages, Texts, Empty, Nothing
  <2> QED BY <2>1 DEF ContactInit, ContactInv, InFlight, ContactIsHonest, Received, NoPost
<1>2. ContactInv => ContactIsHonest
  BY DEF ContactInv
<1> QED BY <1>1, <1>2, ContactInductive, PTL DEF ContactSpec

-----------------------------------------------------------------------------
(* The menus.                                                              *)
MenuTypes ==
  /\ site \in {"lab", "main"}
  /\ layout \in {"narrow", "wide"}
  /\ opened \in BOOLEAN /\ drawn \in BOOLEAN /\ effective \in BOOLEAN /\ leaving \in BOOLEAN
  /\ inert \in BOOLEAN /\ locked \in BOOLEAN /\ trapped \in BOOLEAN

(* The page is taken over by the effects that have run.                    *)
TakenOver ==
  /\ locked = effective
  /\ trapped = effective
  /\ inert = (effective /\ site = "lab")

(* Where the focus is meanwhile, and which menu is where.                  *)
FocusKept ==
  /\ site = "lab" => ~leaving
  /\ site = "lab" /\ opened => layout = "narrow"
  /\ site = "lab" /\ opened /\ drawn /\ effective => focus \in Dialog
  /\ site = "lab" /\ ~drawn /\ ~effective => focus # "lost"
  /\ ~drawn /\ ~leaving => focus \notin Dialog

MenuInv == MenuTypes /\ TakenOver /\ FocusKept

LEMMA MenuInductive == MenuInv /\ [MenuNext]_menuVars => MenuInv'
<1> SUFFICES ASSUME MenuInv, [MenuNext]_menuVars PROVE MenuInv'
  OBVIOUS
<1> USE DEF MenuInv, MenuTypes, TakenOver, FocusKept, Dialog, Page, Present, Focusable, ShownIn
<1>1. CASE Toggle
  BY <1>1 DEF Toggle
<1>2. CASE Close
  BY <1>2 DEF Close
<1>3. CASE ChangeRoute
  BY <1>3 DEF ChangeRoute
<1>4. CASE Escape
  BY <1>4 DEF Escape
<1>5. CASE Tab
  BY <1>5 DEF Tab
<1>6. CASE Resize
  BY <1>6 DEF Resize
<1>7. CASE Draw
  BY <1>7 DEF Draw
<1>8. CASE FadedOut
  BY <1>8 DEF FadedOut
<1>9. CASE RunEffects
  BY <1>9 DEF RunEffects, Focused, ReturnFocus
<1>10. CASE UNCHANGED menuVars
  BY <1>10 DEF menuVars
<1> QED
  BY <1>1, <1>2, <1>3, <1>4, <1>5, <1>6, <1>7, <1>8, <1>9, <1>10 DEF MenuNext

(* MenuGivesThePageBack: the effects of MobileMenu.tsx undo what they did, *)
(* on both sites, whatever happens in which order.                         *)
THEOREM MenuReturnsThePage == MenuSpec => []MenuGivesThePageBack
<1>1. MenuInit => MenuInv
  BY DEF MenuInit, MenuInv, MenuTypes, TakenOver, FocusKept, Dialog
<1>2. MenuInv => MenuGivesThePageBack
  <2> SUFFICES ASSUME MenuInv, Settled PROVE MenuGivesThePageBack
    BY DEF MenuGivesThePageBack
  <2>1. CASE opened
    <3>1. opened = TRUE /\ drawn = TRUE /\ effective = TRUE
      BY <2>1 DEF MenuInv, MenuTypes, Settled
    <3>2. locked = TRUE /\ trapped = TRUE /\ inert = (site = "lab")
      BY <3>1 DEF MenuInv, TakenOver
    <3> QED BY <3>1, <3>2 DEF MenuInv, FocusKept, MenuGivesThePageBack
  <2>2. CASE ~opened
    <3>1. opened = FALSE /\ drawn = FALSE /\ effective = FALSE
      BY <2>2 DEF MenuInv, MenuTypes, Settled
    <3>2. locked = FALSE /\ trapped = FALSE /\ inert = FALSE
      BY <3>1 DEF MenuInv, TakenOver
    <3> QED BY <3>1, <3>2 DEF MenuInv, FocusKept, MenuGivesThePageBack
  <2> QED BY <2>1, <2>2
<1> QED BY <1>1, <1>2, MenuInductive, PTL DEF MenuSpec

-----------------------------------------------------------------------------
(* Environments of challenges: what a call knows of its row at each stage. *)

Visitors == Players \cup {NoVisit.user}

VisitType == [stage : Stages, op : {"create", "get", "reset", "submit"}, user : Visitors,
              slug : Catalog \cup {NoVisit.slug}, id : Rows \cup {1}, key : BOOLEAN, replayed : BOOLEAN]

RowType == [owner : Visitors, target : Catalog \cup {"none", "mission"},
            status : Cycle!Statuses \cup {"NONE"}, expires : Nat]

ChallengeTypes ==
  /\ configured \in BOOLEAN /\ clock \in Nat
  /\ row \in [Rows -> RowType]
  /\ visit \in [Visits -> VisitType]

(* The row of the call is there, and the user's, or an administrator asks; *)
(* and it is of the challenge of the call, unless a key was repeated.      *)
HasRow(v) ==
  /\ row[v.id].status # "NONE"
  /\ row[v.id].owner = v.user \/ (v.user \in Staff /\ v.op # "create")
  /\ row[v.id].target = v.slug \/ v.replayed

VisitInv(s) ==
  LET v == visit[s] IN
  /\ v.stage # "idle" => v.id \in Rows
  /\ v.stage \notin {"idle", "refused"} => v.slug \in Registered
  /\ v.stage \in {"request", "mint", "activate"} => v.op = "create"
  /\ v.stage \in {"load", "reset", "count"} => v.op # "create"
  /\ v.stage = "reset" => v.op = "reset"
  /\ v.stage \in {"activate", "reset", "count", "done"} => HasRow(v)
  /\ v.stage = "activate" => configured
  /\ v.stage = "count" \/ (v.stage = "done" /\ v.op = "submit") => s \in open

RememberedInv ==
  \A u \in Visitors, e \in Rows : <<u, Key, e>> \in remembered => row[e].status # "NONE" /\ row[e].owner = u

RuntimeInv == \A e \in Rows : row[e].status \in {"READY", "ACTIVE"} => configured

ChallengeInv ==
  ChallengeTypes /\ (\A s \in Visits : VisitInv(s)) /\ RememberedInv /\ RuntimeInv

(* What every step does: no row changes hands or its challenge, none goes, *)
(* and a call that found its row open keeps that.                          *)
RowsStay ==
  \A e \in Rows : row[e].status # "NONE" =>
    /\ row'[e].status # "NONE" /\ row'[e].owner = row[e].owner /\ row'[e].target = row[e].target

OpenStays ==
  \A s \in Visits :
    /\ visit[s].stage # "idle" /\ visit'[s].stage # "idle" =>
         (s \in open' <=> s \in open \/ OpenTo(visit[s]))

LEMMA NoVisitIs == NoVisit \in VisitType /\ NoVisit.stage = "idle" /\ NoVisit.replayed = FALSE
  BY DEF NoVisit, VisitType, Visitors, Stages

LEMMA RowChanges ==
  ASSUME ChallengeInv, NEW e \in Rows, NEW r \in RowType, row' = [row EXCEPT ![e] = r],
         row[e].status # "NONE" =>
           r.status # "NONE" /\ r.owner = row[e].owner /\ r.target = row[e].target,
         r.status \in {"READY", "ACTIVE"} => configured, configured' = configured
  PROVE  row' \in [Rows -> RowType] /\ row'[e] = r /\ RowsStay /\ RuntimeInv'
<1>1. row \in [Rows -> RowType] /\ RuntimeInv
  BY DEF ChallengeInv, ChallengeTypes
<1>2. row' \in [Rows -> RowType] /\ row'[e] = r /\ \A f \in Rows : f # e => row'[f] = row[f]
  BY <1>1
<1> QED BY <1>1, <1>2 DEF RowsStay, RuntimeInv

LEMMA RowSame ==
  ASSUME ChallengeInv, row' = row, configured' = configured
  PROVE  row' \in [Rows -> RowType] /\ RowsStay /\ RuntimeInv'
  BY DEF ChallengeInv, ChallengeTypes, RowsStay, RuntimeInv

LEMMA RememberedStays ==
  ASSUME ChallengeInv, RowsStay, remembered' \subseteq remembered
  PROVE  RememberedInv'
  BY DEF ChallengeInv, RememberedInv, RowsStay

LEMMA RememberedGrows ==
  ASSUME ChallengeInv, RowsStay, NEW u, NEW e \in Rows, row'[e].status # "NONE", row'[e].owner = u,
         remembered' \subseteq remembered \cup {<<u, Key, e>>}
  PROVE  RememberedInv'
  BY DEF ChallengeInv, RememberedInv, RowsStay

LEMMA VisitStays ==
  ASSUME ChallengeInv, RowsStay, OpenStays, configured' = configured, NEW s \in Visits,
         visit'[s] = visit[s]
  PROVE  VisitInv(s)'
<1>1. VisitInv(s) /\ visit[s] \in VisitType
  BY DEF ChallengeInv, ChallengeTypes
<1>2. visit[s].stage # "idle" => visit[s].id \in Rows
  BY <1>1 DEF VisitInv
<1>3. visit[s].stage \in {"activate", "reset", "count", "done"} => HasRow(visit[s])'
  BY <1>1, <1>2 DEF VisitInv, HasRow, RowsStay
<1>4. visit[s].stage # "idle" /\ s \in open => s \in open'
  BY DEF OpenStays
<1> QED BY <1>1, <1>3, <1>4 DEF VisitInv

(* A step of one call.                                                     *)
LEMMA OneVisit ==
  ASSUME ChallengeInv, NEW s \in Visits, NEW d \in VisitType, Proceed(s, d),
         configured' = configured, clock' = clock, OpenStays,
         row' \in [Rows -> RowType], RowsStay, RuntimeInv', RememberedInv',
         visit'[s] = d => VisitInv(s)'
  PROVE  ChallengeInv'
<1>1. ChallengeTypes
  BY DEF ChallengeInv
<1>2. visit' \in [Visits -> VisitType] /\ visit'[s] = d /\ \A t \in Visits : t # s => visit'[t] = visit[t]
  BY <1>1 DEF ChallengeTypes, Proceed
<1>3. ChallengeTypes'
  BY <1>1, <1>2 DEF ChallengeTypes
<1>4. \A t \in Visits : VisitInv(t)'
  BY <1>2, VisitStays
<1> QED BY <1>3, <1>4 DEF ChallengeInv

(* One that leaves the rows alone and does not go on to a row.             *)
LEMMA QuietVisit ==
  ASSUME ChallengeInv, NEW s \in Visits, NEW d \in VisitType, Proceed(s, d),
         UNCHANGED <<configured, row, remembered, clock>>, OpenStays, visit'[s] = d => VisitInv(s)'
  PROVE  ChallengeInv'
<1>1. row' \in [Rows -> RowType] /\ RowsStay /\ RuntimeInv'
  BY RowSame
<1>2. RememberedInv'
  BY <1>1, RememberedStays
<1> QED BY <1>1, <1>2, OneVisit

LEMMA VisitStep ==
  ASSUME ChallengeInv, OpenStays, configured' = configured, NEW s \in Visits,
         NEW op \in {"create", "get", "reset", "submit"}, NEW u \in Players, NEW slug \in Catalog,
         NEW id \in Rows, NEW key \in BOOLEAN, Visit(s, op, u, slug, id, key)
  PROVE  ChallengeInv'
<1> DEFINE x == IF ~RequireDefinition(slug) THEN "refused"
                ELSE IF op = "create" THEN "request" ELSE "load"
           d == [NoVisit EXCEPT !.op = op, !.user = u, !.slug = slug, !.id = id, !.key = key, !.stage = x]
<1>1. x \in {"refused", "request", "load"} /\ (x # "refused" => slug \in Registered)
      /\ (x = "request" => op = "create") /\ (x = "load" => op # "create")
  BY DEF RequireDefinition
<1>2. d \in VisitType /\ d.stage = x /\ d.op = op /\ d.slug = slug /\ d.id = id
  <2> HIDE DEF x
  <2> QED BY <1>1, NoVisitIs DEF VisitType, Visitors, Stages
<1>3. Proceed(s, d) /\ UNCHANGED <<configured, row, remembered, clock>>
  BY DEF Visit
<1> HIDE DEF d, x
<1>4. visit'[s] = d => VisitInv(s)'
  BY <1>1, <1>2 DEF VisitInv
<1> QED BY <1>2, <1>3, <1>4, QuietVisit

LEMMA VisitFacts ==
  ASSUME ChallengeInv, NEW s \in Visits
  PROVE  visit[s] \in VisitType /\ VisitInv(s)
  BY DEF ChallengeInv, ChallengeTypes

LEMMA RequestedStep ==
  ASSUME ChallengeInv, OpenStays, configured' = configured, NEW s \in Visits, Requested(s)
  PROVE  ChallengeInv'
<1> DEFINE d == [visit[s] EXCEPT !.stage = "mint"]
<1>1. visit[s] \in VisitType /\ VisitInv(s) /\ visit[s].stage = "request"
  BY VisitFacts DEF Requested
<1>2. d \in VisitType /\ d.stage = "mint" /\ d.op = visit[s].op /\ d.slug = visit[s].slug /\ d.id = visit[s].id
  BY <1>1 DEF VisitType, Stages
<1>3. Proceed(s, d) /\ UNCHANGED <<configured, row, remembered, clock>>
  BY DEF Requested, Turn
<1> HIDE DEF d
<1>4. visit'[s] = d => VisitInv(s)'
  BY <1>1, <1>2 DEF VisitInv
<1> QED BY <1>2, <1>3, <1>4, QuietVisit

LEMMA DepartStep ==
  ASSUME ChallengeInv, OpenStays, configured' = configured, NEW s \in Visits, Depart(s)
  PROVE  ChallengeInv'
<1>1. NoVisit \in VisitType /\ NoVisit.stage = "idle"
  BY NoVisitIs
<1>2. Proceed(s, NoVisit) /\ UNCHANGED <<configured, row, remembered, clock>>
  BY DEF Depart
<1>3. visit'[s] = NoVisit => VisitInv(s)'
  BY <1>1 DEF VisitInv
<1> QED BY <1>1, <1>2, <1>3, QuietVisit

LEMMA CountStep ==
  ASSUME ChallengeInv, OpenStays, configured' = configured, NEW s \in Visits, CountSubmission(s)
  PROVE  ChallengeInv'
<1> DEFINE d == [visit[s] EXCEPT !.stage = "done"]
<1>1. visit[s] \in VisitType /\ VisitInv(s) /\ visit[s].stage = "count"
  BY VisitFacts DEF CountSubmission
<1>2. d \in VisitType /\ d.stage = "done" /\ d.op = visit[s].op /\ d.slug = visit[s].slug
      /\ d.id = visit[s].id /\ d.user = visit[s].user /\ d.replayed = visit[s].replayed
  BY <1>1 DEF VisitType, Stages
<1>3. Proceed(s, d) /\ UNCHANGED <<configured, row, remembered, clock>>
  BY DEF CountSubmission, Turn
<1> HIDE DEF d
<1>4. visit'[s] = d => VisitInv(s)'
  <2> SUFFICES ASSUME visit'[s] = d PROVE VisitInv(s)'
    OBVIOUS
  <2>1. HasRow(visit[s])
    BY <1>1 DEF VisitInv
  <2>2. HasRow(visit[s])'
    BY <1>2, <1>3, <2>1 DEF HasRow
  <2>3. s \in open'
    BY <1>1, <1>2 DEF VisitInv, OpenStays
  <2> QED BY <1>1, <1>2, <2>2, <2>3 DEF VisitInv
<1> QED BY <1>2, <1>3, <1>4, QuietVisit

LEMMA LoadStep ==
  ASSUME ChallengeInv, OpenStays, configured' = configured, NEW s \in Visits, LoadForChallenge(s)
  PROVE  ChallengeInv'
<1> DEFINE v == visit[s]
           x == IF ~Bound(v) THEN "refused"
                ELSE CASE v.op = "get" -> "done"
                       [] v.op = "reset" -> "reset"
                       [] v.op = "submit" -> IF Accepts(row[v.id]) THEN "count" ELSE "refused"
           d == [v EXCEPT !.stage = x]
<1>1. v \in VisitType /\ VisitInv(s) /\ v.stage = "load"
  BY VisitFacts DEF LoadForChallenge
<1>2. v.op \in {"get", "reset", "submit"} /\ v.id \in Rows
  BY <1>1 DEF VisitInv, VisitType
<1>3. /\ x \in {"refused", "done", "reset", "count"}
      /\ x # "refused" => Bound(v)
      /\ x = "done" => v.op = "get"
      /\ x = "reset" => v.op = "reset"
      /\ x = "count" => v.op = "submit" /\ Accepts(row[v.id])
  BY <1>2
<1>4. /\ d \in VisitType /\ d.stage = x /\ d.op = v.op /\ d.slug = v.slug
      /\ d.id = v.id /\ d.user = v.user /\ d.replayed = v.replayed
  <2> HIDE DEF x, v
  <2> QED BY <1>1, <1>3 DEF VisitType, Stages
<1>5. Proceed(s, d) /\ UNCHANGED <<configured, row, remembered, clock>>
  BY DEF LoadForChallenge, Turn
<1> HIDE DEF x, d
<1>6. visit'[s] = d => VisitInv(s)'
  <2> SUFFICES ASSUME visit'[s] = d PROVE VisitInv(s)'
    OBVIOUS
  <2>1. x # "refused" => HasRow(visit[s])'
    BY <1>2, <1>3, <1>4, <1>5 DEF HasRow, Bound
  <2>2. x = "count" => s \in open'
    <3> SUFFICES ASSUME x = "count" PROVE s \in open'
      OBVIOUS
    <3>1. row[v.id].status \in Cycle!Statuses \cup {"NONE"}
      BY <1>2 DEF ChallengeInv, ChallengeTypes, RowType
    <3>2. Bound(v) /\ Accepts(row[v.id])
      BY <1>3
    <3>3. row[v.id].status # "NONE"
      BY <3>2 DEF Bound
    <3>4. row[v.id].expires \in Nat /\ clock \in Nat
      BY <1>2 DEF ChallengeInv, ChallengeTypes, RowType
    <3>5. OpenTo(v)
      BY <3>1, <3>2, <3>3, <3>4 DEF OpenTo, Accepts
    <3> QED BY <3>5, <1>1, <1>4 DEF OpenStays
  <2> QED BY <1>1, <1>2, <1>3, <1>4, <2>1, <2>2 DEF VisitInv
<1> QED BY <1>4, <1>5, <1>6, QuietVisit


(* A call is refused, whatever it did to its row.                          *)
LEMMA RefusedRow ==
  ASSUME ChallengeInv, OpenStays, NEW s \in Visits, visit[s].stage # "idle", Turn(s, "refused"),
         UNCHANGED <<configured, remembered, clock>>,
         row' \in [Rows -> RowType], RowsStay, RuntimeInv'
  PROVE  ChallengeInv'
<1> DEFINE d == [visit[s] EXCEPT !.stage = "refused"]
<1>1. visit[s] \in VisitType /\ VisitInv(s)
  BY VisitFacts
<1>2. d \in VisitType /\ d.stage = "refused" /\ d.id = visit[s].id /\ d.id \in Rows
  BY <1>1 DEF VisitType, Stages, VisitInv
<1>3. Proceed(s, d)
  BY DEF Turn
<1> HIDE DEF d
<1>4. visit'[s] = d => VisitInv(s)'
  BY <1>2 DEF VisitInv
<1>5. RememberedInv'
  BY RememberedStays
<1> QED BY <1>2, <1>3, <1>4, <1>5, OneVisit

LEMMA RefusedStep ==
  ASSUME ChallengeInv, OpenStays, NEW s \in Visits, visit[s].stage # "idle", Turn(s, "refused"),
         UNCHANGED <<configured, row, remembered, clock>>
  PROVE  ChallengeInv'
<1>1. row' \in [Rows -> RowType] /\ RowsStay /\ RuntimeInv'
  BY RowSame
<1> QED BY <1>1, RefusedRow

(* A step of nobody's call.                                                *)
LEMMA NoVisits ==
  ASSUME ChallengeInv, OpenStays, visit' = visit, configured' = configured, clock' \in Nat,
         row' \in [Rows -> RowType], RowsStay, RuntimeInv', RememberedInv'
  PROVE  ChallengeInv'
<1>1. ChallengeTypes'
  BY DEF ChallengeInv, ChallengeTypes
<1>2. \A s \in Visits : VisitInv(s)'
  BY VisitStays
<1> QED BY <1>1, <1>2 DEF ChallengeInv

LEMMA StatusChanges ==
  ASSUME ChallengeInv, NEW e \in Rows, NEW x \in Cycle!Statuses, row[e].status # "NONE",
         row' = [row EXCEPT ![e].status = x], x \in {"READY", "ACTIVE"} => configured,
         configured' = configured
  PROVE  row' \in [Rows -> RowType] /\ RowsStay /\ RuntimeInv'
<1> DEFINE r == [row[e] EXCEPT !.status = x]
<1>1. row[e] \in RowType
  BY DEF ChallengeInv, ChallengeTypes
<1>2. r \in RowType /\ r.status = x /\ r.owner = row[e].owner /\ r.target = row[e].target /\ x # "NONE"
  BY <1>1 DEF RowType, Cycle!Statuses
<1>3. row' = [row EXCEPT ![e] = r]
  OBVIOUS
<1> HIDE DEF r
<1> QED BY <1>2, <1>3, RowChanges

LEMMA InsertedIs ==
  ASSUME ChallengeInv, NEW e \in Rows, NEW u \in Visitors, NEW target \in Catalog \cup {"mission"},
         Inserted(e, u, target), configured' = configured
  PROVE  /\ row' \in [Rows -> RowType] /\ RowsStay /\ RuntimeInv'
         /\ row'[e].status = "REQUESTED" /\ row'[e].owner = u /\ row'[e].target = target
<1> DEFINE r == [owner |-> u, target |-> target, status |-> "REQUESTED", expires |-> clock + Period]
<1>1. row[e].status = "NONE"
  <2>1. e \in 1 .. Cardinality(Rows)
    BY ChallengeAssumption
  <2>2. e \in Int
    BY <2>1
  <2> QED BY <2>2 DEF Inserted
<1>2. clock + Period \in Nat
  BY ChallengeAssumption DEF ChallengeInv, ChallengeTypes
<1>3. r \in RowType /\ r.status = "REQUESTED" /\ r.owner = u /\ r.target = target
  BY <1>2 DEF RowType, Cycle!Statuses
<1>4. row' = [row EXCEPT ![e] = r]
  BY DEF Inserted
<1> HIDE DEF r
<1> QED BY <1>1, <1>3, <1>4, RowChanges

LEMMA MintStep ==
  ASSUME ChallengeInv, OpenStays, configured' = configured, NEW s \in Visits, Mint(s)
  PROVE  ChallengeInv'
<1>1. PICK v : v = visit[s]
  OBVIOUS
<1>2. v \in VisitType /\ VisitInv(s) /\ v.stage = "mint" /\ clock' = clock
  BY <1>1, VisitFacts DEF Mint
<1>3. v.slug \in Registered /\ v.op = "create" /\ v.id \in Rows /\ v.user \in Visitors
  BY <1>1, <1>2 DEF VisitInv, VisitType
<1>4. ASSUME NEW e \in Rows, v.key, <<v.user, Key, e>> \in remembered, UNCHANGED <<row, remembered>>,
             Proceed(s, [v EXCEPT !.id = e, !.replayed = TRUE, !.stage = After(e)])
      PROVE  ChallengeInv'
  <2>1. PICK x : x = After(e)
    OBVIOUS
  <2>2. x \in {"activate", "done"} /\ (x = "activate" => configured)
    BY <2>1 DEF After
  <2> DEFINE d == [v EXCEPT !.id = e, !.replayed = TRUE, !.stage = x]
  <2>3. d \in VisitType /\ d.stage = x /\ d.id = e /\ d.replayed /\ d.op = v.op /\ d.slug = v.slug
        /\ d.user = v.user
    BY <1>2, <2>2 DEF VisitType, Stages
  <2>4. Proceed(s, d)
    BY <1>4, <2>1
  <2> HIDE DEF d
  <2>5. row[e].status # "NONE" /\ row[e].owner = v.user
    BY <1>3, <1>4 DEF ChallengeInv, RememberedInv
  <2>6. visit'[s] = d => VisitInv(s)'
    <3> SUFFICES ASSUME visit'[s] = d PROVE VisitInv(s)'
      OBVIOUS
    <3>1. HasRow(visit[s])'
      BY <1>4, <2>3, <2>5 DEF HasRow
    <3> QED BY <1>3, <2>2, <2>3, <3>1 DEF VisitInv
  <2> QED BY <1>2, <1>4, <2>3, <2>4, <2>6, QuietVisit
<1>5. ASSUME NEW e \in Rows, Inserted(e, v.user, v.slug),
             remembered' = remembered \cup (IF v.key THEN {<<v.user, Key, e>>} ELSE {}),
             Proceed(s, [v EXCEPT !.id = e, !.stage = After(e)])
      PROVE  ChallengeInv'
  <2>1. PICK x : x = After(e)
    OBVIOUS
  <2>2. x \in {"activate", "done"} /\ (x = "activate" => configured)
    BY <2>1 DEF After
  <2> DEFINE d == [v EXCEPT !.id = e, !.stage = x]
  <2>3. d \in VisitType /\ d.stage = x /\ d.id = e /\ d.op = v.op /\ d.slug = v.slug /\ d.user = v.user
    BY <1>2, <2>2 DEF VisitType, Stages
  <2>4. Proceed(s, d)
    BY <1>5, <2>1
  <2> HIDE DEF d
  <2>5. /\ row' \in [Rows -> RowType] /\ RowsStay /\ RuntimeInv'
        /\ row'[e].status = "REQUESTED" /\ row'[e].owner = v.user /\ row'[e].target = v.slug
    <3>1. v.slug \in Catalog \cup {"mission"}
      BY <1>3, ChallengeAssumption
    <3> QED BY <3>1, <1>3, <1>5, InsertedIs
  <2>6. RememberedInv'
    BY <1>5, <2>5, RememberedGrows
  <2>7. visit'[s] = d => VisitInv(s)'
    <3> SUFFICES ASSUME visit'[s] = d PROVE VisitInv(s)'
      OBVIOUS
    <3>1. HasRow(visit[s])'
      BY <2>3, <2>5 DEF HasRow
    <3> QED BY <1>3, <2>2, <2>3, <3>1 DEF VisitInv
  <2> QED BY <1>2, <2>3, <2>4, <2>5, <2>6, <2>7, OneVisit
<1>6. ASSUME Turn(s, "refused"), UNCHANGED <<row, remembered>> PROVE ChallengeInv'
  BY <1>1, <1>2, <1>3, <1>6, RefusedStep
<1> QED BY <1>1, <1>4, <1>5, <1>6 DEF Mint

LEMMA ActivateStep ==
  ASSUME ChallengeInv, OpenStays, configured' = configured, NEW s \in Visits, Activate(s)
  PROVE  ChallengeInv'
<1>1. PICK v, e : v = visit[s] /\ e = v.id
  OBVIOUS
<1>2. v \in VisitType /\ VisitInv(s) /\ v.stage = "activate" /\ clock' = clock /\ remembered' = remembered
  BY <1>1, VisitFacts DEF Activate
<1>3. /\ v.slug \in Registered /\ v.op = "create" /\ e \in Rows /\ configured /\ HasRow(v)
      /\ row[e].status # "NONE" /\ row[e] \in RowType
  BY <1>1, <1>2 DEF VisitInv, VisitType, HasRow, ChallengeInv, ChallengeTypes
<1>4. CASE (row' = [row EXCEPT ![e].status = "ACTIVE"] \/ row' = row) /\ Turn(s, "done")
  <2>1. row' \in [Rows -> RowType] /\ RowsStay /\ RuntimeInv'
    BY <1>3, <1>4, StatusChanges, RowSame DEF Cycle!Statuses
  <2>2. RememberedInv'
    BY <1>2, <2>1, RememberedStays
  <2> DEFINE d == [v EXCEPT !.stage = "done"]
  <2>3. d \in VisitType /\ d.stage = "done" /\ d.op = v.op /\ d.slug = v.slug
        /\ d.id = e /\ d.user = v.user /\ d.replayed = v.replayed
    BY <1>1, <1>2 DEF VisitType, Stages
  <2>4. Proceed(s, d)
    BY <1>1, <1>4 DEF Turn
  <2> HIDE DEF d
  <2>5. visit'[s] = d => VisitInv(s)'
    <3> SUFFICES ASSUME visit'[s] = d PROVE VisitInv(s)'
      OBVIOUS
    <3>1. HasRow(visit[s])'
      BY <1>1, <1>3, <2>1, <2>3 DEF HasRow, RowsStay
    <3> QED BY <1>3, <2>3, <3>1 DEF VisitInv
  <2> QED BY <1>2, <2>1, <2>2, <2>3, <2>4, <2>5, OneVisit
<1>5. CASE (row' = [row EXCEPT ![e].status = "PROVISIONING"] \/ row' = row) /\ Turn(s, "refused")
  <2>1. row' \in [Rows -> RowType] /\ RowsStay /\ RuntimeInv'
    BY <1>3, <1>5, StatusChanges, RowSame DEF Cycle!Statuses
  <2> QED BY <1>1, <1>2, <1>3, <1>5, <2>1, RefusedRow
<1> QED BY <1>1, <1>4, <1>5 DEF Activate

LEMMA ResetStep ==
  ASSUME ChallengeInv, OpenStays, configured' = configured, NEW s \in Visits, Reset(s)
  PROVE  ChallengeInv'
<1>1. PICK v, e : v = visit[s] /\ e = v.id
  OBVIOUS
<1>2. v \in VisitType /\ VisitInv(s) /\ v.stage = "reset" /\ clock' = clock /\ remembered' = remembered
  BY <1>1, VisitFacts DEF Reset
<1>3. /\ v.slug \in Registered /\ v.op = "reset" /\ e \in Rows /\ HasRow(v)
      /\ row[e].status # "NONE" /\ row[e] \in RowType
  BY <1>1, <1>2 DEF VisitInv, VisitType, HasRow, ChallengeInv, ChallengeTypes
<1>4. CASE /\ configured /\ row' = [row EXCEPT ![e].status = "READY", ![e].expires = clock + Period]
           /\ Turn(s, "done")
  <2>1. row' \in [Rows -> RowType] /\ RowsStay /\ RuntimeInv'
    <3> DEFINE r == [row[e] EXCEPT !.status = "READY", !.expires = clock + Period]
    <3>1. clock + Period \in Nat
      BY ChallengeAssumption DEF ChallengeInv, ChallengeTypes
    <3>2. r \in RowType /\ r.status = "READY" /\ r.owner = row[e].owner /\ r.target = row[e].target
      BY <1>3, <3>1 DEF RowType, Cycle!Statuses
    <3>3. row' = [row EXCEPT ![e] = r]
      BY <1>3, <1>4 DEF ChallengeInv, ChallengeTypes, RowType
    <3> HIDE DEF r
    <3> QED BY <1>3, <1>4, <3>2, <3>3, RowChanges
  <2>2. RememberedInv'
    BY <1>2, <2>1, RememberedStays
  <2> DEFINE d == [v EXCEPT !.stage = "done"]
  <2>3. d \in VisitType /\ d.stage = "done" /\ d.op = v.op /\ d.slug = v.slug
        /\ d.id = e /\ d.user = v.user /\ d.replayed = v.replayed
    BY <1>1, <1>2 DEF VisitType, Stages
  <2>4. Proceed(s, d)
    BY <1>1, <1>4 DEF Turn
  <2> HIDE DEF d
  <2>5. visit'[s] = d => VisitInv(s)'
    <3> SUFFICES ASSUME visit'[s] = d PROVE VisitInv(s)'
      OBVIOUS
    <3>1. HasRow(visit[s])'
      BY <1>1, <1>3, <2>1, <2>3 DEF HasRow, RowsStay
    <3> QED BY <1>3, <2>3, <3>1 DEF VisitInv
  <2> QED BY <1>2, <2>1, <2>2, <2>3, <2>4, <2>5, OneVisit
<1>5. CASE (row' = [row EXCEPT ![e].status = "RESETTING"] \/ row' = row) /\ Turn(s, "refused")
  <2>1. row' \in [Rows -> RowType] /\ RowsStay /\ RuntimeInv'
    BY <1>3, <1>5, StatusChanges, RowSame DEF Cycle!Statuses
  <2> QED BY <1>1, <1>2, <1>3, <1>5, <2>1, RefusedRow
<1> QED BY <1>1, <1>4, <1>5 DEF Reset

LEMMA MissionStep ==
  ASSUME ChallengeInv, OpenStays, configured' = configured,
         NEW u \in Players, NEW e \in Rows, NEW key \in BOOLEAN, RequestMission(u, e, key)
  PROVE  ChallengeInv'
<1>1. /\ Inserted(e, u, "mission") /\ UNCHANGED <<visit, clock>>
      /\ remembered' \subseteq remembered \cup {<<u, Key, e>>}
  BY DEF RequestMission
<1>2. /\ row' \in [Rows -> RowType] /\ RowsStay /\ RuntimeInv'
      /\ row'[e].status = "REQUESTED" /\ row'[e].owner = u
  BY <1>1, InsertedIs DEF Visitors
<1>3. RememberedInv'
  BY <1>1, <1>2, RememberedGrows
<1>4. clock' \in Nat
  BY <1>1 DEF ChallengeInv, ChallengeTypes
<1> QED BY <1>1, <1>2, <1>3, <1>4, NoVisits

LEMMA MoveRowStep ==
  ASSUME ChallengeInv, OpenStays, configured' = configured,
         NEW e \in Rows, NEW to \in Cycle!Statuses, MoveRow(e, to)
  PROVE  ChallengeInv'
<1>1. /\ row[e].status # "NONE" /\ (to \in {"READY", "ACTIVE"} => configured)
      /\ row' = [row EXCEPT ![e].status = to] /\ UNCHANGED <<remembered, visit, clock>>
  BY DEF MoveRow
<1>2. row' \in [Rows -> RowType] /\ RowsStay /\ RuntimeInv'
  BY <1>1, StatusChanges
<1>3. RememberedInv'
  BY <1>1, <1>2, RememberedStays
<1>4. clock' \in Nat
  BY <1>1 DEF ChallengeInv, ChallengeTypes
<1> QED BY <1>1, <1>2, <1>3, <1>4, NoVisits

LEMMA ChallengeInductive == ChallengeInv /\ [ChallengeNext]_challengeVars => ChallengeInv'
<1> SUFFICES ASSUME ChallengeInv, [ChallengeNext]_challengeVars PROVE ChallengeInv'
  OBVIOUS
<1>1. CASE UNCHANGED challengeVars
  <2>1. UNCHANGED <<configured, row, remembered, visit, open, clock>>
    BY <1>1 DEF challengeVars
  <2>2. ChallengeTypes' /\ RememberedInv' /\ RuntimeInv'
    BY <2>1 DEF ChallengeInv, ChallengeTypes, RememberedInv, RuntimeInv
  <2>3. \A s \in Visits : VisitInv(s)'
    BY <2>1 DEF ChallengeInv, VisitInv, HasRow
  <2> QED BY <2>2, <2>3 DEF ChallengeInv
<1>2. CASE ChallengeNext
  <2>1. /\ configured' = configured
        /\ open' = {s \in Visits : "idle" \notin {visit[s].stage, visit'[s].stage}
                      /\ (s \in open \/ OpenTo(visit[s]))}
    BY <1>2 DEF ChallengeNext
  <2>2. OpenStays
    BY <2>1 DEF OpenStays
  <2>3. ASSUME NEW s \in Visits, Carry(s) PROVE ChallengeInv'
    BY <2>1, <2>2, <2>3, RequestedStep, MintStep, ActivateStep, LoadStep, ResetStep, CountStep,
       DepartStep DEF Carry
  <2>4. CASE RestartProcess
    <3>1. row' = row /\ clock' = clock /\ remembered' = {} /\ visit' = [s \in Visits |-> NoVisit]
      BY <2>4 DEF RestartProcess
    <3>2. row' \in [Rows -> RowType] /\ RowsStay /\ RuntimeInv'
      BY <2>1, <3>1, RowSame
    <3>3. RememberedInv'
      BY <3>1, <3>2, RememberedStays
    <3>4. ChallengeTypes'
      BY <2>1, <3>1, <3>2, NoVisitIs DEF ChallengeInv, ChallengeTypes
    <3>5. \A s \in Visits : VisitInv(s)'
      BY <3>1, NoVisitIs DEF VisitInv
    <3> QED BY <3>2, <3>3, <3>4, <3>5 DEF ChallengeInv
  <2>5. CASE Pass
    <3>1. clock' = clock + 1 /\ UNCHANGED <<row, remembered, visit>>
      BY <2>5 DEF Pass
    <3>2. row' \in [Rows -> RowType] /\ RowsStay /\ RuntimeInv'
      BY <2>1, <3>1, RowSame
    <3>3. RememberedInv'
      BY <3>1, <3>2, RememberedStays
    <3>4. clock' \in Nat
      BY <3>1 DEF ChallengeInv, ChallengeTypes
    <3> QED BY <2>1, <2>2, <3>1, <3>2, <3>3, <3>4, NoVisits
  <2> QED BY <1>2, <2>1, <2>2, <2>3, <2>4, <2>5, VisitStep, MissionStep, MoveRowStep DEF ChallengeNext
<1> QED BY <1>1, <1>2

LEMMA ChallengeStarts == ChallengeInit => ChallengeInv
<1> SUFFICES ASSUME ChallengeInit PROVE ChallengeInv
  OBVIOUS
<1>1. NoVisit \in VisitType /\ NoVisit.stage = "idle"
  BY NoVisitIs
<1>2. NoRow \in RowType /\ NoRow.status = "NONE"
  BY DEF NoRow, RowType, Visitors
<1>3. ChallengeTypes
  BY <1>1, <1>2 DEF ChallengeInit, ChallengeTypes
<1>4. \A s \in Visits : VisitInv(s)
  BY <1>1 DEF ChallengeInit, VisitInv
<1> QED BY <1>2, <1>3, <1>4 DEF ChallengeInit, ChallengeInv, RememberedInv, RuntimeInv

(* ChallengeCallsAreBound: what challengeService.ts learns of a row before *)
(* an await still holds when it answers or counts, because no row changes  *)
(* hands or its challenge, whoever moves it meanwhile.                     *)
THEOREM ChallengeCallsBound == ChallengeSpec => []ChallengeCallsAreBound
<1>1. ChallengeInv => ChallengeCallsAreBound
  BY DEF ChallengeInv, VisitInv, HasRow, RuntimeInv, ChallengeCallsAreBound
<1> QED BY <1>1, ChallengeStarts, ChallengeInductive, PTL DEF ChallengeSpec

-----------------------------------------------------------------------------
(*-------------------------------------------------------------------------*)
(* The pages of the Lab: an answer that may still change a page was asked  *)
(* for when the effects were run last.                                     *)
LoadInv(l) ==
  /\ l = [to |-> l.to, part |-> l.part, active |-> l.active] /\ l.active \in BOOLEAN
  /\ l.part = "environment" => (l.active => l.to.slug = applied.panel)
  /\ l.part # "environment" =>
       /\ l.to \in Routes /\ (l.active => l.to = applied.to)
       /\ l.to = To("dashboard", "") \/ (l.part = "page" /\ l.to.kind \in DOMAIN Lists)

(* A page that has no more to ask shows its record, or says there is none. *)
Tells(p, to) ==
  to.slug # "" =>
    /\ p.state = "found" => p.slug = to.slug
    /\ p.state = "not-found" => to.slug = Unknown

PageHolds ==
  /\ (route.kind # "tools" /\ Awaited("page")) \/ Tells(page, route)
  /\ OnList /\ page.state = "listed" => page.all = Lists[route.kind]

(* The panel is empty without its challenge, and else shows what it was    *)
(* set up with last, unless that is still asked for.                       *)
PanelHolds ==
  /\ Due.panel = "none" => panel = "none"
  /\ \/ panel \in {"none", applied.panel}
     \/ \E l \in loads : l.active /\ l.part = "environment"

PagesInv ==
  /\ route \in Routes
  /\ \A l \in loads : LoadInv(l)
  /\ PageHolds
  /\ PanelHolds

LEMMA ListKinds ==
  /\ DOMAIN Lists = {"challenges", "learning", "ctf"}
  /\ \A kind, slug : To(kind, slug).kind = kind /\ To(kind, slug).slug = slug
BY DEF Lists, To

(* A location with a slug is that of a record, or of none.                 *)
LEMMA RoutesAre ==
  ASSUME NEW to \in Routes
  PROVE  /\ to = To(to.kind, to.slug)
         /\ to.slug # "" /\ to.kind \in DOMAIN Lists =>
              to.slug = Unknown \/ Lookup(Lists[to.kind], to.slug) # {}
         /\ to.slug # "" /\ to.kind \notin DOMAIN Lists =>
              to.kind = "tools" /\ (to.slug = Unknown \/ to.slug \in ToSet(SecurityTools))
         /\ to.kind = "dashboard" => to = To("dashboard", "")
<1>1. ASSUME NEW kind \in DOMAIN Lists, to \in Details(kind, SlugsOf(Lists[kind]))
      PROVE  /\ to.kind = kind
             /\ to.slug = Unknown \/ Lookup(Lists[kind], to.slug) # {}
             /\ to = To(kind, to.slug)
  <2>1. PICK slug \in SlugsOf(Lists[kind]) \cup {Unknown} : to = To(kind, slug)
    BY <1>1 DEF Details
  <2>2. slug # Unknown => Lookup(Lists[kind], slug) # {}
    BY <2>1 DEF SlugsOf, Lookup
  <2> QED BY <2>1, <2>2, ListKinds
<1>2. ASSUME to \in Details("tools", ToSet(SecurityTools))
      PROVE  /\ to.kind = "tools" /\ to = To("tools", to.slug)
             /\ to.slug = Unknown \/ to.slug \in ToSet(SecurityTools)
  BY <1>2, ListKinds DEF Details
<1>3. ASSUME to \in PrimaryNav \cup {To("*", "")}
      PROVE  to = To(to.kind, "") /\ to.slug = ""
  <2>1. PICK kind \in DOMAIN Lists \cup {"dashboard", "tools", "about", "*"} : to = To(kind, "")
    BY <1>3 DEF PrimaryNav
  <2> QED BY <2>1, ListKinds
<1>4. \/ to \in PrimaryNav \cup {To("*", "")}
      \/ \E kind \in DOMAIN Lists : to \in Details(kind, SlugsOf(Lists[kind]))
      \/ to \in Details("tools", ToSet(SecurityTools))
  BY DEF Routes, Lists
<1> QED BY <1>1, <1>2, <1>3, <1>4, ListKinds

LEMMA ShownIs ==
  ASSUME NEW slug, NEW links
  PROVE  /\ Showing(slug, links).state = "found" /\ Showing(slug, links).slug = slug
         /\ NotFound.state = "not-found" /\ Loading.state = "loading" /\ Still.state = "still"
BY DEF Showing, NotFound, Loading, Still

LEMMA FoundTells ==
  ASSUME NEW to, NEW links
  PROVE  Tells(Showing(to.slug, links), to)
<1> DEFINE p == Showing(to.slug, links)
<1>1. p.state = "found"
  BY DEF Showing
<1>2. p.slug = to.slug
  BY DEF Showing
<1> HIDE DEF p
<1>3. Tells(p, to)
  BY <1>1, <1>2 DEF Tells
<1> QED BY <1>3 DEF p

LEMMA DetailTells ==
  ASSUME NEW to \in Routes, to.kind \in DOMAIN Lists, to.slug # ""
  PROVE  Tells(DetailPage(to), to)
<1> DEFINE found == Lookup(Lists[to.kind], to.slug)
<1> PICK x : x = CHOOSE y \in found : TRUE
  OBVIOUS
<1>1. CASE found = {}
  <2>1. to.slug = Unknown
    BY <1>1, RoutesAre
  <2>2. DetailPage(to) = NotFound
    BY <1>1 DEF DetailPage
  <2> QED BY <2>1, <2>2, ShownIs DEF Tells
<1>2. CASE found # {}
  <2>1. x.slug = to.slug
    BY <1>2 DEF Lookup
  <2>2. \E links : DetailPage(to) = Showing(x.slug, links)
    <3>1. to.kind \in {"challenges", "learning", "ctf"}
      BY ListKinds
    <3>2. CASE to.kind = "challenges"
      BY <1>2, <3>2 DEF DetailPage, ChallengePage
    <3>3. CASE to.kind = "learning"
      BY <1>2, <3>3 DEF DetailPage, LearningPage
    <3>4. CASE to.kind = "ctf"
      BY <1>2, <3>4 DEF DetailPage, MissionPage
    <3> QED BY <3>1, <3>2, <3>3, <3>4
  <2>3. PICK links : DetailPage(to) = Showing(x.slug, links)
    BY <2>2
  <2> QED BY <2>1, <2>3, FoundTells
<1> QED BY <1>1, <1>2

LEMMA BlankTells ==
  ASSUME NEW to \in Routes
  PROVE  Tells(Blanked(to), to)
<1> SUFFICES ASSUME to.slug # "" PROVE Tells(Blanked(to), to)
  BY DEF Tells
<1>1. CASE to.kind \in DOMAIN Lists
  <2>1. Blanked(to) = Loading
    BY <1>1, ListKinds DEF Blanked
  <2> QED BY <2>1, ShownIs DEF Tells
<1>2. CASE to.kind \notin DOMAIN Lists
  <2>1. to.kind = "tools" /\ (to.slug = Unknown \/ to.slug \in ToSet(SecurityTools))
    BY <1>2, RoutesAre
  <2>2. Blanked(to) = ToolPage(to.slug)
    BY <2>1 DEF Blanked
  <2>3. CASE to.slug \in ToSet(SecurityTools)
    <3>1. Blanked(to) = Showing(to.slug, ToolNav)
      BY <2>2, <2>3, PanelsAssumption DEF ToolPage
    <3> QED BY <3>1, FoundTells
  <2>4. CASE to.slug \notin ToSet(SecurityTools)
    <3>1. Blanked(to) = NotFound
      BY <2>2, <2>4 DEF ToolPage
    <3> QED BY <2>1, <2>4, <3>1, ShownIs DEF Tells
  <2> QED BY <2>3, <2>4
<1> QED BY <1>1, <1>2

LEMMA AskedAre ==
  ASSUME NEW to \in Routes
  PROVE  /\ \A l \in Asked(to) :
              /\ l = [to |-> to, part |-> l.part, active |-> TRUE] /\ l.part # "environment"
              /\ l.to = to /\ l.active = TRUE
              /\ to = To("dashboard", "") \/ (l.part = "page" /\ to.kind \in DOMAIN Lists)
         /\ to.kind \in DOMAIN Lists => \E l \in Asked(to) : l.active /\ l.part = "page"
<1>1. \A part : /\ Load(to, part) = [to |-> to, part |-> part, active |-> TRUE]
                /\ Load(to, part).part = part /\ Load(to, part).active = TRUE
                /\ Load(to, part).to = to
  BY DEF Load
<1>2. "environment" \notin DOMAIN Lists
  BY ListKinds
<1>3. CASE to.kind = "dashboard"
  <2>1. Asked(to) = {Load(to, kind) : kind \in DOMAIN Lists}
    BY <1>3 DEF Asked
  <2>2. to = To("dashboard", "")
    BY <1>3, RoutesAre
  <2>3. to.kind \notin DOMAIN Lists
    BY <1>3, ListKinds
  <2>4. ASSUME NEW l \in Asked(to)
        PROVE  /\ l = [to |-> to, part |-> l.part, active |-> TRUE] /\ l.part # "environment"
               /\ l.to = to /\ l.active = TRUE
    <3>1. PICK kind \in DOMAIN Lists : l = Load(to, kind)
      BY <2>1
    <3> QED BY <1>1, <1>2, <3>1
  <2> QED BY <2>2, <2>3, <2>4
<1>4. CASE to.kind \in {"tools", "about", "*"}
  BY <1>4, ListKinds DEF Asked
<1>5. CASE to.kind \in DOMAIN Lists
  <2>1. Asked(to) = {Load(to, "page")}
    BY <1>5, ListKinds DEF Asked
  <2> PICK k : k = Load(to, "page")
    OBVIOUS
  <2>2. /\ k = [to |-> to, part |-> "page", active |-> TRUE]
        /\ k.part = "page" /\ k.active = TRUE /\ k.to = to
    BY <1>1
  <2>3. Asked(to) = {k}
    BY <2>1
  <2> QED BY <1>5, <2>2, <2>3
<1>6. to.kind \in {"dashboard", "tools", "about", "*"} \cup DOMAIN Lists
  <2>1. ASSUME to \in PrimaryNav \cup {To("*", "")}
        PROVE  to.kind \in {"dashboard", "tools", "about", "*"} \cup DOMAIN Lists
    <3>1. PICK kind \in DOMAIN Lists \cup {"dashboard", "tools", "about", "*"} : to = To(kind, "")
      BY <2>1 DEF PrimaryNav
    <3> QED BY <3>1, ListKinds
  <2>2. ASSUME NEW kind \in DOMAIN Lists \cup {"tools"}, NEW slugs, to \in Details(kind, slugs)
        PROVE  to.kind = kind
    BY <2>2, ListKinds DEF Details
  <2> QED BY <2>1, <2>2, ListKinds DEF Routes
<1> QED BY <1>3, <1>4, <1>5, <1>6

LEMMA InitPages == PagesInit => PagesInv
<1> SUFFICES ASSUME PagesInit PROVE PagesInv
  OBVIOUS
<1>1. route = To("dashboard", "") /\ route \in Routes
  BY DEF PagesInit, Routes, PrimaryNav
<1>2. route.kind = "dashboard" /\ route.slug = ""
  BY <1>1, ListKinds
<1>3. loads = Asked(route) /\ applied.to = route /\ panel = "none"
  BY DEF PagesInit, Due
<1>4. ASSUME NEW l \in loads PROVE LoadInv(l)
  <2>1. /\ l = [to |-> route, part |-> l.part, active |-> TRUE] /\ l.part # "environment"
        /\ l.to = route /\ l.active = TRUE
        /\ route = To("dashboard", "") \/ (l.part = "page" /\ route.kind \in DOMAIN Lists)
    BY <1>1, <1>3, AskedAre
  <2> QED BY <1>1, <1>3, <2>1 DEF LoadInv
<1>5. PageHolds
  BY <1>2, ListKinds DEF PageHolds, Tells, OnList
<1> QED BY <1>1, <1>3, <1>4, <1>5 DEF PagesInv, PanelHolds

LEMMA NavigateKeeps ==
  ASSUME PagesInv, NEW to \in Routes, Navigate(to)
  PROVE  PagesInv'
<1>1. /\ route' = to /\ page' = Blanked(to) /\ panel' = "none"
      /\ loads' = loads /\ applied' = applied /\ applied.to = route /\ to # route
  BY DEF Navigate, Due
<1>2. \A l \in loads' : LoadInv(l)'
  BY <1>1 DEF PagesInv, LoadInv
<1>3. Tells(page', route')
  BY <1>1, BlankTells
<1>4. ASSUME OnList' PROVE page'.state = "loading"
  BY <1>1, <1>4, ListKinds, ShownIs DEF OnList, Blanked
<1>5. PageHolds'
  BY <1>3, <1>4 DEF PageHolds
<1> QED BY <1>1, <1>2, <1>5 DEF PagesInv, PanelHolds

(* The effects: what was asked for before them is given up, what they ask  *)
(* for is awaited.                                                         *)
LEMMA CleanedAre ==
  ASSUME NEW l, LoadInv(l)
  PROVE  /\ CleanedUp(l) = [to |-> l.to, part |-> l.part, active |-> l.active /\ ~Renewed(l.part)]
         /\ CleanedUp(l).to = l.to /\ CleanedUp(l).part = l.part
         /\ CleanedUp(l).active <=> (l.active /\ ~Renewed(l.part))
<1> PICK r : r = Renewed(l.part)
  OBVIOUS
<1>1. l = [to |-> l.to, part |-> l.part, active |-> l.active] /\ l.active \in BOOLEAN
  BY DEF LoadInv
<1>2. CleanedUp(l) = [l EXCEPT !.active = l.active /\ ~r]
  BY DEF CleanedUp
<1>3. CleanedUp(l) = [to |-> l.to, part |-> l.part, active |-> l.active /\ ~r]
  BY <1>1, <1>2
<1> PICK c : c = CleanedUp(l)
  OBVIOUS
<1>4. c.to = l.to /\ c.part = l.part /\ c.active = (l.active /\ ~r)
  BY <1>3
<1> QED BY <1>3, <1>4

LEMMA EffectsKeep ==
  ASSUME PagesInv, ApplyEffects
  PROVE  PagesInv'
<1> DEFINE next == Load(To("challenges", Due.panel), "environment")
<1>1. /\ UNCHANGED <<route, page, panel>> /\ applied' = Due /\ Due' = Due
      /\ applied'.to = route /\ applied'.panel = Due.panel
      /\ loads' = {CleanedUp(l) : l \in loads}
           \cup (IF Renewed("page") THEN Asked(route) ELSE {})
           \cup (IF Renewed("environment") /\ Due.panel # "none" THEN {next} ELSE {})
  BY DEF ApplyEffects, Due
<1>2. /\ next.part = "environment" /\ next.active = TRUE /\ next.to.slug = Due.panel
      /\ next = [to |-> next.to, part |-> next.part, active |-> next.active]
  BY ListKinds DEF Load
<1>3. \A part : part # "environment" => (Renewed(part) <=> applied.to # route)
  BY DEF Renewed, Due
<1>4. Renewed("environment") <=> applied.panel # Due.panel
  BY DEF Renewed
<1> HIDE DEF next
<1>5. ASSUME NEW k \in loads' PROVE LoadInv(k)'
  <2>1. CASE \E l \in loads : k = CleanedUp(l)
    <3>1. PICK l \in loads : k = CleanedUp(l)
      BY <2>1
    <3>2. LoadInv(l)
      BY DEF PagesInv
    <3>3. /\ k = [to |-> l.to, part |-> l.part, active |-> l.active /\ ~Renewed(l.part)]
          /\ k.to = l.to /\ k.part = l.part /\ (k.active <=> (l.active /\ ~Renewed(l.part)))
      BY <3>1, <3>2, CleanedAre
    <3>4. k = [to |-> k.to, part |-> k.part, active |-> k.active] /\ k.active \in BOOLEAN
      BY <3>3
    <3>5. CASE l.part = "environment"
      BY <1>1, <1>4, <3>2, <3>3, <3>4, <3>5 DEF LoadInv
    <3>6. CASE l.part # "environment"
      BY <1>1, <1>3, <3>2, <3>3, <3>4, <3>6 DEF LoadInv
    <3> QED BY <3>5, <3>6
  <2>2. CASE k \in Asked(route)
    <3>1. /\ k = [to |-> route, part |-> k.part, active |-> TRUE] /\ k.part # "environment"
          /\ k.to = route /\ k.active = TRUE
          /\ route = To("dashboard", "") \/ (k.part = "page" /\ route.kind \in DOMAIN Lists)
      BY <2>2, AskedAre DEF PagesInv
    <3> QED BY <1>1, <3>1 DEF PagesInv, LoadInv
  <2>3. CASE k = next
    BY <1>1, <1>2, <2>3 DEF LoadInv
  <2> QED BY <1>1, <2>1, <2>2, <2>3
<1>6. ASSUME NEW part, ~Renewed(part), NEW l \in loads, l.active, l.part = part
      PROVE  \E k \in loads' : k.active /\ k.part = part
  <2>1. CleanedUp(l).active /\ CleanedUp(l).part = part
    BY <1>6, CleanedAre DEF PagesInv
  <2>2. CleanedUp(l) \in loads'
    BY <1>1
  <2> QED BY <2>1, <2>2
<1>7. PageHolds'
  <2>1. OnList' => OnList
    BY <1>1 DEF OnList
  <2>2. CASE Tells(page, route)
    BY <1>1, <2>1, <2>2 DEF PagesInv, PageHolds
  <2>3. CASE ~Tells(page, route)
    <3>1. route.kind # "tools" /\ Awaited("page") /\ route.slug # ""
      BY <2>3 DEF PagesInv, PageHolds, Tells
    <3>2. \E k \in loads' : k.active /\ k.part = "page"
      <4>1. CASE Renewed("page")
        <5>1. route.kind \in DOMAIN Lists
          BY <3>1, RoutesAre DEF PagesInv
        <5>2. Asked(route) \subseteq loads'
          BY <1>1, <4>1
        <5> QED BY <5>1, <5>2, AskedAre DEF PagesInv
      <4>2. CASE ~Renewed("page")
        BY <1>6, <3>1, <4>2 DEF Awaited
      <4> QED BY <4>1, <4>2
    <3>3. Awaited("page")'
      BY <3>2 DEF Awaited
    <3> QED BY <1>1, <2>1, <3>1, <3>3 DEF PagesInv, PageHolds
  <2> QED BY <2>2, <2>3
<1>8. PanelHolds'
  <2>1. Due.panel = "none" => panel = "none"
    BY DEF PagesInv, PanelHolds
  <2>2. CASE Renewed("environment")
    <3>1. Due.panel # "none" => next \in loads'
      BY <1>1, <2>2
    <3> QED BY <1>1, <1>2, <2>1, <3>1 DEF PanelHolds
  <2>3. CASE ~Renewed("environment")
    BY <1>1, <1>4, <1>6, <2>1, <2>3 DEF PagesInv, PanelHolds
  <2> QED BY <2>2, <2>3
<1> QED BY <1>1, <1>5, <1>7, <1>8 DEF PagesInv

LEMMA AnsweredKeeps ==
  ASSUME PagesInv, NEW l \in loads, Answered(l)
  PROVE  PagesInv'
<1>1. /\ LoadInv(l) /\ route \in Routes /\ PageHolds /\ PanelHolds
  BY DEF PagesInv
<1>2. /\ route' = route /\ applied' = applied /\ loads' = loads \ {l}
      /\ (Mounted(route, page') = "none" => panel' = "none" \/ (l.active /\ Alive(l) /\ l.part = "environment"))
  BY DEF Answered
<1>3. \A k \in loads' : LoadInv(k)'
  BY <1>2 DEF PagesInv, LoadInv
<1>4. Due' = [to |-> route, panel |-> Mounted(route, page')] /\ Due'.panel = Mounted(route, page')
      /\ Due.panel = Mounted(route, page)
  BY <1>2 DEF Due
<1>5. Renewed("page")' <=> Renewed("page")
  BY <1>2 DEF Renewed
<1>6. CASE ~(l.active /\ Alive(l)) \/ l.part = "environment"
  <2>1. page' = page /\ Due'.panel = Due.panel
    BY <1>4, <1>6 DEF Answered
  <2>2. PageHolds'
    <3>1. Awaited("page") => Awaited("page")'
      <4>1. CASE l.active /\ l.part = "page"
        <5>1. ~Alive(l) /\ l.to = applied.to
          BY <1>1, <1>6, <4>1 DEF LoadInv
        <5>2. applied.to # route
          BY <4>1, <5>1 DEF Alive
        <5> QED BY <1>2, <5>2 DEF Awaited, Renewed
      <4>2. CASE ~(l.active /\ l.part = "page")
        BY <1>2, <1>5, <4>2 DEF Awaited
      <4> QED BY <4>1, <4>2
    <3> QED BY <1>1, <1>2, <2>1, <3>1 DEF PageHolds, OnList
  <2>3. PanelHolds'
    <3>1. CASE l.part = "environment" /\ l.active /\ Alive(l)
      <4>1. panel' = l.to.slug /\ l.to.slug = applied.panel /\ Due.panel # "none"
        BY <1>1, <3>1 DEF Answered, LoadInv, Alive
      <4> QED BY <1>2, <2>1, <4>1 DEF PanelHolds
    <3>2. CASE l.part = "environment" /\ l.active /\ ~Alive(l)
      <4>1. Due.panel = "none"
        BY <3>2 DEF Alive
      <4>2. panel' = "none"
        BY <1>2, <1>4, <2>1, <3>2, <4>1
      <4> QED BY <4>2 DEF PanelHolds
    <3>3. CASE ~(l.part = "environment" /\ l.active)
      <4>1. panel' \in {"none", panel} /\ (Due.panel = "none" => panel' = "none")
        BY <1>4, <2>1, <3>3 DEF Answered
      <4> QED BY <1>1, <1>2, <2>1, <3>3, <4>1 DEF PanelHolds
    <3> QED BY <3>1, <3>2, <3>3
  <2> QED BY <1>1, <1>2, <1>3, <2>2, <2>3 DEF PagesInv
<1>7. CASE l.active /\ Alive(l) /\ l.part # "environment"
  <2>1. /\ l.to \in Routes /\ l.to = applied.to /\ l.to.kind = route.kind
        /\ l.to.slug = "" <=> route.slug = ""
        /\ l.to = To("dashboard", "") \/ (l.part = "page" /\ l.to.kind \in DOMAIN Lists)
    BY <1>1, <1>7 DEF LoadInv, Alive
  <2>2. PageHolds'
    <3>1. CASE l.to = To("dashboard", "")
      <4> PICK to : to = To("dashboard", "")
        OBVIOUS
      <4>3. to.kind = "dashboard" /\ to.slug = ""
        BY ListKinds
      <4>1. l.to.kind = "dashboard" /\ l.to.slug = ""
        BY <3>1, <4>3
      <4>2. route.slug = "" /\ route.kind = "dashboard"
        BY <2>1, <4>1
      <4> QED BY <1>2, <4>2, ListKinds DEF PageHolds, Tells, OnList
    <3>2. CASE l.to # To("dashboard", "") /\ route.slug = ""
      <4>1. route.kind \in DOMAIN Lists /\ l.to.kind # "dashboard"
        BY <2>1, <3>2, ListKinds
      <4>2. page' = [state |-> "listed", all |-> Lists[route.kind]]
        BY <1>7, <2>1, <3>2, <4>1 DEF Answered
      <4> QED BY <1>2, <3>2, <4>2 DEF PageHolds, Tells, OnList
    <3>3. CASE l.to # To("dashboard", "") /\ route.slug # ""
      <4>1. route.kind \in DOMAIN Lists /\ route.kind # "tools" /\ l.to.kind # "dashboard"
        BY <2>1, <3>3, ListKinds
      <4>2. page' = DetailPage(l.to)
        BY <1>7, <2>1, <3>3, <4>1 DEF Answered
      <4>3. CASE l.to = route
        <5>1. Tells(page', route)
          BY <1>1, <3>3, <4>1, <4>2, <4>3, DetailTells
        <5> QED BY <1>2, <3>3, <5>1 DEF PageHolds, OnList
      <4>4. CASE l.to # route
        <5>1. Awaited("page")'
          BY <1>2, <2>1, <4>4 DEF Awaited, Renewed
        <5> QED BY <1>2, <3>3, <4>1, <5>1 DEF PageHolds, OnList
      <4> QED BY <4>3, <4>4
    <3> QED BY <3>1, <3>2, <3>3
  <2>3. PanelHolds'
    <3>1. panel' = IF Mounted(route, page') = "none" THEN "none" ELSE panel
      BY <1>7 DEF Answered
    <3>2. \A k \in loads : k.part = "environment" => k \in loads'
      BY <1>2, <1>7
    <3> QED BY <1>1, <1>2, <1>4, <3>1, <3>2 DEF PanelHolds
  <2> QED BY <1>1, <1>2, <1>3, <2>2, <2>3 DEF PagesInv
<1> QED BY <1>6, <1>7

LEMMA PagesInductive == PagesInv /\ [PagesNext]_pageVars => PagesInv'
<1> SUFFICES ASSUME PagesInv, [PagesNext]_pageVars PROVE PagesInv'
  OBVIOUS
<1>1. CASE SetFilter \/ ResetFilters \/ UNCHANGED pageVars
  <2>1. UNCHANGED <<route, page, panel, applied, loads>>
    BY <1>1 DEF SetFilter, ResetFilters, pageVars
  <2> QED BY <2>1 DEF PagesInv, LoadInv, PageHolds, PanelHolds, Awaited, Renewed, Due, OnList
<1> QED BY <1>1, NavigateKeeps, EffectsKeep, AnsweredKeeps DEF PagesNext

(* What holds of the panel: it is that of the page, or something is still  *)
(* to come.                                                                *)
LEMMA RouteIsShown ==
  ASSUME PagesInv
  PROVE  ShowsTheRoute
<1>1. route \in Routes /\ PageHolds /\ PanelHolds
  BY DEF PagesInv
<1>2. ASSUME route.slug # "", Tells(page, route)
      PROVE  panel \in {"none", route.slug} \/ Awaited("environment")
  <2>1. CASE Due.panel = "none"
    BY <1>1, <2>1 DEF PanelHolds
  <2>2. CASE Due.panel # "none"
    <3>1. Due.panel = page.slug /\ page.state = "found"
      BY <2>2 DEF Due, Mounted
    <3>2. Due.panel = route.slug
      BY <1>2, <3>1 DEF Tells
    <3> QED BY <1>1, <3>2 DEF PanelHolds, Awaited, Renewed
  <2> QED BY <2>1, <2>2
<1> QED BY <1>1, <1>2 DEF PageHolds, Tells, ShowsTheRoute

(* ShowsTheRoute: an answer that comes after the effects of its page were  *)
(* cleaned up (in the effects of routes/*.tsx) changes nothing, and one    *)
(* that comes before that is made good by the answer for the new location, *)
(* so that a page that awaits nothing shows what its location names, for   *)
(* any content and any answers awaited.                                    *)
THEOREM PagesShowTheRoute == PagesSpec => []ShowsTheRoute
BY InitPages, PagesInductive, RouteIsShown, PTL DEF PagesSpec

-----------------------------------------------------------------------------
(* Filtered and sorted sequences: the places of the elements in the order  *)
(* they come in.                                                           *)
(* A total order of finitely many places: first to last, none twice.       *)
Orders(order, I) ==
  /\ \A i \in I : <<i, i>> \in order
  /\ \A i, j \in I : <<i, j>> \in order \/ <<j, i>> \in order
  /\ \A i, j \in I : <<i, j>> \in order /\ <<j, i>> \in order => i = j
  /\ \A i, j, k \in I : <<i, j>> \in order /\ <<j, k>> \in order => <<i, k>> \in order

LEMMA RankProperties ==
  ASSUME NEW I, IsFiniteSet(I), NEW order, Orders(order, I)
  PROVE  /\ \A i \in I : Rank(i, I, order) \in 1 .. Cardinality(I)
         /\ \A i, j \in I : <<i, j>> \in order /\ i # j => Rank(i, I, order) < Rank(j, I, order)
         /\ \A k \in 1 .. Cardinality(I) : \E i \in I : Rank(i, I, order) = k
<1> DEFINE Up(i) == {j \in I : <<j, i>> \in order}
<1>1. \A i \in I : /\ IsFiniteSet(Up(i)) /\ Up(i) \subseteq I /\ i \in Up(i)
                   /\ Cardinality(Up(i)) \in Nat /\ Cardinality(Up(i)) <= Cardinality(I)
  BY FS_Subset, FS_CardinalityType DEF Orders
<1>2. \A i \in I : Cardinality(Up(i)) # 0
  BY <1>1, FS_EmptySet
<1>3. ASSUME NEW i \in I, NEW j \in I, <<i, j>> \in order, i # j
      PROVE  Cardinality(Up(i)) < Cardinality(Up(j))
  <2>1. Up(i) \subseteq Up(j) /\ j \notin Up(i) /\ j \in Up(j)
    BY <1>3 DEF Orders
  <2> HIDE DEF Up
  <2>2. Up(i) \in SUBSET Up(j) /\ Up(i) # Up(j)
    BY <2>1
  <2> QED BY <1>1, <2>2, FS_Subset
<1>4. Cardinality(I) \in Nat
  BY FS_CardinalityType
<1>5. \A i \in I : Rank(i, I, order) \in 1 .. Cardinality(I)
  <2> HIDE DEF Up
  <2>1. \A i \in I : Rank(i, I, order) = Cardinality(Up(i))
    BY DEF Rank, Up
  <2> QED BY <1>1, <1>2, <1>4, <2>1
<1>6. \A i, j \in I : <<i, j>> \in order /\ i # j => Rank(i, I, order) < Rank(j, I, order)
  BY <1>3 DEF Rank
<1>7. \A k \in 1 .. Cardinality(I) : \E i \in I : Rank(i, I, order) = k
  <2> DEFINE f == [i \in I |-> Rank(i, I, order)]
             T == 1 .. Cardinality(I)
  <2>1. f \in Injection(I, T)
    <3>1. f \in [I -> T]
      BY <1>5
    <3>2. \A i, j \in I : f[i] = f[j] => i = j
      <4> SUFFICES ASSUME NEW i \in I, NEW j \in I, f[i] = f[j], i # j PROVE FALSE
        OBVIOUS
      <4>1. Rank(i, I, order) = Rank(j, I, order)
        OBVIOUS
      <4>2. Rank(i, I, order) \in Int /\ Rank(j, I, order) \in Int
        BY <1>4, <1>5
      <4>3. <<i, j>> \in order \/ <<j, i>> \in order
        BY DEF Orders
      <4> HIDE DEF f
      <4> QED BY <1>6, <4>1, <4>2, <4>3
    <3> HIDE DEF f, T
    <3> QED BY <3>1, <3>2 DEF Injection, IsInjective
  <2>2. IsFiniteSet(T) /\ Cardinality(T) = Cardinality(I)
    BY <1>4, FS_Interval
  <2>3. f \in Surjection(I, T)
    <3> HIDE DEF f, T
    <3> QED BY <2>1, <2>2, FS_Injection
  <2> QED BY <2>3 DEF Surjection
<1> QED BY <1>5, <1>6, <1>7

(* The places in their order, one position each.                           *)
LEMMA ArrangedIs ==
  ASSUME NEW I, IsFiniteSet(I), NEW order, Orders(order, I), NEW s
  PROVE  \E place \in [1 .. Cardinality(I) -> I] :
           /\ Arranged(s, I, order) = [k \in 1 .. Cardinality(I) |-> s[place[k]]]
           /\ \A i \in I : \E k \in 1 .. Cardinality(I) : place[k] = i
           /\ \A k, l \in 1 .. Cardinality(I) :
                k < l => place[k] # place[l] /\ <<place[k], place[l]>> \in order
<1> DEFINE K == 1 .. Cardinality(I)
           place == [k \in K |-> CHOOSE i \in I : Rank(i, I, order) = k]
<1>1. \A k \in K : \E i \in I : Rank(i, I, order) = k
  BY RankProperties
<1>2. \A k \in K : place[k] \in I /\ Rank(place[k], I, order) = k
  BY <1>1
<1>3. place \in [K -> I]
  BY <1>2
<1>4. Arranged(s, I, order) = [k \in K |-> s[place[k]]]
  BY DEF Arranged
<1>5. K \subseteq Int
  BY FS_CardinalityType
<1> HIDE DEF place, K
<1>6. \A i \in I : Rank(i, I, order) \in K
  BY RankProperties DEF K
<1>7. \A i, j \in I : Rank(i, I, order) = Rank(j, I, order) => i = j
  <2> SUFFICES ASSUME NEW i \in I, NEW j \in I, Rank(i, I, order) = Rank(j, I, order), i # j
               PROVE  FALSE
    OBVIOUS
  <2>1. <<i, j>> \in order \/ <<j, i>> \in order
    BY DEF Orders
  <2>2. Rank(i, I, order) \in Int
    BY <1>5, <1>6
  <2>3. Rank(i, I, order) < Rank(j, I, order) \/ Rank(j, I, order) < Rank(i, I, order)
    BY <2>1, RankProperties
  <2> QED BY <2>2, <2>3
<1>8. \A i \in I : \E k \in K : place[k] = i
  BY <1>2, <1>6, <1>7
<1>9. ASSUME NEW k \in K, NEW l \in K, k < l
      PROVE  place[k] # place[l] /\ <<place[k], place[l]>> \in order
  <2>1. place[k] \in I /\ place[l] \in I /\ place[k] # place[l]
    BY <1>2, <1>5, <1>9
  <2>2. <<place[l], place[k]>> \notin order
    <3>1. SUFFICES ASSUME <<place[l], place[k]>> \in order PROVE FALSE
      OBVIOUS
    <3>2. Rank(place[l], I, order) < Rank(place[k], I, order)
      BY <2>1, <3>1, RankProperties
    <3>3. l < k
      BY <1>2, <3>2
    <3> QED BY <1>5, <1>9, <3>3
  <2> QED BY <2>1, <2>2 DEF Orders
<1> QED BY <1>3, <1>4, <1>8, <1>9 DEF K

LEMMA AtIs ==
  ASSUME NEW s, NEW I \in SUBSET (1 .. Len(s)), Len(s) \in Nat
  PROVE  \E place \in [1 .. Cardinality(I) -> I] :
           /\ At(s, I) = [k \in 1 .. Cardinality(I) |-> s[place[k]]]
           /\ \A i \in I : \E k \in 1 .. Cardinality(I) : place[k] = i
           /\ \A k, l \in 1 .. Cardinality(I) : k < l => place[k] < place[l]
<1>1. IsFiniteSet(I)
  <2>1. IsFiniteSet(1 .. Len(s))
    BY FS_Interval
  <2> QED BY <2>1, FS_Subset
<1>2. Orders(Ascending(I), I)
  BY DEF Orders, Ascending
<1>3. PICK place \in [1 .. Cardinality(I) -> I] :
        /\ At(s, I) = [k \in 1 .. Cardinality(I) |-> s[place[k]]]
        /\ \A i \in I : \E k \in 1 .. Cardinality(I) : place[k] = i
        /\ \A k, l \in 1 .. Cardinality(I) :
             k < l => place[k] # place[l] /\ <<place[k], place[l]>> \in Ascending(I)
  BY <1>1, <1>2, ArrangedIs DEF At
<1>4. \A k, l \in 1 .. Cardinality(I) : k < l => place[k] < place[l]
  <2> SUFFICES ASSUME NEW k \in 1 .. Cardinality(I), NEW l \in 1 .. Cardinality(I), k < l
               PROVE  place[k] < place[l]
    OBVIOUS
  <2>1. place[k] \in Int /\ place[l] \in Int
    <3>1. \A i \in I : i \in Int
      OBVIOUS
    <3>2. place[k] \in I /\ place[l] \in I
      OBVIOUS
    <3> QED BY <3>1, <3>2
  <2>2. place[k] <= place[l] /\ place[k] # place[l]
    BY <1>3 DEF Ascending
  <2> QED BY <2>1, <2>2
<1> QED BY <1>3, <1>4

-----------------------------------------------------------------------------
(* The two implementations of the repositories.                            *)
(* Lookups by a unique key: at most one place.                             *)
LEMMA MinOfOne ==
  ASSUME NEW I, NEW i, I = {i}, i \in Int
  PROVE  Min(I) = i
BY DEF Min

(* A sequence without repetition is as long as the set of its elements.    *)
LEMMA UpTo == \A n \in Nat : IsFiniteSet(1 .. n) /\ Cardinality(1 .. n) = n
<1> TAKE n \in Nat
<1> QED BY FS_Interval

LEMMA RangeOfDistinct ==
  ASSUME NEW n \in Nat, NEW s, s = [k \in 1 .. n |-> s[k]],
         \A i, j \in 1 .. n : s[i] = s[j] => i = j
  PROVE  IsFiniteSet(Range(s)) /\ Cardinality(Range(s)) = n
<1>1. s \in Surjection(1 .. n, Range(s)) /\ s \in Injection(1 .. n, Range(s))
  <2>1. s \in [1 .. n -> Range(s)]
    BY DEF Range
  <2>2. \A x \in Range(s) : \E i \in 1 .. n : s[i] = x
    BY DEF Range
  <2> QED BY <2>1, <2>2 DEF Surjection, Injection, IsInjective
<1>2. IsFiniteSet(1 .. n) /\ Cardinality(1 .. n) = n
  BY UpTo
<1> QED BY <1>1, <1>2, FS_Surjection

-----------------------------------------------------------------------------
(* What the fields hold, and when two rows are the same one.               *)
RowsOf(f) ==
  CASE f \in {"users", "byEmail"} -> Users
    [] f = "sessions" -> [id : Ids, user : Users, expires : Times, seen : Times \cup {0},
                          revoked : Times \cup {0}]
    [] f = "progress" -> [kind : Kinds, user : Users, slug : Paths, status : Statuses,
                          completedAt : Times \cup {0}]
    [] f = "entries" -> [user : Users, slug : Slugs \cup Paths, status : Statuses,
                         attempts : Nat, points : {0, Worth}, solvedAt : Times \cup {0},
                         completedAt : Times \cup {0}]
    [] f = "events" -> Users \X Slugs
    [] f = "environments" -> [id : Ids, user : Users, status : {"live", "ended"}, expires : Times]

SameRow(f, x, y) ==
  CASE f \in {"users", "byEmail", "events"} -> x = y
    [] f \in {"sessions", "environments"} -> x.id = y.id
    [] f = "progress" -> x.kind = y.kind /\ x.user = y.user /\ x.slug = y.slug
    [] f = "entries" -> x.user = y.user /\ x.slug = y.slug

(* The map s and the table T of a field hold the same rows, each once.     *)
Mirrors(f, s, T) ==
  /\ s \in Seq(RowsOf(f)) /\ Range(s) = T
  /\ \A i, j \in 1 .. Len(s) : SameRow(f, s[i], s[j]) => i = j

LEMMA SameRowIsReflexive ==
  \A f \in Fields : \A x : SameRow(f, x, x)
BY DEF SameRow, Fields

LEMMA MirrorsIs ==
  ASSUME NEW f \in Fields, NEW s, NEW T, Mirrors(f, s, T)
  PROVE  /\ Len(s) \in Nat /\ s = [i \in 1 .. Len(s) |-> s[i]]
         /\ \A i \in 1 .. Len(s) : s[i] \in T
         /\ \A x \in T : x \in RowsOf(f) /\ \E i \in 1 .. Len(s) : s[i] = x
         /\ \A x, y \in T : SameRow(f, x, y) => x = y
         /\ IsFiniteSet(T) /\ Cardinality(T) = Len(s)
<1>1. Len(s) \in Nat /\ DOMAIN s = 1 .. Len(s) /\ s = [i \in 1 .. Len(s) |-> s[i]]
  BY DEF Mirrors
<1>2. \A i \in 1 .. Len(s) : s[i] \in T /\ s[i] \in RowsOf(f)
  BY <1>1 DEF Mirrors, Range
<1>3. \A x \in T : \E i \in 1 .. Len(s) : s[i] = x
  BY <1>1 DEF Mirrors, Range
<1>4. \A i, j \in 1 .. Len(s) : s[i] = s[j] => i = j
  BY SameRowIsReflexive DEF Mirrors
<1>5. IsFiniteSet(T) /\ Cardinality(T) = Len(s)
  <2>1. Range(s) = T
    BY DEF Mirrors
  <2> QED BY <1>1, <1>4, <2>1, RangeOfDistinct
<1>6. \A x, y \in T : SameRow(f, x, y) => x = y
  BY <1>3 DEF Mirrors
<1> QED BY <1>1, <1>2, <1>3, <1>5, <1>6

LEMMA MirrorsAppend ==
  ASSUME NEW f \in Fields, NEW s, NEW T, Mirrors(f, s, T), NEW new \in RowsOf(f),
         \A x \in T : ~SameRow(f, x, new) /\ ~SameRow(f, new, x)
  PROVE  Mirrors(f, Append(s, new), T \cup {new})
<1> DEFINE r == Append(s, new)
<1>1. s \in Seq(RowsOf(f)) /\ Len(s) \in Nat
  BY DEF Mirrors
<1>2. /\ r \in Seq(RowsOf(f)) /\ Len(r) = Len(s) + 1 /\ DOMAIN r = 1 .. (Len(s) + 1)
      /\ r[Len(s) + 1] = new /\ \A i \in 1 .. Len(s) : r[i] = s[i]
  BY <1>1
<1> HIDE DEF r
<1>3. /\ \A i \in 1 .. Len(s) : s[i] \in T
      /\ \A x \in T : \E i \in 1 .. Len(s) : s[i] = x
  BY MirrorsIs
<1>4. Range(r) = T \cup {new}
  <2>1. \A i \in DOMAIN r : r[i] \in T \cup {new}
    BY <1>1, <1>2, <1>3
  <2>2. \A x \in T \cup {new} : \E i \in DOMAIN r : r[i] = x
    BY <1>1, <1>2, <1>3
  <2> QED BY <2>1, <2>2 DEF Range
<1>5. ASSUME NEW i \in 1 .. Len(r), NEW j \in 1 .. Len(r), SameRow(f, r[i], r[j])
      PROVE  i = j
  <2>1. CASE i \in 1 .. Len(s) /\ j \in 1 .. Len(s)
    BY <1>2, <1>5, <2>1 DEF Mirrors
  <2>2. CASE i \in 1 .. Len(s) /\ j \notin 1 .. Len(s)
    BY <1>1, <1>2, <1>3, <1>5, <2>2
  <2>3. CASE i \notin 1 .. Len(s) /\ j \in 1 .. Len(s)
    BY <1>1, <1>2, <1>3, <1>5, <2>3
  <2>4. CASE i \notin 1 .. Len(s) /\ j \notin 1 .. Len(s)
    BY <1>1, <1>2, <2>4
  <2> QED BY <2>1, <2>2, <2>3, <2>4
<1> QED BY <1>2, <1>4, <1>5 DEF Mirrors, r

Mapped(s, g) == [i \in 1 .. Len(s) |-> g[s[i]]]

ImageOf(T, g) == {g[x] : x \in T}

(* A change of each row by itself, that leaves different rows different.   *)
LEMMA MirrorsMap ==
  ASSUME NEW f \in Fields, NEW s, NEW T, Mirrors(f, s, T), NEW g,
         \A x \in T : g[x] \in RowsOf(f),
         \A x, y \in T : SameRow(f, g[x], g[y]) => SameRow(f, x, y)
  PROVE  Mirrors(f, Mapped(s, g), ImageOf(T, g))
<1> DEFINE r == [i \in 1 .. Len(s) |-> g[s[i]]]
<1>1. /\ Len(s) \in Nat /\ \A i \in 1 .. Len(s) : s[i] \in T
      /\ \A x \in T : \E i \in 1 .. Len(s) : s[i] = x
  BY MirrorsIs
<1>2. r \in Seq(RowsOf(f)) /\ Len(r) = Len(s) /\ DOMAIN r = 1 .. Len(s)
  BY <1>1
<1>3. \A i \in 1 .. Len(s) : r[i] = g[s[i]]
  OBVIOUS
<1> HIDE DEF r
<1>4. Range(r) = {g[x] : x \in T}
  BY <1>1, <1>2, <1>3 DEF Range
<1>5. ASSUME NEW i \in 1 .. Len(s), NEW j \in 1 .. Len(s), SameRow(f, r[i], r[j])
      PROVE  i = j
  <2>1. SameRow(f, s[i], s[j])
    BY <1>1, <1>3, <1>5
  <2> QED BY <2>1 DEF Mirrors
<1> QED BY <1>2, <1>4, <1>5 DEF Mirrors, Mapped, ImageOf, r

LEMMA MirrorsAt ==
  ASSUME NEW f \in Fields, NEW s, NEW T, Mirrors(f, s, T), NEW I \in SUBSET (1 .. Len(s))
  PROVE  Mirrors(f, At(s, I), {s[i] : i \in I})
<1>1. Len(s) \in Nat /\ s \in Seq(RowsOf(f))
  BY DEF Mirrors
<1>2. IsFiniteSet(I) /\ Cardinality(I) \in Nat
  BY <1>1, UpTo, FS_Subset, FS_CardinalityType
<1>3. PICK place \in [1 .. Cardinality(I) -> I] :
        /\ At(s, I) = [k \in 1 .. Cardinality(I) |-> s[place[k]]]
        /\ \A i \in I : \E k \in 1 .. Cardinality(I) : place[k] = i
        /\ \A k, l \in 1 .. Cardinality(I) : k < l => place[k] < place[l]
  BY <1>1, AtIs
<1> DEFINE r == At(s, I)
           K == 1 .. Cardinality(I)
<1> HIDE DEF r
<1>4. \A i \in I : s[i] \in RowsOf(f)
  BY <1>1
<1>5. r \in Seq(RowsOf(f)) /\ Len(r) = Cardinality(I) /\ DOMAIN r = K
      /\ \A k \in K : r[k] = s[place[k]] /\ place[k] \in I
  <2>1. \A k \in K : place[k] \in I /\ s[place[k]] \in RowsOf(f)
    BY <1>3, <1>4
  <2>2. r = [k \in K |-> s[place[k]]]
    BY <1>3 DEF r
  <2>3. DOMAIN r = K /\ \A k \in K : r[k] = s[place[k]]
    BY <2>2, Zenon
  <2>4. r \in Seq(RowsOf(f)) /\ Len(r) = Cardinality(I)
    <3>1. \A k \in 1 .. Cardinality(I) : s[place[k]] \in RowsOf(f)
      BY <2>1
    <3> HIDE DEF K
    <3>2. r = [k \in 1 .. Cardinality(I) |-> s[place[k]]]
      BY <2>2 DEF K
    <3> QED BY <1>2, <3>1, <3>2
  <2> QED BY <2>1, <2>3, <2>4
<1>6. Range(r) = {s[i] : i \in I}
  <2>1. \A k \in DOMAIN r : r[k] \in {s[i] : i \in I}
    BY <1>5
  <2>2. \A i \in I : \E k \in DOMAIN r : r[k] = s[i]
    BY <1>3, <1>5
  <2> QED BY <2>1, <2>2 DEF Range
<1>7. ASSUME NEW k \in K, NEW l \in K, SameRow(f, r[k], r[l])
      PROVE  k = l
  <2>1. place[k] = place[l]
    <3>1. place[k] \in 1 .. Len(s) /\ place[l] \in 1 .. Len(s)
      BY <1>5
    <3>2. SameRow(f, s[place[k]], s[place[l]])
      BY <1>5, <1>7
    <3> QED BY <3>1, <3>2 DEF Mirrors
  <2>2. k \in Int /\ l \in Int /\ place[k] \in Int
    <3>1. \A i \in I : i \in Int
      OBVIOUS
    <3>2. place[k] \in I
      BY <1>5
    <3>3. k \in Int /\ l \in Int
      BY <1>2
    <3> QED BY <3>1, <3>2, <3>3
  <2>3. ~(k < l) /\ ~(l < k)
    BY <1>3, <2>1, <2>2
  <2> QED BY <2>2, <2>3
<1> QED BY <1>5, <1>6, <1>7 DEF Mirrors, r

(* There is one way to put rows with different ids in a falling order.     *)
LEMMA NewestFirstIs ==
  ASSUME NEW n \in Nat, NEW q, q = [i \in 1 .. n |-> q[i]],
         \A i \in 1 .. n : q[i].id \in Int,
         \A i, j \in 1 .. n : i < j => q[i].id < q[j].id
  PROVE  q = Reverse(NewestFirst(Range(q)))
<1> DEFINE K == 1 .. n
           rows == Range(q)
           Falls(s) == \A i, j \in 1 .. Cardinality(rows) : i < j => s[i].id > s[j].id
           t == NewestFirst(rows)
           r == [i \in K |-> q[n - i + 1]]
<1>1. \A i, j \in K : q[i].id = q[j].id => i = j
  <2> SUFFICES ASSUME NEW i \in K, NEW j \in K, q[i].id = q[j].id, i # j PROVE FALSE
    OBVIOUS
  <2>1. i < j \/ j < i
    OBVIOUS
  <2>2. q[i].id \in Int
    OBVIOUS
  <2> QED BY <2>1, <2>2
<1>2. IsFiniteSet(rows) /\ Cardinality(rows) = n
  BY <1>1, RangeOfDistinct
<1>3. \A i \in K : q[i] \in rows
  BY DEF Range
<1>4. \A x \in rows : \E i \in K : q[i] = x
  BY DEF Range
<1>5. r \in [K -> rows] /\ \A i, j \in K : i < j => r[i].id > r[j].id
  <2>1. \A i \in K : n - i + 1 \in K
    OBVIOUS
  <2>2. ASSUME NEW i \in K, NEW j \in K, i < j PROVE r[i].id > r[j].id
    <3>1. n - i + 1 \in K /\ n - j + 1 \in K /\ n - j + 1 < n - i + 1
      BY <2>2
    <3>2. q[n - j + 1].id < q[n - i + 1].id /\ q[n - j + 1].id \in Int /\ q[n - i + 1].id \in Int
      BY <3>1
    <3> QED BY <3>2
  <2> QED BY <1>3, <2>1, <2>2
<1>6. t \in [K -> rows] /\ \A i, j \in K : i < j => t[i].id > t[j].id
  <2>1. t = CHOOSE s \in [K -> rows] : \A i, j \in K : i < j => s[i].id > s[j].id
    BY <1>2 DEF NewestFirst
  <2> HIDE DEF t, r, rows
  <2> QED BY <1>5, <2>1
<1>7. \A x \in rows : x.id \in Int
  BY <1>4
<1> HIDE DEF t, r, rows
<1>8. \A x \in rows : \E i \in K : t[i] = x
  <2>1. t \in Injection(K, rows)
    <3> SUFFICES ASSUME NEW i \in K, NEW j \in K, t[i] = t[j], i # j PROVE FALSE
      BY <1>6 DEF Injection, IsInjective
    <3>1. t[i].id > t[j].id \/ t[j].id > t[i].id
      BY <1>6
    <3>2. t[i].id \in Int
      BY <1>6, <1>7
    <3> QED BY <3>1, <3>2
  <2>2. Cardinality(K) = n
    BY UpTo
  <2>3. t \in Surjection(K, rows)
    BY <1>2, <2>1, <2>2, FS_Injection
  <2> QED BY <2>3 DEF Surjection
<1>9. \A x \in rows : \E i \in K : r[i] = x
  <2> SUFFICES ASSUME NEW i \in K PROVE \E j \in K : r[j] = q[i]
    BY <1>4
  <2>1. n - i + 1 \in K /\ n - (n - i + 1) + 1 = i
    OBVIOUS
  <2> QED BY <2>1 DEF r
<1>10. \A k \in K : r[k] = t[k]
  <2> SUFFICES ASSUME \E k \in K : r[k] # t[k] PROVE FALSE
    OBVIOUS
  <2>1. PICK k \in K : r[k] # t[k] /\ \A i \in K : i < k => r[i] = t[i]
    <3> DEFINE B == {k \in K : r[k] # t[k]}
    <3>1. B \in SUBSET Nat /\ B # {}
      OBVIOUS
    <3>2. IsWellFoundedOn(OpToRel(<, Nat), Nat)
      BY NatLessThanWellFounded
    <3>3. PICK k \in B : \A i \in B : ~(<<i, k>> \in OpToRel(<, Nat))
      BY <3>1, <3>2, WFMin
    <3> QED BY <3>1, <3>3 DEF OpToRel
  <2>2. ASSUME NEW a, NEW b, a \in [K -> rows], b \in [K -> rows],
               \A i, j \in K : i < j => a[i].id > a[j].id,
               \A i, j \in K : i < j => b[i].id > b[j].id,
               \A x \in rows : \E i \in K : b[i] = x,
               a[k] # b[k], \A i \in K : i < k => a[i] = b[i]
        PROVE  a[k].id < b[k].id
    <3>1. PICK m \in K : b[m] = a[k]
      BY <2>2
    <3>2. ~(m < k)
      <4> SUFFICES ASSUME m < k PROVE FALSE
        OBVIOUS
      <4>1. a[m].id > a[k].id /\ a[m] = a[k]
        BY <2>2, <3>1
      <4>2. a[k].id \in Int
        BY <1>7, <2>2
      <4> QED BY <4>1, <4>2
    <3>3. m # k
      BY <2>2, <3>1
    <3>4. k < m
      BY <3>2, <3>3
    <3>5. b[k].id > b[m].id
      BY <2>2, <3>4
    <3> QED BY <3>1, <3>5
  <2>3. r[k].id < t[k].id /\ t[k].id < r[k].id
    BY <1>5, <1>6, <1>8, <1>9, <2>1, <2>2
  <2>4. r[k].id \in Int /\ t[k].id \in Int
    BY <1>5, <1>6, <1>7
  <2> QED BY <2>3, <2>4
<1>11. t = r
  BY <1>5, <1>6, <1>10
<1>12. Reverse(t) = q
  <2>1. Len(r) = n /\ r = [i \in K |-> q[n - i + 1]]
    BY DEF r
  <2>2. \A i \in K : (n - i) + 1 \in K /\ n - ((n - i) + 1) + 1 = i
    OBVIOUS
  <2>3. \A i \in K : r[(n - i) + 1] = q[i]
    BY <2>1, <2>2
  <2> QED BY <1>11, <2>1, <2>3 DEF Reverse
<1> QED BY <1>12 DEF t, rows

-----------------------------------------------------------------------------
Mirrored == {"users", "sessions", "events", "environments"}

Alike ==
  /\ DOMAIN mem = Fields /\ DOMAIN db = Fields
  /\ \A f \in Mirrored : Mirrors(f, mem[f], db[f])
  /\ \A f \in {"progress", "entries"} : Mirrors(f, mem[f], Range(mem[f]))

InOrder ==
  \A i, j \in 1 .. Len(mem["environments"]) :
    i < j => mem["environments"][i].id < mem["environments"][j].id

(* Why both implementations award the same: a challenge is solved in       *)
(* memory.ts when the ledger has its event.                                *)
Solved(u, slug) ==
  RowOf(Range(mem["entries"]), u, slug).solvedAt # 0 <=> <<u, slug>> \in db["events"]

(* Progress and scores, as StoresAgree has them.                           *)
ScoresInv ==
  /\ {x \in Range(mem["progress"]) : x.kind # "challenge"} = db["progress"]
  /\ \A x \in db["entries"] : x \in RowsOf("entries")
  /\ \A x, y \in db["entries"] : SameRow("entries", x, y) => x = y
  /\ \A u \in Users, slug \in Slugs \cup Paths : RowsAgree(u, slug) /\ Solved(u, slug)

StoresInv ==
  /\ Alike /\ mem["byEmail"] = mem["users"] /\ InOrder
  /\ ScoresInv
  /\ AnswersAgree

LEMMA InitStores == StoresInit => StoresInv
<1> SUFFICES ASSUME StoresInit PROVE StoresInv
  OBVIOUS
<1>1. \A f \in Fields : Mirrors(f, <<>>, {}) /\ Range(<<>>) = {}
  BY DEF Mirrors, Range
<1>2. \A f \in Fields : mem[f] = <<>> /\ db[f] = {}
  BY DEF StoresInit
<1>3. Alike /\ mem["byEmail"] = mem["users"] /\ InOrder
  <2>1. \A f \in {"progress", "entries"} \cup Mirrored : f \in Fields
    BY DEF Mirrored, Fields
  <2>2. "environments" \in Fields /\ "byEmail" \in Fields /\ "users" \in Fields
    BY DEF Fields
  <2>3. DOMAIN mem = Fields /\ DOMAIN db = Fields
    BY DEF StoresInit
  <2>4. \A f \in Mirrored : Mirrors(f, mem[f], db[f])
    BY <1>1, <1>2, <2>1
  <2>5. \A f \in {"progress", "entries"} : Mirrors(f, mem[f], Range(mem[f]))
    <3>1. \A f \in {"progress", "entries"} : f \in Fields /\ mem[f] = <<>>
      BY <1>2, <2>1
    <3> QED BY <1>1, <3>1
  <2>6. Len(mem["environments"]) = 0 /\ mem["byEmail"] = mem["users"]
    BY <1>2, <2>2
  <2>7. InOrder
    BY <2>6 DEF InOrder
  <2> QED BY <2>3, <2>4, <2>5, <2>6, <2>7 DEF Alike
<1>4. /\ Range(mem["progress"]) = {} /\ Range(mem["entries"]) = {}
      /\ db["progress"] = {} /\ db["entries"] = {} /\ db["events"] = {}
  BY <1>1, <1>2 DEF Fields
<1>5. Marked = {} /\ Tried = {}
  BY <1>4 DEF Marked, Tried
<1>6. ASSUME NEW u, NEW slug PROVE RowsAgree(u, slug) /\ Solved(u, slug)
  <2>1. /\ RowOf(Range(mem["entries"]), u, slug) = Fresh(u, slug)
        /\ RowOf(db["entries"], u, slug) = Fresh(u, slug)
    BY <1>4 DEF RowOf
  <2>2. Fresh(u, slug).solvedAt = 0
    BY DEF Fresh
  <2> QED BY <1>4, <1>5, <2>1, <2>2 DEF RowsAgree, Solved
<1>7. AnswersAgree
  BY DEF StoresInit, AnswersAgree
<1> QED BY <1>3, <1>4, <1>6, <1>7 DEF StoresInv, ScoresInv

LEMMA StoresYieldAgreement == StoresInv => StoresAgree
<1> SUFFICES ASSUME StoresInv PROVE StoresAgree
  OBVIOUS
<1>1. \A f \in Mirrored : Range(mem[f]) = db[f] /\ Len(mem[f]) = Cardinality(db[f])
  <2> SUFFICES ASSUME NEW f \in Mirrored
               PROVE  Range(mem[f]) = db[f] /\ Len(mem[f]) = Cardinality(db[f])
    OBVIOUS
  <2>1. f \in Fields /\ Mirrors(f, mem[f], db[f])
    BY DEF StoresInv, Alike, Mirrored, Fields
  <2>2. Range(mem[f]) = db[f]
    BY <2>1 DEF Mirrors
  <2> QED BY <2>1, <2>2, MirrorsIs
<1> QED BY <1>1 DEF StoresInv, ScoresInv, StoresAgree, Mirrored

LEMMA ScoresStay ==
  ASSUME StoresInv,
         \A f \in {"progress", "entries", "events"} : mem'[f] = mem[f] /\ db'[f] = db[f]
  PROVE  ScoresInv'
<1>1. /\ mem'["progress"] = mem["progress"] /\ db'["progress"] = db["progress"]
      /\ mem'["entries"] = mem["entries"] /\ db'["entries"] = db["entries"]
      /\ db'["events"] = db["events"]
  OBVIOUS
<1>2. Marked' = Marked /\ Tried' = Tried
  BY <1>1 DEF Marked, Tried
<1>3. \A u, slug : (RowsAgree(u, slug)' <=> RowsAgree(u, slug)) /\ (Solved(u, slug)' <=> Solved(u, slug))
  BY <1>1, <1>2 DEF RowsAgree, Solved
<1> QED BY <1>1, <1>3 DEF StoresInv, ScoresInv

(* One field changes.                                                      *)
Becomes(f, s, T) == mem' = [mem EXCEPT ![f] = s] /\ db' = [db EXCEPT ![f] = T]

LEMMA OneField ==
  ASSUME Alike, NEW f \in Mirrored, NEW s, NEW T, Mirrors(f, s, T), Becomes(f, s, T)
  PROVE  /\ Alike'
         /\ mem'[f] = s /\ db'[f] = T
         /\ \A g \in Fields \ {f} : mem'[g] = mem[g] /\ db'[g] = db[g]
<1>1. /\ mem'[f] = s /\ db'[f] = T
      /\ \A g \in Fields \ {f} : mem'[g] = mem[g] /\ db'[g] = db[g]
      /\ DOMAIN mem' = Fields /\ DOMAIN db' = Fields
  BY DEF Alike, Mirrored, Fields, Becomes
<1>2. \A g \in Mirrored : Mirrors(g, mem'[g], db'[g])
  BY <1>1 DEF Alike, Mirrored, Fields
<1>3. \A g \in {"progress", "entries"} : mem'[g] = mem[g]
  BY <1>1 DEF Mirrored, Fields
<1> QED BY <1>1, <1>2, <1>3 DEF Alike

LEMMA QuietField ==
  ASSUME StoresInv, Unchanged, AnswersAgree'
  PROVE  StoresInv'
<1>1. mem' = mem /\ db' = db
  BY DEF Unchanged
<1>2. ScoresInv'
  BY <1>1, ScoresStay
<1> QED BY <1>1, <1>2 DEF StoresInv, Alike, InOrder

-----------------------------------------------------------------------------
LEMMA UserFields ==
  ASSUME StoresInv
  PROVE  /\ Mirrors("users", mem["users"], db["users"]) /\ mem["byEmail"] = mem["users"]
         /\ Mirrors("sessions", mem["sessions"], db["sessions"])
         /\ Mirrors("progress", mem["progress"], Range(mem["progress"]))
         /\ Mirrors("entries", mem["entries"], Range(mem["entries"]))
         /\ Mirrors("events", mem["events"], db["events"])
         /\ Mirrors("environments", mem["environments"], db["environments"])
BY DEF StoresInv, Alike, Mirrored

(* What is found in the map is what is in the table.                       *)
LEMMA PlaceIs ==
  ASSUME NEW f \in Fields, NEW s, NEW T, Mirrors(f, s, T), NEW x \in T,
         NEW I \in SUBSET (1 .. Len(s)),
         \A i \in 1 .. Len(s) : i \in I <=> SameRow(f, s[i], x)
  PROVE  /\ Min(I) \in 1 .. Len(s) /\ s[Min(I)] = x /\ I # {}
         /\ \A y \in T : SameRow(f, y, x) => y = x
<1>1. PICK i \in 1 .. Len(s) : s[i] = x
  BY MirrorsIs
<1>2. I = {i}
  BY <1>1, SameRowIsReflexive DEF Mirrors
<1>3. i \in Int
  OBVIOUS
<1>4. Min(I) = i
  BY <1>2, <1>3, MinOfOne
<1> QED BY <1>1, <1>2, <1>4, MirrorsIs

LEMMA CreateUserStep ==
  ASSUME StoresInv, NEW u \in Users, CreateUser(u) PROVE StoresInv'
<1>1. Mirrors("users", mem["users"], db["users"]) /\ mem["byEmail"] = mem["users"]
      /\ "users" \in Fields
  BY UserFields DEF Fields
<1> DEFINE taken == \E i \in 1 .. Len(mem["byEmail"]) : mem["byEmail"][i] = u
           present == \E x \in db["users"] : x = u
<1>2. taken <=> present
  BY <1>1, MirrorsIs
<1>3. AnswersAgree'
  BY <1>2 DEF CreateUser, Answer, AnswersAgree, Found
<1>4. CASE present
  <2>1. Unchanged
    BY <1>2, <1>4 DEF CreateUser, Found, Unchanged
  <2> QED BY <1>3, <2>1, QuietField
<1>5. CASE ~present
  <2>1. /\ mem' = [mem EXCEPT !["users"] = Append(@, u), !["byEmail"] = Append(@, u)]
        /\ db' = [db EXCEPT !["users"] = @ \cup {u}]
    BY <1>2, <1>5 DEF CreateUser, Found
  <2>2. Mirrors("users", Append(mem["users"], u), db["users"] \cup {u})
    <3>1. u \in RowsOf("users") /\ \A x \in db["users"] : ~SameRow("users", x, u) /\ ~SameRow("users", u, x)
      BY <1>5 DEF RowsOf, SameRow
    <3> QED BY <1>1, <3>1, MirrorsAppend
  <2>3. /\ mem'["users"] = Append(mem["users"], u) /\ mem'["byEmail"] = mem'["users"]
        /\ db'["users"] = db["users"] \cup {u}
        /\ \A f \in Fields \ {"users", "byEmail"} : mem'[f] = mem[f] /\ db'[f] = db[f]
        /\ DOMAIN mem' = Fields /\ DOMAIN db' = Fields
    BY <1>1, <2>1 DEF StoresInv, Alike, Fields
  <2>4. Alike'
    BY <2>2, <2>3 DEF StoresInv, Alike, Mirrored, Fields
  <2>5. ScoresInv'
    BY <2>3, ScoresStay DEF Fields
  <2> QED BY <1>3, <2>3, <2>4, <2>5 DEF StoresInv, InOrder, Fields
<1> QED BY <1>4, <1>5

LEMMA FindUserStep ==
  ASSUME StoresInv, NEW u \in Users, FindUser(u) PROVE StoresInv'
<1>1. Mirrors("users", mem["users"], db["users"]) /\ "users" \in Fields
  BY UserFields DEF Fields
<1> DEFINE I == {i \in 1 .. Len(mem["users"]) : mem["users"][i] = u}
           places == Found(mem["users"], LAMBDA x : x = u)
<1>2. places = IF I = {} THEN {} ELSE {Min(I)}
  BY DEF Found, SelectInSeq
<1>3. {mem["users"][i] : i \in places} = {x \in db["users"] : x = u}
  <2>1. CASE u \in db["users"]
    <3>1. I = {i \in 1 .. Len(mem["users"]) : SameRow("users", mem["users"][i], u)}
      BY DEF SameRow
    <3>2. mem["users"][Min(I)] = u /\ I # {}
      BY <1>1, <2>1, <3>1, PlaceIs, SMTT(30)
    <3> HIDE DEF places, I
    <3> QED BY <1>2, <2>1, <3>2
  <2>2. CASE u \notin db["users"]
    <3>1. I = {}
      BY <1>1, <2>2, MirrorsIs
    <3> HIDE DEF places, I
    <3> QED BY <1>2, <2>2, <3>1
  <2> QED BY <2>1, <2>2
<1>4. AnswersAgree' /\ Unchanged
  BY <1>3 DEF FindUser, Answer, AnswersAgree
<1> QED BY <1>4, QuietField

(* A lookup by id, in the map and in the table.                            *)
LEMMA LookupById ==
  ASSUME StoresInv, NEW f \in {"sessions", "environments"}, NEW id \in Ids
  PROVE  {mem[f][i] : i \in Found(mem[f], LAMBDA x : x.id = id)} = {x \in db[f] : x.id = id}
<1>1. Mirrors(f, mem[f], db[f]) /\ f \in Fields
  BY UserFields DEF Fields
<1> DEFINE I == {i \in 1 .. Len(mem[f]) : mem[f][i].id = id}
           places == Found(mem[f], LAMBDA x : x.id = id)
<1>2. places = IF I = {} THEN {} ELSE {Min(I)}
  BY DEF Found, SelectInSeq
<1>3. CASE \E x \in db[f] : x.id = id
  <2>1. PICK x \in db[f] : x.id = id
    BY <1>3
  <2>2. I = {i \in 1 .. Len(mem[f]) : SameRow(f, mem[f][i], x)}
    BY <2>1 DEF SameRow
  <2> HIDE DEF places, I
  <2>3. mem[f][Min(I)] = x /\ I # {} /\ \A y \in db[f] : SameRow(f, y, x) => y = x
    <3> DEFINE s == mem[f]
               T == db[f]
    <3>1. /\ Mirrors(f, s, T) /\ f \in Fields /\ x \in T /\ I \in SUBSET (1 .. Len(s))
          /\ \A i \in 1 .. Len(s) : i \in I <=> SameRow(f, s[i], x)
      BY <1>1, <2>1, <2>2
    <3> HIDE DEF s, T
    <3>2. s[Min(I)] = x /\ I # {} /\ \A y \in T : SameRow(f, y, x) => y = x
      BY <3>1, PlaceIs, SMTT(30)
    <3>3. mem[f][Min(I)] = x
      BY <3>2 DEF s
    <3>4. \A y \in db[f] : SameRow(f, y, x) => y = x
      BY <3>2 DEF T
    <3> QED BY <3>2, <3>3, <3>4
  <2>4. \A y \in db[f] : y.id = id => y = x
    BY <2>1, <2>3 DEF SameRow
  <2>5. places = {Min(I)}
    BY <1>2, <2>3
  <2>6. {mem[f][i] : i \in places} = {x}
    BY <2>3, <2>5
  <2> QED BY <2>1, <2>4, <2>6 DEF places
<1>4. CASE ~\E x \in db[f] : x.id = id
  <2>1. I = {}
    BY <1>1, <1>4, MirrorsIs
  <2> HIDE DEF I
  <2>2. places = {}
    BY <1>2, <2>1
  <2> HIDE DEF places
  <2>3. {mem[f][i] : i \in places} = {}
    BY <2>2
  <2> QED BY <1>4, <2>3 DEF places
<1> QED BY <1>3, <1>4

LEMMA FindStep ==
  ASSUME StoresInv, NEW id \in Ids, FindByTokenHash(id) \/ FindEnvironment(id)
  PROVE  StoresInv'
<1>1. CASE FindByTokenHash(id)
  <2>1. {mem["sessions"][i] : i \in Found(mem["sessions"], LAMBDA x : x.id = id)}
          = {x \in db["sessions"] : x.id = id}
    BY LookupById
  <2>2. AnswersAgree' /\ Unchanged
    BY <1>1, <2>1 DEF FindByTokenHash, Answer, AnswersAgree
  <2> QED BY <2>2, QuietField
<1>2. CASE FindEnvironment(id)
  <2>1. {mem["environments"][i] : i \in Found(mem["environments"], LAMBDA x : x.id = id)}
          = {x \in db["environments"] : x.id = id}
    BY LookupById
  <2>2. AnswersAgree' /\ Unchanged
    BY <1>2, <2>1 DEF FindEnvironment, Answer, AnswersAgree
  <2> QED BY <2>2, QuietField
<1> QED BY <1>1, <1>2

(* A new id, of a session or an environment.                               *)
LEMMA AddedStep ==
  ASSUME StoresInv, NEW f \in {"sessions", "environments"}, NEW new \in RowsOf(f),
         \A x \in db[f] : x.id < new.id, Added(f, new), NEW call, Answer(call, new, new)
  PROVE  StoresInv'
<1>1. Mirrors(f, mem[f], db[f]) /\ f \in Fields
  BY UserFields DEF Fields
<1>2. /\ Len(mem[f]) \in Nat /\ \A i \in 1 .. Len(mem[f]) : mem[f][i] \in db[f]
      /\ \A x \in db[f] : x \in RowsOf(f)
  BY <1>1, MirrorsIs
<1>3. \A x \in RowsOf(f) : x.id \in Int
  <2>1. Ids \subseteq Int
    BY StoresAssumption
  <2>2. CASE f = "sessions"
    BY <2>1, <2>2 DEF RowsOf
  <2>3. CASE f = "environments"
    BY <2>1, <2>3 DEF RowsOf
  <2> QED BY <2>2, <2>3
<1>4. \A x \in db[f] : ~SameRow(f, x, new) /\ ~SameRow(f, new, x)
  <2> SUFFICES ASSUME NEW x \in db[f] PROVE ~SameRow(f, x, new) /\ ~SameRow(f, new, x)
    OBVIOUS
  <2>1. x.id < new.id /\ x.id \in Int /\ new.id \in Int
    BY <1>2, <1>3
  <2>2. x.id # new.id
    BY <2>1
  <2> QED BY <2>2 DEF SameRow
<1>5. Mirrors(f, Append(mem[f], new), db[f] \cup {new})
  BY <1>1, <1>4, MirrorsAppend
<1>6. /\ mem' = [mem EXCEPT ![f] = Append(mem[f], new)]
      /\ db' = [db EXCEPT ![f] = db[f] \cup {new}]
  BY <1>1 DEF Added, StoresInv, Alike
<1>7. /\ Alike' /\ mem'[f] = Append(mem[f], new) /\ db'[f] = db[f] \cup {new}
      /\ \A g \in Fields \ {f} : mem'[g] = mem[g] /\ db'[g] = db[g]
  <2> DEFINE s == Append(mem[f], new)
             T == db[f] \cup {new}
  <2>1. /\ f \in Mirrored /\ Alike /\ Mirrors(f, s, T)
        /\ Becomes(f, s, T)
    BY <1>5, <1>6 DEF StoresInv, Mirrored, Becomes
  <2> HIDE DEF s, T
  <2>2. /\ Alike' /\ mem'[f] = s /\ db'[f] = T
        /\ \A g \in Fields \ {f} : mem'[g] = mem[g] /\ db'[g] = db[g]
    BY <2>1, OneField
  <2> QED BY <2>2 DEF s, T
<1>8. mem'["byEmail"] = mem'["users"] /\ ScoresInv'
  BY <1>7, ScoresStay DEF StoresInv, Fields
<1>9. InOrder'
  <2>1. CASE f = "sessions"
    BY <1>7, <2>1 DEF StoresInv, InOrder, Fields
  <2>2. CASE f = "environments"
    <3> DEFINE s == mem[f]
               r == mem'[f]
    <3>1. /\ Len(r) = Len(s) + 1 /\ r[Len(s) + 1] = new
          /\ \A i \in 1 .. Len(s) : r[i] = s[i]
      BY <1>1, <1>7 DEF Mirrors
    <3>2. \A i \in 1 .. Len(s) : r[i].id < new.id
      BY <1>2, <3>1
    <3>3. \A i, j \in 1 .. Len(s) : i < j => r[i].id < r[j].id
      BY <2>2, <3>1 DEF StoresInv, InOrder
    <3> HIDE DEF s, r
    <3>4. \A i, j \in 1 .. Len(r) : i < j => r[i].id < r[j].id
      <4> SUFFICES ASSUME NEW i \in 1 .. Len(r), NEW j \in 1 .. Len(r), i < j
                   PROVE  r[i].id < r[j].id
        OBVIOUS
      <4>1. Len(s) \in Nat
        BY <1>2 DEF s
      <4>2. CASE j = Len(s) + 1
        BY <3>1, <3>2, <4>1, <4>2
      <4>3. CASE j # Len(s) + 1
        BY <3>1, <3>3, <4>1, <4>3
      <4> QED BY <4>2, <4>3
    <3> QED BY <2>2, <3>4 DEF InOrder, r
  <2> QED BY <2>1, <2>2
<1>10. AnswersAgree'
  BY DEF Answer, AnswersAgree
<1> QED BY <1>7, <1>8, <1>9, <1>10 DEF StoresInv

LEMMA CreateStep ==
  ASSUME StoresInv, NEW id \in Ids, NEW u \in Users, NEW at \in Times,
         CreateSession(id, u, at) \/ CreateEnvironment(id, u, at)
  PROVE  StoresInv'
<1>1. CASE CreateSession(id, u, at)
  <2> DEFINE new == [id |-> id, user |-> u, expires |-> at, seen |-> 0, revoked |-> 0]
  <2>1. new \in RowsOf("sessions") /\ new.id = id
    BY DEF RowsOf
  <2>2. Added("sessions", new) /\ Answer("create", new, new) /\ \A x \in db["sessions"] : x.id < id
    BY <1>1 DEF CreateSession
  <2> HIDE DEF new
  <2> QED BY <2>1, <2>2, AddedStep
<1>2. CASE CreateEnvironment(id, u, at)
  <2> DEFINE new == [id |-> id, user |-> u, status |-> "live", expires |-> at]
  <2>1. new \in RowsOf("environments") /\ new.id = id
    BY DEF RowsOf
  <2>2. Added("environments", new) /\ Answer("create", new, new) /\ \A x \in db["environments"] : x.id < id
    BY <1>2 DEF CreateEnvironment
  <2> HIDE DEF new
  <2> QED BY <2>1, <2>2, AddedStep
<1> QED BY <1>1, <1>2

-----------------------------------------------------------------------------
(* A field that is not of scores changes, without a new environment.       *)
LEMMA OtherField ==
  ASSUME StoresInv, NEW f \in {"sessions", "environments"}, NEW s, NEW T,
         Mirrors(f, s, T), mem' = [mem EXCEPT ![f] = s], db' = [db EXCEPT ![f] = T], AnswersAgree',
         f = "environments" =>
           /\ Len(s) = Len(mem[f])
           /\ \A i \in 1 .. Len(mem[f]) : s[i].id = mem[f][i].id
  PROVE  StoresInv'
<1>1. f \in Fields /\ f \in Mirrored /\ Alike
  BY DEF Fields, Mirrored, StoresInv
<1>2. /\ Alike' /\ mem'[f] = s /\ db'[f] = T
      /\ \A h \in Fields \ {f} : mem'[h] = mem[h] /\ db'[h] = db[h]
  <2>1. Becomes(f, s, T)
    BY DEF Becomes
  <2> QED BY <1>1, <2>1, OneField
<1>3. mem'["byEmail"] = mem'["users"] /\ ScoresInv'
  BY <1>2, ScoresStay DEF StoresInv, Fields
<1>4. InOrder'
  <2>1. CASE f # "environments"
    BY <1>2, <2>1 DEF StoresInv, InOrder, Fields
  <2>2. CASE f = "environments"
    BY <1>2, <2>2 DEF StoresInv, InOrder
  <2> QED BY <2>1, <2>2
<1> QED BY <1>2, <1>3, <1>4 DEF StoresInv

(* Every row is changed by itself.                                         *)
LEMMA ChangedStep ==
  ASSUME StoresInv, NEW f \in {"sessions", "environments"}, NEW g,
         \A x \in db[f] : g[x] \in RowsOf(f),
         \A x, y \in db[f] : SameRow(f, g[x], g[y]) => SameRow(f, x, y),
         f = "environments" => \A x \in db[f] : g[x].id = x.id,
         mem' = [mem EXCEPT ![f] = [i \in 1 .. Len(mem[f]) |-> g[mem[f][i]]]],
         db' = [db EXCEPT ![f] = {g[x] : x \in db[f]}], AnswersAgree'
  PROVE  StoresInv'
<1> DEFINE s == [i \in 1 .. Len(mem[f]) |-> g[mem[f][i]]]
           T == {g[x] : x \in db[f]}
<1>1. Mirrors(f, mem[f], db[f]) /\ f \in Fields
  BY UserFields DEF Fields
<1>2. Mirrors(f, s, T)
  <2> DEFINE s0 == mem[f]
             T0 == db[f]
  <2>1. /\ Mirrors(f, s0, T0) /\ f \in Fields /\ \A x \in T0 : g[x] \in RowsOf(f)
        /\ \A x, y \in T0 : SameRow(f, g[x], g[y]) => SameRow(f, x, y)
    BY <1>1
  <2> HIDE DEF s0, T0
  <2>2. Mirrors(f, Mapped(s0, g), ImageOf(T0, g))
    BY <2>1, MirrorsMap
  <2> QED BY <2>2 DEF s0, T0, Mapped, ImageOf
<1>3. mem' = [mem EXCEPT ![f] = s] /\ db' = [db EXCEPT ![f] = T]
  OBVIOUS
<1>4. \A i \in 1 .. Len(mem[f]) : s[i] = g[mem[f][i]] /\ mem[f][i] \in db[f]
  BY <1>1, MirrorsIs
<1>5. Len(s) = Len(mem[f])
  BY <1>1, MirrorsIs
<1>6. f = "environments" => \A i \in 1 .. Len(mem[f]) : s[i].id = mem[f][i].id
  BY <1>4
<1> HIDE DEF s, T
<1> QED BY <1>2, <1>3, <1>5, <1>6, OtherField

(* The rows that pass a test, of the map and of the table.                 *)
LEMMA ChosenRows ==
  ASSUME NEW f \in Fields, NEW s, NEW T, Mirrors(f, s, T),
         NEW I \in SUBSET (1 .. Len(s)), NEW chosen,
         \A i \in 1 .. Len(s) : i \in I <=> s[i] \in chosen
  PROVE  Mirrors(f, At(s, I), T \cap chosen)
<1> DEFINE C == {s[i] : i \in I}
<1>1. C = T \cap chosen
  <2>1. /\ \A i \in 1 .. Len(s) : s[i] \in T
        /\ \A x \in T : \E i \in 1 .. Len(s) : s[i] = x
    BY MirrorsIs
  <2> QED BY <2>1
<1> HIDE DEF C
<1>2. Mirrors(f, At(s, I), {s[i] : i \in I})
  BY MirrorsAt
<1> QED BY <1>1, <1>2 DEF C

LEMMA TouchStep ==
  ASSUME StoresInv, NEW id \in Ids, NEW at \in Times, TouchLastSeen(id, at) \/ Revoke(id, at)
  PROVE  StoresInv'
<1>1. /\ \A i \in 1 .. Len(mem["sessions"]) : mem["sessions"][i] \in db["sessions"]
      /\ \A x \in db["sessions"] : x \in RowsOf("sessions")
  BY UserFields, MirrorsIs DEF Fields
<1>2. CASE TouchLastSeen(id, at)
  <2> DEFINE g == [x \in db["sessions"] |-> IF x.id = id THEN [x EXCEPT !.seen = at] ELSE x]
  <2>1. \A x \in db["sessions"] : g[x] \in RowsOf("sessions") /\ g[x].id = x.id
    BY <1>1 DEF RowsOf
  <2>2. \A x, y \in db["sessions"] : SameRow("sessions", g[x], g[y]) => SameRow("sessions", x, y)
    BY <2>1 DEF SameRow
  <2>3. /\ mem' = [mem EXCEPT !["sessions"] = [i \in 1 .. Len(mem["sessions"]) |->
                                                g[mem["sessions"][i]]]]
        /\ db' = [db EXCEPT !["sessions"] = {g[x] : x \in db["sessions"]}]
    BY <1>1, <1>2 DEF TouchLastSeen, Change, Rewritten, Updated, StoresInv, Alike, Fields
  <2>4. AnswersAgree'
    BY <1>2 DEF TouchLastSeen, Answer, AnswersAgree
  <2> HIDE DEF g
  <2> QED BY <2>1, <2>2, <2>3, <2>4, ChangedStep
<1>3. CASE Revoke(id, at)
  <2> DEFINE g == [x \in db["sessions"] |->
                     IF x.id = id /\ x.revoked = 0 THEN [x EXCEPT !.revoked = at] ELSE x]
  <2>1. \A x \in db["sessions"] : g[x] \in RowsOf("sessions") /\ g[x].id = x.id
    BY <1>1 DEF RowsOf
  <2>2. \A x, y \in db["sessions"] : SameRow("sessions", g[x], g[y]) => SameRow("sessions", x, y)
    BY <2>1 DEF SameRow
  <2>3. /\ mem' = [mem EXCEPT !["sessions"] = [i \in 1 .. Len(mem["sessions"]) |->
                                                g[mem["sessions"][i]]]]
        /\ db' = [db EXCEPT !["sessions"] = {g[x] : x \in db["sessions"]}]
    <3>1. /\ [i \in 1 .. Len(mem["sessions"]) |-> g[mem["sessions"][i]]]
              = Rewritten(mem["sessions"], LAMBDA x : x.id = id /\ x.revoked = 0,
                          LAMBDA x : [x EXCEPT !.revoked = at])
          /\ {g[x] : x \in db["sessions"]}
              = Updated(db["sessions"], LAMBDA x : x.id = id /\ x.revoked = 0,
                        LAMBDA x : [x EXCEPT !.revoked = at])
      BY <1>1 DEF Rewritten, Updated
    <3> HIDE DEF g
    <3> QED BY <1>3, <3>1 DEF Revoke, Change, StoresInv, Alike, Fields
  <2>4. AnswersAgree'
    BY <1>3 DEF Revoke, Answer, AnswersAgree
  <2> HIDE DEF g
  <2> QED BY <2>1, <2>2, <2>3, <2>4, ChangedStep
<1> QED BY <1>2, <1>3

LEMMA RevokeAllStep ==
  ASSUME StoresInv, NEW u \in Users, NEW at \in Times, RevokeAllForUser(u, at)
  PROVE  StoresInv'
<1>1. /\ \A i \in 1 .. Len(mem["sessions"]) : mem["sessions"][i] \in db["sessions"]
      /\ \A x \in db["sessions"] : x \in RowsOf("sessions")
  BY UserFields, MirrorsIs DEF Fields
<1> DEFINE g == [x \in db["sessions"] |->
                   IF x.user = u /\ x.revoked = 0 THEN [x EXCEPT !.revoked = at] ELSE x]
<1>2. \A x \in db["sessions"] : g[x] \in RowsOf("sessions") /\ g[x].id = x.id
  BY <1>1 DEF RowsOf
<1>3. \A x, y \in db["sessions"] : SameRow("sessions", g[x], g[y]) => SameRow("sessions", x, y)
  BY <1>2 DEF SameRow
<1>4. /\ mem' = [mem EXCEPT !["sessions"] = [i \in 1 .. Len(mem["sessions"]) |->
                                              g[mem["sessions"][i]]]]
      /\ db' = [db EXCEPT !["sessions"] = {g[x] : x \in db["sessions"]}]
  BY <1>1 DEF RevokeAllForUser, Change, Rewritten, Updated, StoresInv, Alike, Fields
<1>5. AnswersAgree'
  BY DEF RevokeAllForUser, Answer, AnswersAgree
<1> HIDE DEF g
<1> QED BY <1>2, <1>3, <1>4, <1>5, ChangedStep

LEMMA DeleteStep ==
  ASSUME StoresInv, NEW before \in Times, DeleteExpired(before)
  PROVE  StoresInv'
<1> DEFINE s == mem["sessions"]
           T == db["sessions"]
           I == {i \in 1 .. Len(s) : s[i].expires > before}
           kept == At(s, I)
           late == {x \in T : x.expires > before}
           gone == {x \in T : x.expires <= before}
<1>1. /\ mem' = [mem EXCEPT !["sessions"] = kept]
      /\ db' = [db EXCEPT !["sessions"] = T \ gone]
      /\ Answer("deleteExpired", Len(s) - Len(kept), Cardinality(gone))
  BY DEF DeleteExpired, Filtered, StoresInv, Alike, Fields
<1>2. /\ Mirrors("sessions", s, T) /\ "sessions" \in Fields
  BY UserFields DEF Fields
<1>3. /\ \A i \in 1 .. Len(s) : s[i] \in T
      /\ \A x \in T : x.expires \in Int
      /\ IsFiniteSet(T) /\ Cardinality(T) = Len(s) /\ Len(s) \in Nat
  <2>1. \A x \in RowsOf("sessions") : x.expires \in Int
    BY StoresAssumption DEF RowsOf
  <2>2. /\ \A i \in 1 .. Len(s) : s[i] \in T
        /\ \A x \in T : x \in RowsOf("sessions")
        /\ IsFiniteSet(T) /\ Cardinality(T) = Len(s) /\ Len(s) \in Nat
    BY <1>2, MirrorsIs
  <2>3. \A x \in T : x.expires \in Int
    BY <2>1, <2>2
  <2> HIDE DEF s, T
  <2> QED BY <2>2, <2>3
<1>4. Mirrors("sessions", kept, late)
  <2>1. \A i \in 1 .. Len(s) : i \in I <=> s[i] \in late
    BY <1>3
  <2>2. I \in SUBSET (1 .. Len(s))
    OBVIOUS
  <2>3. Mirrors("sessions", At(s, I), T \cap late)
    <3> HIDE DEF I, late, s, T
    <3> QED BY <1>2, <2>1, <2>2, ChosenRows
  <2>4. T \cap late = late
    OBVIOUS
  <2> QED BY <2>3, <2>4
<1>5. T \ gone = late /\ T \ late = gone /\ T \cap late = late
  <2>1. before \in Int
    BY StoresAssumption
  <2>2. \A x \in T : x.expires <= before <=> ~(x.expires > before)
    BY <1>3, <2>1
  <2> HIDE DEF T
  <2> QED BY <2>2
<1>6. Cardinality(late) = Len(kept) /\ Cardinality(gone) = Cardinality(T) - Cardinality(late)
  <2> HIDE DEF s, T, I, kept, late, gone
  <2>1. Cardinality(late) = Len(kept)
    BY <1>2, <1>4, MirrorsIs
  <2>2. Cardinality(T \ late) = Cardinality(T) - Cardinality(T \cap late)
    BY <1>3, FS_Difference
  <2> QED BY <1>5, <2>1, <2>2
<1>7. AnswersAgree'
  <2> HIDE DEF s, T, kept, late, gone
  <2> QED BY <1>1, <1>3, <1>6 DEF Answer, AnswersAgree
<1>8. mem' = [mem EXCEPT !["sessions"] = kept] /\ db' = [db EXCEPT !["sessions"] = late]
  BY <1>1, <1>5
<1> HIDE DEF kept, late
<1> QED BY <1>4, <1>7, <1>8, OtherField

-----------------------------------------------------------------------------
(* One row of a user and challenge in a set of rows.                       *)
Single(rows) == \A x, y \in rows : SameRow("entries", x, y) => x = y

Has(rows, u, slug) == \E x \in rows : x.user = u /\ x.slug = slug

LEMMA RowOfIs ==
  ASSUME NEW rows, NEW u, NEW slug
  PROVE  /\ RowOf(rows, u, slug).user = u /\ RowOf(rows, u, slug).slug = slug
         /\ Has(rows, u, slug) => RowOf(rows, u, slug) \in rows
         /\ ~Has(rows, u, slug) => RowOf(rows, u, slug) = Fresh(u, slug)
<1> DEFINE own == {x \in rows : x.user = u /\ x.slug = slug}
<1>1. RowOf(rows, u, slug) = IF own = {} THEN Fresh(u, slug) ELSE CHOOSE x \in own : TRUE
  BY DEF RowOf
<1>2. Has(rows, u, slug) <=> own # {}
  BY DEF Has
<1>3. Fresh(u, slug).user = u /\ Fresh(u, slug).slug = slug
  BY DEF Fresh
<1>4. own # {} => (CHOOSE x \in own : TRUE) \in own
  OBVIOUS
<1>5. \A x \in own : x \in rows /\ x.user = u /\ x.slug = slug
  OBVIOUS
<1> HIDE DEF own
<1> QED BY <1>1, <1>2, <1>3, <1>4, <1>5

LEMMA RowOfSingle ==
  ASSUME NEW rows, Single(rows), NEW x \in rows
  PROVE  RowOf(rows, x.user, x.slug) = x /\ Has(rows, x.user, x.slug)
<1>1. Has(rows, x.user, x.slug)
  BY DEF Has
<1> DEFINE y == RowOf(rows, x.user, x.slug)
<1>2. y \in rows /\ y.user = x.user /\ y.slug = x.slug
  BY <1>1, RowOfIs
<1> HIDE DEF y
<1>3. y = x
  BY <1>2 DEF Single, SameRow
<1> QED BY <1>1, <1>3 DEF y

LEMMA StoredIs ==
  ASSUME NEW rows, Single(rows), NEW rec
  PROVE  /\ Single(Stored(rows, rec))
         /\ RowOf(Stored(rows, rec), rec.user, rec.slug) = rec
         /\ Has(Stored(rows, rec), rec.user, rec.slug)
         /\ \A v, other : ~(v = rec.user /\ other = rec.slug) =>
              /\ RowOf(Stored(rows, rec), v, other) = RowOf(rows, v, other)
              /\ Has(Stored(rows, rec), v, other) <=> Has(rows, v, other)
<1> DEFINE after == Stored(rows, rec)
<1>1. after = {x \in rows : ~(x.user = rec.user /\ x.slug = rec.slug)} \cup {rec}
  BY DEF Stored
<1> HIDE DEF after
<1>2. Single(after) /\ rec \in after
  BY <1>1 DEF Single, SameRow
<1>3. RowOf(after, rec.user, rec.slug) = rec /\ Has(after, rec.user, rec.slug)
  BY <1>2, RowOfSingle
<1>4. ASSUME NEW v, NEW other, ~(v = rec.user /\ other = rec.slug)
      PROVE  /\ RowOf(after, v, other) = RowOf(rows, v, other)
             /\ Has(after, v, other) <=> Has(rows, v, other)
  <2>1. {x \in after : x.user = v /\ x.slug = other} = {x \in rows : x.user = v /\ x.slug = other}
    BY <1>1, <1>4
  <2>2. Has(after, v, other) <=> Has(rows, v, other)
    BY <1>1, <1>4 DEF Has
  <2>3. RowOf(after, v, other) = RowOf(rows, v, other)
    <3> DEFINE a == {x \in after : x.user = v /\ x.slug = other}
               b == {x \in rows : x.user = v /\ x.slug = other}
    <3>1. /\ RowOf(after, v, other) = IF a = {} THEN Fresh(v, other) ELSE CHOOSE x \in a : TRUE
          /\ RowOf(rows, v, other) = IF b = {} THEN Fresh(v, other) ELSE CHOOSE x \in b : TRUE
      BY DEF RowOf
    <3> HIDE DEF a, b
    <3>2. a = b
      BY <2>1 DEF a, b
    <3> QED BY <3>1, <3>2
  <2> QED BY <2>2, <2>3
<1> QED BY <1>2, <1>3, <1>4 DEF after

(* Map.set of a key, present or not.                                       *)
PutAt(s, own, rec) ==
  IF \E i \in 1 .. Len(s) : s[i] \in own
  THEN [i \in 1 .. Len(s) |-> IF s[i] \in own THEN rec ELSE s[i]]
  ELSE Append(s, rec)

LEMMA PutRows ==
  ASSUME NEW f \in Fields, NEW s, NEW T, Mirrors(f, s, T), NEW rec \in RowsOf(f), NEW own,
         own = {x \in T : SameRow(f, x, rec)}
  PROVE  Mirrors(f, PutAt(s, own, rec), (T \ own) \cup {rec})
<1>1. /\ \A i \in 1 .. Len(s) : s[i] \in T
      /\ \A x \in T : x \in RowsOf(f) /\ \E i \in 1 .. Len(s) : s[i] = x
  BY MirrorsIs
<1>2. \A x, y, z : /\ SameRow(f, x, y) => SameRow(f, y, x)
                   /\ SameRow(f, x, y) /\ SameRow(f, y, z) => SameRow(f, x, z)
  <2> TAKE x, y, z
  <2>1. CASE f \in {"users", "byEmail", "events"}
    BY <2>1 DEF SameRow
  <2>2. CASE f \in {"sessions", "environments"}
    BY <2>2 DEF SameRow
  <2>3. CASE f = "progress"
    BY <2>3 DEF SameRow
  <2>4. CASE f = "entries"
    BY <2>4 DEF SameRow
  <2> QED BY <2>1, <2>2, <2>3, <2>4 DEF Fields
<1>3. CASE \E x \in T : x \in own
  <2> DEFINE g == [x \in T |-> IF x \in own THEN rec ELSE x]
  <2>1. \A x \in T : g[x] \in RowsOf(f) /\ SameRow(f, g[x], x)
    BY <1>1, <1>2, SameRowIsReflexive
  <2>2. \A x, y \in T : SameRow(f, g[x], g[y]) => SameRow(f, x, y)
    <3> SUFFICES ASSUME NEW x \in T, NEW y \in T, SameRow(f, g[x], g[y]) PROVE SameRow(f, x, y)
      OBVIOUS
    <3>1. SameRow(f, x, g[x]) /\ SameRow(f, g[y], y)
      BY <1>2, <2>1
    <3> HIDE DEF g
    <3> QED BY <1>2, <3>1
  <2>3. PutAt(s, own, rec) = Mapped(s, g)
    BY <1>1, <1>3 DEF PutAt, Mapped
  <2>4. (T \ own) \cup {rec} = ImageOf(T, g)
    BY <1>3 DEF ImageOf
  <2> HIDE DEF g
  <2> QED BY <2>1, <2>2, <2>3, <2>4, MirrorsMap
<1>4. CASE ~\E x \in T : x \in own
  <2>1. PutAt(s, own, rec) = Append(s, rec) /\ (T \ own) \cup {rec} = T \cup {rec}
    BY <1>1, <1>4 DEF PutAt
  <2>2. \A x \in T : ~SameRow(f, x, rec) /\ ~SameRow(f, rec, x)
    BY <1>2, <1>4
  <2>3. Mirrors(f, Append(s, rec), T \cup {rec})
    BY <2>2, MirrorsAppend
  <2> QED BY <2>1, <2>3
<1> QED BY <1>3, <1>4

(* The rows of the scores, one of each challenge in both stores.           *)
LEMMA ScoreRows ==
  ASSUME StoresInv
  PROVE  /\ Single(Range(mem["entries"])) /\ Single(db["entries"])
         /\ \A x \in Range(mem["entries"]) : x \in RowsOf("entries")
         /\ \A x \in db["entries"] : x \in RowsOf("entries")
         /\ \A x \in Range(mem["progress"]) : x \in RowsOf("progress")
         /\ \A x, y \in Range(mem["progress"]) : SameRow("progress", x, y) => x = y
         /\ IsFiniteSet(Range(mem["entries"]))
         /\ Range(mem["events"]) = db["events"]
         /\ \A u, slug : <<u, slug>> \in Tried <=> Has(Range(mem["entries"]), u, slug)
         /\ \A u \in Users, slug \in Slugs \cup Paths : RowsAgree(u, slug) /\ Solved(u, slug)
<1>1. /\ \A x \in Range(mem["entries"]) : x \in RowsOf("entries")
      /\ \A x, y \in Range(mem["entries"]) : SameRow("entries", x, y) => x = y
      /\ IsFiniteSet(Range(mem["entries"]))
  <2> DEFINE s == mem["entries"]
             T == Range(mem["entries"])
  <2>1. Mirrors("entries", s, T) /\ "entries" \in Fields
    BY UserFields DEF Fields
  <2> HIDE DEF s, T
  <2>2. /\ \A x \in T : x \in RowsOf("entries")
        /\ \A x, y \in T : SameRow("entries", x, y) => x = y
        /\ IsFiniteSet(T)
    BY <2>1, MirrorsIs
  <2> QED BY <2>2 DEF T
<1>2. /\ \A x \in Range(mem["progress"]) : x \in RowsOf("progress")
      /\ \A x, y \in Range(mem["progress"]) : SameRow("progress", x, y) => x = y
  <2> DEFINE s == mem["progress"]
             T == Range(mem["progress"])
  <2>1. Mirrors("progress", s, T) /\ "progress" \in Fields
    BY UserFields DEF Fields
  <2> HIDE DEF s, T
  <2>2. /\ \A x \in T : x \in RowsOf("progress")
        /\ \A x, y \in T : SameRow("progress", x, y) => x = y
    BY <2>1, MirrorsIs
  <2> QED BY <2>2 DEF T
<1>3. Range(mem["events"]) = db["events"]
  BY UserFields DEF Mirrors
<1>4. \A u, slug : <<u, slug>> \in Tried <=> Has(Range(mem["entries"]), u, slug)
  BY DEF Tried, Has
<1> QED BY <1>1, <1>2, <1>3, <1>4 DEF Single, StoresInv, ScoresInv

LEMMA MarkedIs ==
  \A u, slug : <<u, slug>> \in Marked <=>
    \E x \in Range(mem["progress"]) : x.kind = "challenge" /\ x.user = u /\ x.slug = slug
BY DEF Marked

LEMMA UpsertStep ==
  ASSUME StoresInv, NEW kind \in Kinds, NEW u \in Users, NEW slug \in Paths, NEW mark \in Marks,
         Upsert(kind, u, slug, mark)
  PROVE  StoresInv'
<1> DEFINE Same(x) == x.kind = kind /\ x.user = u /\ x.slug = slug
           new == [kind |-> kind, user |-> u, slug |-> slug,
                   status |-> mark.status, completedAt |-> mark.completedAt]
           s == mem["progress"]
           P == Range(s)
           own == {x \in P : Same(x)}
           s2 == PutAt(s, own, new)
           P2 == (P \ own) \cup {new}
           D == db["entries"]
           old == RowOf(D, u, slug)
           scores == [old EXCEPT !.status = mark.status, !.completedAt = mark.completedAt]
<1>1. /\ new \in RowsOf("progress") /\ mark.status \in Statuses
      /\ mark.completedAt \in Times \cup {0}
  BY StoresAssumption DEF RowsOf
<1>2. Mirrors("progress", s2, P2) /\ Range(s2) = P2
  <2>1. own = {x \in P : SameRow("progress", x, new)}
    BY DEF SameRow
  <2>2. Mirrors("progress", s, P) /\ "progress" \in Fields
    BY UserFields DEF Fields
  <2> HIDE DEF s, P, own, new, Same
  <2>3. Mirrors("progress", PutAt(s, own, new), (P \ own) \cup {new})
    BY <1>1, <2>1, <2>2, PutRows
  <2> QED BY <2>3 DEF Mirrors
<1>3. s2 = Put(s, Same, new)
  <2>1. \A i \in 1 .. Len(s) : s[i] \in own <=> Same(s[i])
    <3>1. Mirrors("progress", s, P) /\ "progress" \in Fields
      BY UserFields DEF Fields
    <3>2. \A i \in 1 .. Len(s) : s[i] \in P
      <4> HIDE DEF s, P
      <4> QED BY <3>1, MirrorsIs
    <3> HIDE DEF s, P
    <3> QED BY <3>2
  <2> HIDE DEF own, s, Same
  <2> QED BY <2>1 DEF PutAt, Put, Rewritten
<1>4. AnswersAgree'
  BY DEF Upsert, Answer, AnswersAgree
<1>5. mem' = [mem EXCEPT !["progress"] = s2]
  BY <1>3 DEF Upsert, StoresInv, Alike, Fields
<1>6. /\ mem'["progress"] = s2 /\ DOMAIN mem' = Fields
      /\ \A f \in Fields \ {"progress"} : mem'[f] = mem[f]
  BY <1>5 DEF StoresInv, Alike, Fields
<1>7. CASE kind = "challenge"
  <2>1. db' = [db EXCEPT !["entries"] = Stored(D, scores)]
    BY <1>7 DEF Upsert, StoresInv, Alike, Fields
  <2>2. /\ db'["entries"] = Stored(D, scores) /\ DOMAIN db' = Fields
        /\ \A f \in Fields \ {"entries"} : db'[f] = db[f]
    BY <2>1 DEF StoresInv, Alike, Fields
  <2>3. old \in RowsOf("entries") /\ old.user = u /\ old.slug = slug
    <3>1. Has(D, u, slug) => old \in D
      BY RowOfIs
    <3>2. ~Has(D, u, slug) => old = Fresh(u, slug)
      BY RowOfIs
    <3>3. Fresh(u, slug) \in RowsOf("entries")
      BY DEF Fresh, RowsOf, Statuses
    <3>4. old.user = u /\ old.slug = slug
      BY RowOfIs
    <3> QED BY <3>1, <3>2, <3>3, <3>4, ScoreRows
  <2>4. /\ scores \in RowsOf("entries") /\ scores.user = u /\ scores.slug = slug
        /\ scores.attempts = old.attempts /\ scores.points = old.points
        /\ scores.solvedAt = old.solvedAt /\ Told(scores) = Told(new)
    <3> HIDE DEF old
    <3> QED BY <1>1, <2>3 DEF RowsOf, Told
  <2>5. new.kind = "challenge" /\ new.user = u /\ new.slug = slug
    BY <1>7
  <2> HIDE DEF scores, s2, new
  <2>6. Alike'
    BY <1>2, <1>6, <2>2 DEF StoresInv, Alike, Mirrored, Fields
  <2>7. \A v, other : <<v, other>> \in Marked' <=> <<v, other>> \in Marked \/ (v = u /\ other = slug)
    <3>1. \A x \in P2 : x \in P \/ x = new
      OBVIOUS
    <3>2. \A x \in P : x \in P2 \/ (x.user = u /\ x.slug = slug)
      OBVIOUS
    <3>3. new \in P2
      OBVIOUS
    <3>4. \A v, other : <<v, other>> \in Marked <=>
            \E x \in P : x.kind = "challenge" /\ x.user = v /\ x.slug = other
      BY MarkedIs
    <3>5. Range(mem["progress"])' = P2
      BY <1>2, <1>6
    <3>6. \A v, other : <<v, other>> \in Marked' <=>
            \E x \in P2 : x.kind = "challenge" /\ x.user = v /\ x.slug = other
      BY <3>5 DEF Marked
    <3> HIDE DEF P, P2
    <3> TAKE v, other
    <3>7. ASSUME <<v, other>> \in Marked'
          PROVE  <<v, other>> \in Marked \/ (v = u /\ other = slug)
      <4>1. PICK x \in P2 : x.kind = "challenge" /\ x.user = v /\ x.slug = other
        BY <3>6, <3>7
      <4> QED BY <2>5, <3>1, <3>4, <4>1
    <3>8. ASSUME <<v, other>> \in Marked PROVE <<v, other>> \in Marked'
      <4>1. PICK x \in P : x.kind = "challenge" /\ x.user = v /\ x.slug = other
        BY <3>4, <3>8
      <4>2. CASE v = u /\ other = slug
        BY <2>5, <3>3, <3>6, <4>2
      <4>3. CASE ~(v = u /\ other = slug)
        BY <3>2, <3>6, <4>1, <4>3
      <4> QED BY <4>2, <4>3
    <3>9. <<u, slug>> \in Marked'
      BY <2>5, <3>3, <3>6
    <3> QED BY <3>7, <3>8, <3>9
  <2>8. Tried' = Tried /\ mem'["entries"] = mem["entries"] /\ db'["events"] = db["events"]
        /\ db'["progress"] = db["progress"]
    BY <1>6, <2>2 DEF Tried, Fields
  <2>9. {x \in P2 : x.kind # "challenge"} = {x \in P : x.kind # "challenge"}
    BY <1>7, <2>5
  <2>10. /\ Single(Stored(D, scores)) /\ RowOf(Stored(D, scores), u, slug) = scores
         /\ Has(Stored(D, scores), u, slug)
         /\ \A v, other : ~(v = u /\ other = slug) =>
              /\ RowOf(Stored(D, scores), v, other) = RowOf(D, v, other)
              /\ Has(Stored(D, scores), v, other) <=> Has(D, v, other)
    <3>1. Single(D)
      BY ScoreRows
    <3> HIDE DEF D
    <3> QED BY <2>4, <3>1, StoredIs
  <2>11. \A x \in Stored(D, scores) : x \in RowsOf("entries")
    BY <2>4, ScoreRows DEF Stored
  <2>12. ASSUME NEW v \in Users, NEW other \in Slugs \cup Paths
         PROVE  RowsAgree(v, other)' /\ Solved(v, other)'
    <3>1. RowsAgree(v, other) /\ Solved(v, other)
      BY ScoreRows
    <3>2. Solved(v, other)'
      BY <2>8, <3>1 DEF Solved
    <3>3. CASE v = u /\ other = slug
      <4>1. /\ RowOf(Range(mem["entries"]), u, slug).attempts = old.attempts
            /\ RowOf(Range(mem["entries"]), u, slug).points = old.points
            /\ RowOf(Range(mem["entries"]), u, slug).solvedAt = old.solvedAt
        BY <3>1, <3>3 DEF RowsAgree
      <4>2. RowOf(db["entries"], u, slug)' = scores /\ Has(db["entries"], u, slug)'
        BY <2>2, <2>10
      <4>3. RowOf(Range(mem["entries"]), u, slug)' = RowOf(Range(mem["entries"]), u, slug)
        BY <2>8
      <4>4. <<u, slug>> \in Marked'
        BY <2>7
      <4>5. \E x \in Range(mem["progress"])' : x.kind = "challenge" /\ Told(x) = Told(scores)
        BY <1>2, <1>6, <2>4, <2>5
      <4>6. RowsAgree(u, slug)'
        BY <2>4, <4>1, <4>2, <4>3, <4>4, <4>5 DEF RowsAgree, Has
      <4> QED BY <3>2, <3>3, <4>6
    <3>4. CASE ~(v = u /\ other = slug)
      <4> DEFINE rec == RowOf(D, v, other)
      <4>1. rec.user = v /\ rec.slug = other
        BY RowOfIs
      <4>2. RowOf(db["entries"], v, other)' = rec
            /\ (Has(db["entries"], v, other)' <=> Has(D, v, other))
        BY <2>2, <2>10, <3>4
      <4>3. RowOf(Range(mem["entries"]), v, other)' = RowOf(Range(mem["entries"]), v, other)
        BY <2>8
      <4>4. (<<v, other>> \in Marked' <=> <<v, other>> \in Marked) /\ Tried' = Tried
        BY <2>7, <2>8, <3>4
      <4>5. ASSUME NEW x \in P, Told(x) = Told(rec) PROVE x \in Range(mem["progress"])'
        <5>1. x.user = v /\ x.slug = other
          BY <4>1, <4>5 DEF Told
        <5>2. x \in P2
          BY <3>4, <5>1
        <5> QED BY <1>2, <1>6, <5>2
      <4> HIDE DEF rec
      <4>6. /\ RowOf(Range(mem["entries"]), v, other).attempts = rec.attempts
            /\ RowOf(Range(mem["entries"]), v, other).points = rec.points
            /\ RowOf(Range(mem["entries"]), v, other).solvedAt = rec.solvedAt
            /\ <<v, other>> \notin Marked => rec = RowOf(Range(mem["entries"]), v, other)
            /\ <<v, other>> \in Marked \ Tried =>
                 \E x \in P : x.kind = "challenge" /\ Told(x) = Told(rec)
            /\ Has(D, v, other) <=> <<v, other>> \in Marked \cup Tried
        BY <3>1 DEF RowsAgree, rec, Has
      <4> HIDE DEF D, P
      <4>7. RowsAgree(v, other)'
        BY <4>2, <4>3, <4>4, <4>5, <4>6 DEF RowsAgree, Has
      <4> QED BY <3>2, <4>7
    <3> QED BY <3>3, <3>4
  <2>13. ScoresInv'
    <3>1. {x \in Range(mem["progress"])' : x.kind # "challenge"} = db'["progress"]
      BY <1>2, <1>6, <2>8, <2>9 DEF StoresInv, ScoresInv
    <3> QED BY <2>2, <2>10, <2>11, <2>12, <3>1 DEF ScoresInv, Single
  <2>14. mem'["byEmail"] = mem'["users"] /\ InOrder'
    BY <1>6 DEF StoresInv, InOrder, Fields
  <2> QED BY <1>4, <2>6, <2>13, <2>14 DEF StoresInv
<1>8. CASE kind # "challenge"
  <2> DEFINE table == {x \in db["progress"] : ~Same(x)} \cup {new}
  <2>1. db' = [db EXCEPT !["progress"] = table]
    BY <1>8 DEF Upsert, StoresInv, Alike, Fields
  <2>2. /\ db'["progress"] = table /\ DOMAIN db' = Fields
        /\ \A f \in Fields \ {"progress"} : db'[f] = db[f]
    BY <2>1 DEF StoresInv, Alike, Fields
  <2>3. new.kind # "challenge"
    BY <1>8
  <2>4. {x \in P2 : x.kind # "challenge"} = table
    <3>1. {x \in P : x.kind # "challenge"} = db["progress"]
      BY DEF StoresInv, ScoresInv
    <3> HIDE DEF P, new
    <3> QED BY <1>8, <2>3, <3>1
  <2>5. {x \in P2 : x.kind = "challenge"} = {x \in P : x.kind = "challenge"}
    <3> HIDE DEF P, new
    <3> QED BY <1>8, <2>3
  <2> HIDE DEF s2, new, table
  <2>6. Alike'
    BY <1>2, <1>6, <2>2 DEF StoresInv, Alike, Mirrored, Fields
  <2>7. /\ mem'["entries"] = mem["entries"] /\ db'["entries"] = db["entries"]
        /\ db'["events"] = db["events"] /\ Range(mem["progress"])' = P2
    BY <1>2, <1>6, <2>2 DEF Fields
  <2>8. Marked' = Marked /\ Tried' = Tried
    BY <2>5, <2>7 DEF Marked, Tried
  <2>9. ASSUME NEW v \in Users, NEW other \in Slugs \cup Paths
        PROVE  RowsAgree(v, other)' /\ Solved(v, other)'
    <3>1. RowsAgree(v, other) /\ Solved(v, other)
      BY ScoreRows
    <3>2. \A x : (x \in P2 /\ x.kind = "challenge") <=> (x \in P /\ x.kind = "challenge")
      BY <2>5
    <3> HIDE DEF P2
    <3> QED BY <2>7, <2>8, <3>1, <3>2 DEF RowsAgree, Solved
  <2>10. ScoresInv'
    <3> HIDE DEF P2
    <3> QED BY <2>2, <2>4, <2>7, <2>9 DEF ScoresInv, StoresInv
  <2>11. mem'["byEmail"] = mem'["users"] /\ InOrder'
    BY <1>6 DEF StoresInv, InOrder, Fields
  <2> QED BY <1>4, <2>6, <2>10, <2>11 DEF StoresInv
<1> QED BY <1>7, <1>8

(* What a read answers from the map and from the table.                    *)
LEMMA ListStep ==
  ASSUME StoresInv, NEW kind \in Kinds, NEW u \in Users, ListForUser(kind, u)
  PROVE  StoresInv'
<1> DEFINE s == mem["progress"]
           P == Range(s)
           D == db["entries"]
           chosen == {x \in P : x.kind = kind /\ x.user = u}
           I == {i \in 1 .. Len(s) : s[i].kind = kind /\ s[i].user = u}
           rows == IF kind = "challenge" THEN {x \in D : x.user = u}
                   ELSE {x \in db["progress"] : x.kind = kind /\ x.user = u}
           m == {Told(x) : x \in chosen}
           d == {Told(x) : x \in rows}
<1>1. Range(At(s, I)) = chosen
  <2>1. Mirrors("progress", s, P) /\ "progress" \in Fields
    BY UserFields DEF Fields
  <2>2. \A i \in 1 .. Len(s) : s[i] \in P
    <3> HIDE DEF s, P
    <3> QED BY <2>1, MirrorsIs
  <2>3. \A i \in 1 .. Len(s) : i \in I <=> s[i] \in chosen
    BY <2>2
  <2>4. I \in SUBSET (1 .. Len(s)) /\ P \cap chosen = chosen
    OBVIOUS
  <2> HIDE DEF s, P, I, chosen
  <2>5. Mirrors("progress", At(s, I), P \cap chosen)
    BY <2>1, <2>3, <2>4, ChosenRows
  <2> QED BY <2>4, <2>5 DEF Mirrors
<1>2. /\ answer' = [call |-> "listForUser", mem |-> {Told(x) : x \in Range(At(s, I))}, db |-> d]
      /\ Unchanged /\ family' = family
      /\ family = (IF kind = "challenge" THEN "challenges" ELSE "progress")
  BY DEF ListForUser, Answer, Filtered
<1>3. answer' = [call |-> "listForUser", mem |-> m, db |-> d]
  BY <1>1, <1>2
<1>4. CASE kind # "challenge"
  <2>1. {x \in P : x.kind # "challenge"} = db["progress"]
    BY DEF StoresInv, ScoresInv
  <2>2. chosen = rows
    <3> HIDE DEF P
    <3> QED BY <1>4, <2>1
  <2> HIDE DEF chosen, rows
  <2>3. AnswersAgree'
    BY <1>3, <2>2 DEF AnswersAgree
  <2> QED BY <1>2, <2>3, QuietField
<1>5. CASE kind = "challenge"
  <2> DEFINE KeyOf(x) == <<x.user, x.slug>>
  <2>1. \A x : KeyOf(Told(x)) = KeyOf(x)
    BY DEF Told
  <2>2. ASSUME NEW x \in chosen, KeyOf(x) \notin Tried PROVE Told(x) \in d
    <3>1. x \in P /\ x.kind = "challenge" /\ x.user = u
      BY <1>5
    <3>2. x.user \in Users /\ x.slug \in Paths
      BY <3>1, ScoreRows DEF RowsOf
    <3>3. KeyOf(x) \in Marked \ Tried
      BY <2>2, <3>1, MarkedIs
    <3>4. RowsAgree(x.user, x.slug)
      BY <3>2, ScoreRows
    <3> DEFINE rec == RowOf(D, x.user, x.slug)
    <3>5. PICK y \in P : y.kind = "challenge" /\ Told(y) = Told(rec)
      BY <3>3, <3>4 DEF RowsAgree
    <3>6. Has(D, x.user, x.slug)
      BY <3>3, <3>4 DEF RowsAgree, Has
    <3>7. rec \in D /\ rec.user = x.user /\ rec.slug = x.slug
      BY <3>6, RowOfIs
    <3> HIDE DEF rec
    <3>8. y.user = x.user /\ y.slug = x.slug
      BY <3>5, <3>7 DEF Told
    <3>9. y = x
      BY <3>1, <3>5, <3>8, ScoreRows DEF SameRow
    <3>10. rec \in rows
      BY <1>5, <3>1, <3>7
    <3> HIDE DEF rows
    <3> QED BY <3>5, <3>9, <3>10
  <2>3. ASSUME NEW y \in rows, KeyOf(y) \notin Tried PROVE Told(y) \in m
    <3>1. y \in D /\ y.user = u
      BY <1>5
    <3>2. y.user \in Users /\ y.slug \in Slugs \cup Paths
      BY <3>1, ScoreRows DEF RowsOf
    <3>3. RowOf(D, y.user, y.slug) = y /\ Has(D, y.user, y.slug)
      BY <3>1, ScoreRows, RowOfSingle
    <3>4. RowsAgree(y.user, y.slug)
      BY <3>2, ScoreRows
    <3>5. KeyOf(y) \in Marked \ Tried
      BY <2>3, <3>3, <3>4 DEF RowsAgree, Has
    <3>6. PICK x \in P : x.kind = "challenge" /\ Told(x) = Told(y)
      BY <3>3, <3>4, <3>5 DEF RowsAgree
    <3>7. x.user = u
      BY <3>1, <3>6 DEF Told
    <3>8. x \in chosen
      BY <1>5, <3>6, <3>7
    <3> HIDE DEF chosen
    <3> QED BY <3>6, <3>8
  <2>4. Except(Tried, m) = Except(Tried, d)
    <3>1. ASSUME NEW t \in Except(Tried, m) PROVE t \in Except(Tried, d)
      <4>1. PICK x \in chosen : t = Told(x)
        BY <3>1 DEF Except
      <4>2. KeyOf(x) \notin Tried
        BY <2>1, <3>1, <4>1 DEF Except
      <4> HIDE DEF chosen, rows
      <4>3. t \in d
        BY <2>2, <4>1, <4>2
      <4> QED BY <3>1, <4>3 DEF Except
    <3>2. ASSUME NEW t \in Except(Tried, d) PROVE t \in Except(Tried, m)
      <4>1. PICK y \in rows : t = Told(y)
        BY <3>2 DEF Except
      <4>2. KeyOf(y) \notin Tried
        BY <2>1, <3>2, <4>1 DEF Except
      <4> HIDE DEF chosen, rows
      <4>3. t \in m
        BY <2>3, <4>1, <4>2
      <4> QED BY <3>2, <4>3 DEF Except
    <3> QED BY <3>1, <3>2
  <2>5. Tried' = Tried /\ family' = "challenges"
    BY <1>2, <1>5 DEF Unchanged, Tried
  <2> HIDE DEF m, d
  <2>6. AnswersAgree'
    BY <1>3, <2>4, <2>5 DEF AnswersAgree, Except
  <2> QED BY <1>2, <2>6, QuietField
<1> QED BY <1>4, <1>5

LEMMA FindExpiredStep ==
  ASSUME StoresInv, NEW before \in Times, FindExpired(before)
  PROVE  StoresInv'
<1> DEFINE s == mem["environments"]
           T == db["environments"]
           chosen == {x \in T : x.status = "live" /\ x.expires <= before}
           I == {i \in 1 .. Len(s) : s[i].status = "live" /\ s[i].expires <= before}
<1>1. Mirrors("environments", s, T) /\ "environments" \in Fields
  BY UserFields DEF Fields
<1>2. \A i \in 1 .. Len(s) : s[i] \in T
  <2> HIDE DEF s, T
  <2> QED BY <1>1, MirrorsIs
<1>3. Range(At(s, I)) = chosen
  <2>1. \A i \in 1 .. Len(s) : i \in I <=> s[i] \in chosen
    BY <1>2
  <2>2. I \in SUBSET (1 .. Len(s)) /\ T \cap chosen = chosen
    OBVIOUS
  <2> HIDE DEF s, T, I, chosen
  <2>3. Mirrors("environments", At(s, I), T \cap chosen)
    BY <1>1, <2>1, <2>2, ChosenRows
  <2> QED BY <2>2, <2>3 DEF Mirrors
<1>4. answer' = [call |-> "findExpired", mem |-> Range(At(s, I)), db |-> chosen] /\ Unchanged
  BY DEF FindExpired, Answer, Filtered
<1>5. AnswersAgree'
  BY <1>3, <1>4 DEF AnswersAgree
<1> QED BY <1>4, <1>5, QuietField

(* As many challenges are solved in the map as in the table.               *)
LEMMA SolvedCount ==
  ASSUME StoresInv, NEW u \in Users
  PROVE  Cardinality({x \in Range(mem["entries"]) : x.user = u /\ x.solvedAt # 0})
           = Cardinality({x \in db["entries"] : x.user = u /\ x.solvedAt # 0})
<1> DEFINE E == Range(mem["entries"])
           D == db["entries"]
           S == {x \in E : x.user = u /\ x.solvedAt # 0}
           T == {x \in D : x.user = u /\ x.solvedAt # 0}
           f == [x \in S |-> RowOf(D, x.user, x.slug)]
<1>1. /\ Single(E) /\ Single(D) /\ IsFiniteSet(E)
      /\ \A x \in E : x.user \in Users /\ x.slug \in Slugs \cup Paths
      /\ \A x \in D : x.user \in Users /\ x.slug \in Slugs \cup Paths
      /\ \A v \in Users, slug \in Slugs \cup Paths :
           /\ RowOf(E, v, slug).solvedAt = RowOf(D, v, slug).solvedAt
           /\ Has(E, v, slug) => Has(D, v, slug)
  <2>1. \A x \in RowsOf("entries") : x.user \in Users /\ x.slug \in Slugs \cup Paths
    BY DEF RowsOf
  <2>2. ASSUME NEW v \in Users, NEW slug \in Slugs \cup Paths
        PROVE  /\ RowOf(E, v, slug).solvedAt = RowOf(D, v, slug).solvedAt
               /\ Has(E, v, slug) => Has(D, v, slug)
    <3>1. RowsAgree(v, slug) /\ (<<v, slug>> \in Tried <=> Has(E, v, slug))
      BY ScoreRows
    <3> QED BY <3>1 DEF RowsAgree, Has
  <2>3. /\ Single(E) /\ Single(D) /\ IsFiniteSet(E)
        /\ \A x \in E : x \in RowsOf("entries")
        /\ \A x \in D : x \in RowsOf("entries")
    BY ScoreRows
  <2> HIDE DEF E, D
  <2> QED BY <2>1, <2>2, <2>3
<1> HIDE DEF E, D
<1>2. ASSUME NEW x \in S PROVE f[x] \in T /\ f[x].user = x.user /\ f[x].slug = x.slug
  <2>1. x \in E /\ RowOf(E, x.user, x.slug) = x /\ Has(E, x.user, x.slug)
    BY <1>1, RowOfSingle
  <2>2. Has(D, x.user, x.slug) /\ RowOf(D, x.user, x.slug).solvedAt = x.solvedAt
    BY <1>1, <2>1
  <2>3. /\ RowOf(D, x.user, x.slug) \in D /\ RowOf(D, x.user, x.slug).user = x.user
        /\ RowOf(D, x.user, x.slug).slug = x.slug
    BY <2>2, RowOfIs
  <2>4. f[x] = RowOf(D, x.user, x.slug)
    OBVIOUS
  <2> QED BY <2>2, <2>3, <2>4
<1>3. ASSUME NEW y \in T PROVE \E x \in S : f[x] = y
  <2> DEFINE x == RowOf(E, y.user, y.slug)
  <2>1. y \in D /\ RowOf(D, y.user, y.slug) = y
    BY <1>1, RowOfSingle
  <2>2. x.solvedAt # 0 /\ x.solvedAt = y.solvedAt
    BY <1>1, <2>1
  <2>3. Fresh(y.user, y.slug).solvedAt = 0
    BY DEF Fresh
  <2>4. x \in E /\ x.user = y.user /\ x.slug = y.slug
    BY <2>2, <2>3, RowOfIs
  <2> HIDE DEF x
  <2>5. x \in S
    BY <2>2, <2>4
  <2>6. f[x] = y
    BY <2>1, <2>4, <2>5
  <2> QED BY <2>5, <2>6
<1>4. f \in Bijection(S, T)
  <2>1. f \in [S -> T]
    BY <1>2
  <2>2. \A x, y \in S : f[x] = f[y] => x = y
    <3> SUFFICES ASSUME NEW x \in S, NEW y \in S, f[x] = f[y] PROVE x = y
      OBVIOUS
    <3>1. x.user = y.user /\ x.slug = y.slug /\ x \in E /\ y \in E
      BY <1>2
    <3> QED BY <1>1, <3>1 DEF Single, SameRow
  <2> HIDE DEF f, S, T
  <2> QED BY <1>3, <2>1, <2>2 DEF Bijection, Injection, Surjection, IsInjective
<1>5. IsFiniteSet(S)
  BY <1>1, FS_Subset
<1>6. Cardinality(S) = Cardinality(T)
  <2> HIDE DEF f, S, T
  <2> QED BY <1>4, <1>5, FS_Bijection DEF ExistsBijection
<1> QED BY <1>6 DEF E, D

LEMMA SummaryStep ==
  ASSUME StoresInv, NEW u \in Users, GetUserSummary(u)
  PROVE  StoresInv'
<1> DEFINE s == mem["entries"]
           E == Range(s)
           D == db["entries"]
           chosen == {x \in E : x.user = u}
           rows == {x \in D : x.user = u}
           I == {i \in 1 .. Len(s) : s[i].user = u}
           Summary(r, events) ==
             [challenges |-> r, total |-> Points(events, u),
              solved |-> Cardinality({x \in r : x.solvedAt # 0})]
           m == Summary(chosen, Range(mem["events"]))
           d == Summary(rows, db["events"])
<1>1. Range(At(s, I)) = chosen
  <2>1. Mirrors("entries", s, E) /\ "entries" \in Fields
    BY UserFields DEF Fields
  <2>2. \A i \in 1 .. Len(s) : s[i] \in E
    <3> HIDE DEF s, E
    <3> QED BY <2>1, MirrorsIs
  <2>3. \A i \in 1 .. Len(s) : i \in I <=> s[i] \in chosen
    BY <2>2
  <2>4. I \in SUBSET (1 .. Len(s)) /\ E \cap chosen = chosen
    OBVIOUS
  <2> HIDE DEF s, E, I, chosen
  <2>5. Mirrors("entries", At(s, I), E \cap chosen)
    BY <2>1, <2>3, <2>4, ChosenRows
  <2> QED BY <2>4, <2>5 DEF Mirrors
<1>2. /\ answer' = [call |-> "getUserSummary",
                    mem |-> Summary(Range(At(s, I)), Range(mem["events"])), db |-> d]
      /\ Unchanged
  BY DEF GetUserSummary, Answer, Filtered
<1>3. answer' = [call |-> "getUserSummary", mem |-> m, db |-> d]
  <2> HIDE DEF s, I, chosen
  <2> QED BY <1>1, <1>2
<1>4. m.total = d.total
  BY ScoreRows
<1>5. m.solved = d.solved
  <2>1. /\ {x \in chosen : x.solvedAt # 0} = {x \in E : x.user = u /\ x.solvedAt # 0}
        /\ {x \in rows : x.solvedAt # 0} = {x \in D : x.user = u /\ x.solvedAt # 0}
    OBVIOUS
  <2>2. Cardinality({x \in E : x.user = u /\ x.solvedAt # 0})
          = Cardinality({x \in D : x.user = u /\ x.solvedAt # 0})
    BY SolvedCount
  <2> HIDE DEF chosen, rows, E, D
  <2> QED BY <2>1, <2>2
<1>6. Except(Marked, chosen) = Except(Marked, rows)
  <2>1. \A x \in RowsOf("entries") : x.user \in Users /\ x.slug \in Slugs \cup Paths
    BY DEF RowsOf
  <2>2. ASSUME NEW x \in chosen, <<x.user, x.slug>> \notin Marked PROVE x \in rows
    <3>1. x \in E /\ x.user \in Users /\ x.slug \in Slugs \cup Paths
      BY <2>1, ScoreRows
    <3>2. RowsAgree(x.user, x.slug) /\ <<x.user, x.slug>> \in Tried
          /\ RowOf(E, x.user, x.slug) = x
      BY <3>1, ScoreRows, RowOfSingle
    <3>3. RowOf(D, x.user, x.slug) = x /\ Has(D, x.user, x.slug)
      BY <2>2, <3>2 DEF RowsAgree, Has
    <3> QED BY <3>3, RowOfIs
  <2>3. ASSUME NEW y \in rows, <<y.user, y.slug>> \notin Marked PROVE y \in chosen
    <3>1. y \in D /\ y.user \in Users /\ y.slug \in Slugs \cup Paths
      BY <2>1, ScoreRows
    <3>2. /\ RowsAgree(y.user, y.slug) /\ RowOf(D, y.user, y.slug) = y
          /\ Has(D, y.user, y.slug)
      BY <3>1, ScoreRows, RowOfSingle
    <3>3. RowOf(E, y.user, y.slug) = y /\ <<y.user, y.slug>> \in Tried
      BY <2>3, <3>2 DEF RowsAgree, Has
    <3>4. Has(E, y.user, y.slug)
      BY <3>3, ScoreRows
    <3> QED BY <3>3, <3>4, RowOfIs
  <2> HIDE DEF chosen, rows
  <2> QED BY <2>2, <2>3 DEF Except
<1>7. m.challenges = chosen /\ d.challenges = rows
  OBVIOUS
<1>8. Marked' = Marked
  BY <1>2 DEF Unchanged, Marked
<1> HIDE DEF m, d, chosen, rows
<1>9. AnswersAgree'
  BY <1>3, <1>4, <1>5, <1>6, <1>7, <1>8 DEF AnswersAgree, Except
<1> QED BY <1>2, <1>9, QuietField

LEMMA PatchStep ==
  ASSUME StoresInv, NEW id \in Ids, NEW patch \in Patches, UpdateEnvironment(id, patch)
  PROVE  StoresInv'
<1> DEFINE s == mem["environments"]
           T == db["environments"]
           Patched(x) == [f \in DOMAIN x |-> IF f \in DOMAIN patch THEN patch[f] ELSE x[f]]
           Same(x) == x.id = id
           I == {i \in 1 .. Len(s) : s[i].id = id}
           g == [x \in T |-> IF Same(x) THEN Patched(x) ELSE x]
<1>1. /\ Mirrors("environments", s, T) /\ "environments" \in Fields
      /\ \A i \in 1 .. Len(s) : s[i] \in T
      /\ \A x \in T : x \in RowsOf("environments")
  BY UserFields, MirrorsIs DEF Fields
<1>2. CASE ~\E x \in T : x.id = id
  <2>1. I = {} /\ \A i \in 1 .. Len(s) : ~Same(s[i])
    BY <1>1, <1>2
  <2>2. Found(s, Same) = {}
    BY <2>1 DEF Found
  <2>3. answer' = [call |-> "update", mem |-> "null", db |-> "rejects"]
    BY <1>2, <2>2 DEF UpdateEnvironment, Answer
  <2>4. Rewritten(s, Same, Patched) = s /\ Updated(T, Same, Patched) = T
    <3>1. s = [i \in 1 .. Len(s) |-> s[i]]
      BY UserFields, MirrorsIs DEF Fields
    <3>2. Rewritten(s, Same, Patched) = [i \in 1 .. Len(s) |-> s[i]]
      BY <2>1 DEF Rewritten
    <3>3. Updated(T, Same, Patched) = T
      BY <1>2 DEF Updated
    <3> QED BY <3>1, <3>2, <3>3
  <2>5. /\ mem' = [mem EXCEPT !["environments"] = Rewritten(s, Same, Patched)]
        /\ db' = [db EXCEPT !["environments"] = Updated(T, Same, Patched)]
    BY DEF UpdateEnvironment, Change, StoresInv, Alike, Fields
  <2> HIDE DEF s, T
  <2>7. mem' = [mem EXCEPT !["environments"] = s] /\ db' = [db EXCEPT !["environments"] = T]
    BY <2>4, <2>5
  <2>6. AnswersAgree'
    BY <2>3 DEF AnswersAgree
  <2>8. Mirrors("environments", s, T) /\ Len(s) = Len(mem["environments"])
        /\ \A i \in 1 .. Len(mem["environments"]) : s[i].id = mem["environments"][i].id
    BY <1>1 DEF s
  <2> QED BY <2>6, <2>7, <2>8, OtherField
<1> SUFFICES ASSUME NEW x \in T, x.id = id PROVE StoresInv'
  BY <1>2
<1>3. s[Min(I)] = x /\ I # {} /\ \A y \in T : y.id = id => y = x
  <2>1. \A i \in 1 .. Len(s) : i \in I <=> SameRow("environments", s[i], x)
    BY DEF SameRow
  <2>2. I \in SUBSET (1 .. Len(s))
    OBVIOUS
  <2>3. \A y \in T : y.id = id <=> SameRow("environments", y, x)
    BY DEF SameRow
  <2> HIDE DEF s, T, I
  <2>4. s[Min(I)] = x /\ I # {} /\ \A y \in T : SameRow("environments", y, x) => y = x
    BY <1>1, <2>1, <2>2, PlaceIs
  <2> QED BY <2>3, <2>4
<1>4. Found(s, Same) = {Min(I)}
  BY <1>3 DEF Found, SelectInSeq
<1>5. AnswersAgree'
  <2> DEFINE i == CHOOSE j \in Found(s, Same) : TRUE
             y == CHOOSE z \in T : Same(z)
  <2>1. answer' = [call |-> "update", mem |-> Patched(s[i]), db |-> Patched(y)]
    BY <1>4 DEF UpdateEnvironment, Answer
  <2>2. i = Min(I)
    BY <1>4
  <2>3. y = x
    BY <1>3
  <2> HIDE DEF i, y, s, T, I
  <2>4. s[i] = y
    BY <1>3, <2>2, <2>3
  <2> HIDE DEF Patched
  <2>5. answer'.mem = answer'.db
    BY <2>1, <2>4
  <2> QED BY <2>5 DEF AnswersAgree
<1>6. \A y \in T : Patched(y) \in RowsOf("environments") /\ Patched(y).id = y.id
  <2> SUFFICES ASSUME NEW y \in T
               PROVE  Patched(y) \in RowsOf("environments") /\ Patched(y).id = y.id
    OBVIOUS
  <2>1. y \in [id : Ids, user : Users, status : {"live", "ended"}, expires : Times]
    BY <1>1 DEF RowsOf
  <2>2. CASE patch \in [status : {"live", "ended"}]
    <3>1. Patched(y) = [id |-> y.id, user |-> y.user, status |-> patch.status, expires |-> y.expires]
      BY <2>1, <2>2
    <3> QED BY <2>1, <2>2, <3>1 DEF RowsOf
  <2>3. CASE patch \in [expires : Times]
    <3>1. Patched(y) = [id |-> y.id, user |-> y.user, status |-> y.status, expires |-> patch.expires]
      BY <2>1, <2>3
    <3> QED BY <2>1, <2>3, <3>1 DEF RowsOf
  <2> QED BY <2>2, <2>3 DEF Patches
<1>7. /\ \A y \in T : g[y] \in RowsOf("environments") /\ g[y].id = y.id
      /\ \A y, z \in T : SameRow("environments", g[y], g[z]) => SameRow("environments", y, z)
  <2>1. \A y \in T : g[y] \in RowsOf("environments") /\ g[y].id = y.id
    BY <1>1, <1>6
  <2> HIDE DEF g, T
  <2> QED BY <2>1 DEF SameRow
<1>8. /\ [i \in 1 .. Len(s) |-> g[s[i]]] = Rewritten(s, Same, Patched)
      /\ {g[y] : y \in T} = Updated(T, Same, Patched)
  <2> HIDE DEF Patched, s, T
  <2> QED BY <1>1 DEF Rewritten, Updated
<1>9. /\ mem' = [mem EXCEPT !["environments"] = Rewritten(s, Same, Patched)]
      /\ db' = [db EXCEPT !["environments"] = Updated(T, Same, Patched)]
  BY DEF UpdateEnvironment, Change, StoresInv, Alike, Fields
<1> HIDE DEF g
<1>10. /\ mem' = [mem EXCEPT !["environments"] = [i \in 1 .. Len(s) |-> g[s[i]]]]
       /\ db' = [db EXCEPT !["environments"] = {g[y] : y \in T}]
  BY <1>8, <1>9
<1> QED BY <1>5, <1>7, <1>10, ChangedStep

(* In falling order what the map gives in rising order.                    *)
LEMMA ListByUserStep ==
  ASSUME StoresInv, NEW u \in Users, ListByUser(u)
  PROVE  StoresInv'
<1> DEFINE s == mem["environments"]
           chosen == {x \in db["environments"] : x.user = u}
           I == {i \in 1 .. Len(s) : s[i].user = u}
           q == At(s, I)
           n == Len(q)
<1>1. /\ Mirrors("environments", s, db["environments"]) /\ "environments" \in Fields
      /\ Len(s) \in Nat
      /\ \A i \in 1 .. Len(s) : s[i] \in db["environments"]
      /\ \A x \in db["environments"] : x \in RowsOf("environments")
  BY UserFields, MirrorsIs DEF Fields
<1>2. \A i \in 1 .. Len(s) : i \in I <=> s[i] \in chosen
  BY <1>1
<1>3. Mirrors("environments", q, chosen)
  <2>1. Mirrors("environments", At(s, I), db["environments"] \cap chosen)
    <3> DEFINE T == db["environments"]
    <3>1. I \in SUBSET (1 .. Len(s)) /\ Mirrors("environments", s, T)
      BY <1>1
    <3> HIDE DEF I, chosen, s, T
    <3>2. Mirrors("environments", At(s, I), T \cap chosen)
      BY <1>1, <1>2, <3>1, ChosenRows
    <3> QED BY <3>2 DEF T
  <2>2. db["environments"] \cap chosen = chosen
    OBVIOUS
  <2> QED BY <2>1, <2>2
<1>4. n \in Nat /\ q = [k \in 1 .. n |-> q[k]] /\ Range(q) = chosen
  <2> HIDE DEF q, chosen
  <2> QED BY <1>1, <1>3, MirrorsIs DEF Mirrors
<1>5. /\ \A k \in 1 .. n : q[k].id \in Int
      /\ \A k, l \in 1 .. n : k < l => q[k].id < q[l].id
  <2>1. PICK place \in [1 .. Cardinality(I) -> I] :
          /\ At(s, I) = [k \in 1 .. Cardinality(I) |-> s[place[k]]]
          /\ \A i \in I : \E k \in 1 .. Cardinality(I) : place[k] = i
          /\ \A k, l \in 1 .. Cardinality(I) : k < l => place[k] < place[l]
    <3>1. I \in SUBSET (1 .. Len(s))
      OBVIOUS
    <3> HIDE DEF I, s
    <3> QED BY <1>1, <3>1, AtIs
  <2>2. Cardinality(I) \in Nat
    BY <1>1, UpTo, FS_Subset, FS_CardinalityType
  <2>3. n = Cardinality(I) /\ \A k \in 1 .. n : q[k] = s[place[k]] /\ place[k] \in 1 .. Len(s)
    <3>1. \A k \in 1 .. Cardinality(I) : place[k] \in I
      BY <2>1
    <3>2. \A i \in I : i \in 1 .. Len(s)
      OBVIOUS
    <3>3. q = [k \in 1 .. Cardinality(I) |-> s[place[k]]]
      BY <2>1
    <3> HIDE DEF q, I, s
    <3>4. n = Cardinality(I)
      BY <2>2, <3>3
    <3> QED BY <3>1, <3>2, <3>3, <3>4
  <2>4. \A i, j \in 1 .. Len(s) : i < j => s[i].id < s[j].id
    BY DEF StoresInv, InOrder
  <2>5. \A i \in 1 .. Len(s) : s[i].id \in Int
    BY <1>1, StoresAssumption DEF RowsOf
  <2> HIDE DEF n, q, I, s
  <2>6. \A k \in 1 .. n : q[k].id \in Int
    BY <2>3, <2>5
  <2>7. ASSUME NEW k \in 1 .. n, NEW l \in 1 .. n, k < l PROVE q[k].id < q[l].id
    <3>1. place[k] < place[l]
      BY <2>1, <2>3, <2>7
    <3> QED BY <2>3, <2>4, <3>1
  <2> QED BY <2>6, <2>7
<1>6. q = Reverse(NewestFirst(chosen))
  <2> HIDE DEF q, n, chosen
  <2>1. q = Reverse(NewestFirst(Range(q)))
    BY <1>4, <1>5, NewestFirstIs
  <2> QED BY <1>4, <2>1
<1>7. /\ answer' = [call |-> "listByUser", mem |-> q, db |-> NewestFirst(chosen)] /\ Unchanged
      /\ family' = "environments"
  BY DEF ListByUser, Answer, Filtered
<1> HIDE DEF q, chosen
<1>8. AnswersAgree'
  BY <1>6, <1>7 DEF AnswersAgree
<1> QED BY <1>7, <1>8, QuietField

-----------------------------------------------------------------------------
(* A submission.  Both implementations award alike: the first solve is not *)
(* in the ledger of either.                                                *)
Counted(x) == [x EXCEPT !.attempts = @ + 1]

LEMMA SolvedAlike ==
  ASSUME NEW x \in RowsOf("entries"), NEW y \in RowsOf("entries"), NEW at \in Times,
         x.attempts = y.attempts, x.points = y.points, x.solvedAt = y.solvedAt,
         x.user = y.user, x.slug = y.slug,
         NEW known \in BOOLEAN, x.solvedAt # 0 <=> known
  PROVE  LET a == SolvedInMemory(x, at, known)
             b == SolvedInTable(y, at, known) IN
         /\ a \in RowsOf("entries") /\ b \in RowsOf("entries")
         /\ a.attempts = b.attempts /\ a.points = b.points /\ a.solvedAt = b.solvedAt
         /\ a.user = x.user /\ a.slug = x.slug /\ b.user = x.user /\ b.slug = x.slug
         /\ a.solvedAt # 0
         /\ x = y => a = b
<1>1. at # 0 /\ at \in Times
  BY StoresAssumption
<1>2. CASE x.solvedAt # 0
  BY <1>2 DEF SolvedInMemory, SolvedInTable
<1>3. CASE x.solvedAt = 0
  <2>1. /\ SolvedInMemory(x, at, known) = Awarded(x, at)
        /\ SolvedInTable(y, at, known) = Awarded(y, at)
    BY <1>3 DEF SolvedInMemory, SolvedInTable
  <2>2. \A z \in RowsOf("entries") :
          /\ Awarded(z, at) \in RowsOf("entries")
          /\ Awarded(z, at).attempts = z.attempts /\ Awarded(z, at).points = Worth
          /\ Awarded(z, at).solvedAt = at
          /\ Awarded(z, at).user = z.user /\ Awarded(z, at).slug = z.slug
    BY <1>1 DEF Awarded, RowsOf, Statuses
  <2> QED BY <1>1, <2>1, <2>2
<1> QED BY <1>2, <1>3

LEMMA RecordStep ==
  ASSUME StoresInv, NEW u \in Users, NEW slug \in Slugs, NEW correct \in BOOLEAN,
         NEW at \in Times, RecordSubmission(u, slug, correct, at)
  PROVE  StoresInv'
<1> DEFINE Same(x) == x.user = u /\ x.slug = slug
           key == <<u, slug>>
           s == mem["entries"]
           E == Range(s)
           D == db["entries"]
           x == RowOf(E, u, slug)
           y == RowOf(D, u, slug)
           entry == Counted(x)
           rec == Counted(y)
           known == key \in Range(mem["events"])
           has == key \in db["events"]
           entry2 == IF correct THEN SolvedInMemory(entry, at, known) ELSE entry
           row2 == IF correct THEN SolvedInTable(rec, at, has) ELSE rec
           log == IF correct /\ entry.solvedAt = 0 /\ ~known
                  THEN Append(mem["events"], key) ELSE mem["events"]
           ledger == IF correct /\ rec.solvedAt = 0 THEN db["events"] \cup {key}
                                                    ELSE db["events"]
           news == correct /\ x.solvedAt = 0
           own == {z \in E : Same(z)}
           s2 == PutAt(s, own, entry2)
           D2 == Stored(D, row2)
<1>1. /\ \A f \in Fields : f \in DOMAIN mem /\ f \in DOMAIN db
      /\ mem' = [mem EXCEPT !["events"] = log, !["entries"] = Put(@, Same, entry2)]
      /\ db' = [db EXCEPT !["events"] = ledger, !["entries"] = Stored(@, row2)]
      /\ answer' = [call |-> "recordSubmission",
                    mem |-> Outcome(entry2, correct, entry.solvedAt # 0 \/ known, Range(log)),
                    db |-> Outcome(row2, correct, rec.solvedAt # 0 \/ has, ledger)]
  BY DEF RecordSubmission, Answer, Counted, StoresInv, Alike
<1>2. RowsAgree(u, slug) /\ Solved(u, slug) /\ known = has
  BY ScoreRows
<1>3. /\ x.user = u /\ x.slug = slug /\ y.user = u /\ y.slug = slug
      /\ x \in RowsOf("entries") /\ y \in RowsOf("entries")
  <2>1. Fresh(u, slug) \in RowsOf("entries")
    BY DEF Fresh, RowsOf, Statuses
  <2>2. ASSUME NEW rows, \A z \in rows : z \in RowsOf("entries")
        PROVE  /\ RowOf(rows, u, slug).user = u /\ RowOf(rows, u, slug).slug = slug
               /\ RowOf(rows, u, slug) \in RowsOf("entries")
    BY <2>1, <2>2, RowOfIs
  <2>3. (\A z \in E : z \in RowsOf("entries")) /\ \A z \in D : z \in RowsOf("entries")
    BY ScoreRows
  <2> HIDE DEF E, D
  <2> QED BY <2>2, <2>3
<1>4. /\ x.attempts = y.attempts /\ x.points = y.points /\ x.solvedAt = y.solvedAt
      /\ key \notin Marked => x = y
      /\ x.solvedAt # 0 <=> has
  BY <1>2 DEF RowsAgree, Solved
<1> HIDE DEF x, y, known, has
<1>5. /\ entry \in RowsOf("entries") /\ rec \in RowsOf("entries")
      /\ entry.attempts = rec.attempts /\ entry.points = rec.points
      /\ entry.solvedAt = x.solvedAt /\ rec.solvedAt = y.solvedAt
      /\ entry.user = u /\ entry.slug = slug /\ rec.user = u /\ rec.slug = slug
      /\ x = y => entry = rec
  BY <1>3, <1>4 DEF RowsOf, Counted
<1>6. /\ entry2 \in RowsOf("entries") /\ row2 \in RowsOf("entries")
      /\ entry2.attempts = row2.attempts /\ entry2.points = row2.points
      /\ entry2.solvedAt = row2.solvedAt
      /\ entry2.user = u /\ entry2.slug = slug /\ row2.user = u /\ row2.slug = slug
      /\ entry2.solvedAt # 0 <=> (has \/ news)
      /\ key \notin Marked => entry2 = row2
  <2>1. CASE ~correct
    BY <1>4, <1>5, <2>1
  <2>2. CASE correct
    <3> HIDE DEF entry, rec
    <3>1. has \in BOOLEAN /\ (entry.solvedAt # 0 <=> has)
      BY <1>4, <1>5 DEF has
    <3> DEFINE a == SolvedInMemory(entry, at, has)
               b == SolvedInTable(rec, at, has)
    <3>2. /\ a \in RowsOf("entries") /\ b \in RowsOf("entries")
          /\ a.attempts = b.attempts /\ a.points = b.points /\ a.solvedAt = b.solvedAt
          /\ a.user = u /\ a.slug = slug /\ b.user = u /\ b.slug = slug
          /\ a.solvedAt # 0
          /\ entry = rec => a = b
      BY <1>4, <1>5, <3>1, SolvedAlike
    <3>3. entry2 = a /\ row2 = b
      BY <1>2, <2>2
    <3>4. has \/ news
      BY <1>4, <2>2
    <3> HIDE DEF a, b, entry2, row2
    <3> QED BY <1>4, <1>5, <3>2, <3>3, <3>4
  <2> QED BY <2>1, <2>2
<1>7. /\ log = IF news THEN Append(mem["events"], key) ELSE mem["events"]
      /\ ledger = IF news THEN db["events"] \cup {key} ELSE db["events"]
      /\ news => ~has
      /\ (entry.solvedAt # 0 \/ known) <=> (rec.solvedAt # 0 \/ has)
  <2> HIDE DEF entry, rec
  <2> QED BY <1>2, <1>4, <1>5
<1>8. Mirrors("events", log, ledger)
  <2>1. Mirrors("events", mem["events"], db["events"]) /\ "events" \in Fields
    BY UserFields DEF Fields
  <2>2. CASE news
    <3>1. key \in RowsOf("events")
      BY DEF RowsOf
    <3>2. \A e \in db["events"] : ~SameRow("events", e, key) /\ ~SameRow("events", key, e)
      BY <1>7, <2>2 DEF SameRow, has
    <3> DEFINE s0 == mem["events"]
               T0 == db["events"]
    <3>3. Mirrors("events", s0, T0) /\ \A e \in T0 : ~SameRow("events", e, key) /\ ~SameRow("events", key, e)
      BY <2>1, <3>2
    <3> HIDE DEF s0, T0, key, log, ledger
    <3>4. Mirrors("events", Append(s0, key), T0 \cup {key})
      BY <2>1, <3>1, <3>3, MirrorsAppend
    <3>5. log = Append(s0, key) /\ ledger = T0 \cup {key}
      BY <1>7, <2>2 DEF s0, T0
    <3> QED BY <3>4, <3>5
  <2>3. CASE ~news
    <3> HIDE DEF log, ledger
    <3> QED BY <1>7, <2>1, <2>3
  <2> QED BY <2>2, <2>3
<1>9. Range(log) = ledger
  BY <1>8 DEF Mirrors
<1>10. Mirrors("entries", s2, (E \ own) \cup {entry2}) /\ Range(s2) = Stored(E, entry2)
  <2>1. own = {z \in E : SameRow("entries", z, entry2)}
    BY <1>6 DEF SameRow
  <2>2. Mirrors("entries", s, E) /\ "entries" \in Fields
    BY UserFields DEF Fields
  <2>3. (E \ own) \cup {entry2} = Stored(E, entry2)
    BY <1>6 DEF Stored
  <2> HIDE DEF s, E, own, entry2
  <2>4. Mirrors("entries", PutAt(s, own, entry2), (E \ own) \cup {entry2})
    BY <1>6, <2>1, <2>2, PutRows
  <2> QED BY <2>3, <2>4 DEF Mirrors
<1>11. s2 = Put(s, Same, entry2)
  <2>1. Mirrors("entries", s, E) /\ "entries" \in Fields
    BY UserFields DEF Fields
  <2>2. \A i \in 1 .. Len(s) : s[i] \in E
    <3> HIDE DEF s, E
    <3> QED BY <2>1, MirrorsIs
  <2>3. \A i \in 1 .. Len(s) : s[i] \in own <=> Same(s[i])
    <3> HIDE DEF s, E
    <3> QED BY <2>2
  <2> HIDE DEF own, s, Same, entry2
  <2> QED BY <2>3 DEF PutAt, Put, Rewritten
<1> HIDE DEF entry, rec, entry2, row2, log, ledger, news, own
<1>12. /\ mem'["entries"] = s2 /\ mem'["events"] = log
       /\ db'["entries"] = D2 /\ db'["events"] = ledger
       /\ \A f \in Fields \ {"entries", "events"} : mem'[f] = mem[f] /\ db'[f] = db[f]
       /\ DOMAIN mem' = Fields /\ DOMAIN db' = Fields
  <2>1. /\ mem' = [mem EXCEPT !["events"] = log, !["entries"] = s2]
        /\ db' = [db EXCEPT !["events"] = ledger, !["entries"] = D2]
    BY <1>1, <1>11 DEF Fields
  <2> HIDE DEF s2, D2
  <2> QED BY <2>1 DEF StoresInv, Alike, Fields
<1>13. Alike'
  <2>1. Mirrors("entries", s2, Range(s2))
    BY <1>10 DEF Mirrors
  <2>2. mem'["progress"] = mem["progress"]
    BY <1>12 DEF Fields
  <2> HIDE DEF s2, D2
  <2> QED BY <1>8, <1>12, <2>1, <2>2 DEF StoresInv, Alike, Mirrored, Fields
<1>14. Marked' = Marked /\ Range(mem["progress"])' = Range(mem["progress"])
       /\ db'["progress"] = db["progress"]
  BY <1>12 DEF Marked, Fields
<1>15. AnswersAgree'
  <2> DEFINE m == Outcome(entry2, correct, entry.solvedAt # 0 \/ known, Range(log))
             d == Outcome(row2, correct, rec.solvedAt # 0 \/ has, ledger)
  <2>1. answer' = [call |-> "recordSubmission", mem |-> m, db |-> d]
    BY <1>1
  <2>2. CASE key \notin Marked
    <3>1. m = d
      BY <1>6, <1>7, <1>9, <2>2
    <3> HIDE DEF m, d
    <3> QED BY <2>1, <3>1 DEF AnswersAgree
  <2>3. CASE key \in Marked
    <3>1. m.of = key
      BY <1>6 DEF Outcome
    <3>2. m = [d EXCEPT !.completedAt = m.completedAt]
      <4>1. \A solved, events :
              Outcome(entry2, correct, solved, events)
                = [Outcome(row2, correct, solved, events)
                     EXCEPT !.completedAt = entry2.completedAt]
        BY <1>6 DEF Outcome
      <4>2. m.completedAt = entry2.completedAt
        BY DEF Outcome
      <4>3. d = Outcome(row2, correct, entry.solvedAt # 0 \/ known, Range(log))
        BY <1>7, <1>9
      <4> HIDE DEF d
      <4> QED BY <4>1, <4>2, <4>3
    <3> HIDE DEF m, d, key
    <3> QED BY <1>14, <2>1, <2>3, <3>1, <3>2 DEF AnswersAgree
  <2> QED BY <2>2, <2>3
<1>16. /\ Single(Stored(E, entry2)) /\ RowOf(Stored(E, entry2), u, slug) = entry2
       /\ Has(Stored(E, entry2), u, slug)
       /\ \A v, other : ~(v = u /\ other = slug) =>
            /\ RowOf(Stored(E, entry2), v, other) = RowOf(E, v, other)
            /\ Has(Stored(E, entry2), v, other) <=> Has(E, v, other)
  <2>1. Single(E)
    BY ScoreRows
  <2> HIDE DEF E
  <2> QED BY <1>6, <2>1, StoredIs
<1>17. /\ Single(D2) /\ RowOf(D2, u, slug) = row2 /\ Has(D2, u, slug)
       /\ \A v, other : ~(v = u /\ other = slug) =>
            /\ RowOf(D2, v, other) = RowOf(D, v, other)
            /\ Has(D2, v, other) <=> Has(D, v, other)
  <2>1. Single(D)
    BY ScoreRows
  <2> HIDE DEF D
  <2> QED BY <1>6, <2>1, StoredIs
<1>18. \A z \in D2 : z \in RowsOf("entries")
  BY <1>6, ScoreRows DEF Stored
<1>19. /\ Range(mem["entries"])' = Stored(E, entry2) /\ db["entries"]' = D2 /\ db["events"]' = ledger
  BY <1>10, <1>12
<1>20. \A v, other : <<v, other>> \in Tried' <=> Has(Stored(E, entry2), v, other)
  BY <1>19 DEF Tried, Has
<1> HIDE DEF s2, D2
<1>21. ASSUME NEW v \in Users, NEW other \in Slugs \cup Paths
       PROVE  RowsAgree(v, other)' /\ Solved(v, other)'
  <2>1. CASE v = u /\ other = slug
    <3>1. key \in Tried'
      BY <1>16, <1>20
    <3>2. RowOf(Range(mem["entries"]), u, slug)' = entry2 /\ RowOf(db["entries"], u, slug)' = row2
          /\ Has(db["entries"], u, slug)'
      BY <1>16, <1>17, <1>19
    <3>3. key \in ledger <=> has \/ news
      BY <1>7 DEF has
    <3>4. RowsAgree(u, slug)'
      BY <1>6, <1>14, <3>1, <3>2 DEF RowsAgree, Has
    <3>5. Solved(u, slug)'
      BY <1>6, <1>19, <3>2, <3>3 DEF Solved
    <3> QED BY <2>1, <3>4, <3>5
  <2>2. CASE ~(v = u /\ other = slug)
    <3>1. RowsAgree(v, other) /\ Solved(v, other) /\ (<<v, other>> \in Tried <=> Has(E, v, other))
      BY ScoreRows
    <3>2. /\ RowOf(Range(mem["entries"]), v, other)' = RowOf(E, v, other)
          /\ RowOf(db["entries"], v, other)' = RowOf(D, v, other)
          /\ Has(db["entries"], v, other)' <=> Has(D, v, other)
      BY <1>16, <1>17, <1>19, <2>2
    <3>3. <<v, other>> \in Tried' <=> <<v, other>> \in Tried
      BY <1>16, <1>20, <2>2, <3>1
    <3>4. <<v, other>> \in ledger <=> <<v, other>> \in db["events"]
      BY <1>7, <2>2
    <3>5. Solved(v, other)'
      BY <1>19, <3>1, <3>2, <3>4 DEF Solved
    <3>6. RowsAgree(v, other)'
      BY <1>14, <3>1, <3>2, <3>3 DEF RowsAgree, Has
    <3> QED BY <3>5, <3>6
  <2> QED BY <2>1, <2>2
<1>22. ScoresInv'
  BY <1>14, <1>17, <1>18, <1>19, <1>21 DEF ScoresInv, StoresInv, Single
<1>23. mem'["byEmail"] = mem'["users"] /\ InOrder'
  BY <1>12 DEF StoresInv, InOrder, Fields
<1> QED BY <1>13, <1>15, <1>22, <1>23 DEF StoresInv

LEMMA StoresInductive == StoresInv /\ [StoresNext]_storeVars => StoresInv'
<1> SUFFICES ASSUME StoresInv, [StoresNext]_storeVars PROVE StoresInv'
  OBVIOUS
<1>1. ASSUME NEW u \in Users, CreateUser(u) \/ FindUser(u) \/ GetUserSummary(u) \/ ListByUser(u)
      PROVE  StoresInv'
  BY <1>1, CreateUserStep, FindUserStep, SummaryStep, ListByUserStep
<1>2. ASSUME NEW id \in Ids, NEW u \in Users, NEW at \in Times,
             CreateSession(id, u, at) \/ CreateEnvironment(id, u, at)
      PROVE  StoresInv'
  BY <1>2, CreateStep
<1>3. ASSUME NEW id \in Ids, FindByTokenHash(id) \/ FindEnvironment(id) PROVE StoresInv'
  BY <1>3, FindStep
<1>4. ASSUME NEW id \in Ids, NEW at \in Times, TouchLastSeen(id, at) \/ Revoke(id, at)
      PROVE  StoresInv'
  BY <1>4, TouchStep
<1>5. ASSUME NEW u \in Users, NEW at \in Times, RevokeAllForUser(u, at) PROVE StoresInv'
  BY <1>5, RevokeAllStep
<1>6. ASSUME NEW at \in Times, DeleteExpired(at) \/ FindExpired(at) PROVE StoresInv'
  BY <1>6, DeleteStep, FindExpiredStep
<1>7. ASSUME NEW kind \in Kinds, NEW u \in Users, NEW slug \in Paths, NEW mark \in Marks,
             Upsert(kind, u, slug, mark)
      PROVE  StoresInv'
  BY <1>7, UpsertStep
<1>8. ASSUME NEW kind \in Kinds, NEW u \in Users, ListForUser(kind, u) PROVE StoresInv'
  BY <1>8, ListStep
<1>9. ASSUME NEW u \in Users, NEW slug \in Slugs, NEW correct \in BOOLEAN, NEW at \in Times,
             RecordSubmission(u, slug, correct, at)
      PROVE  StoresInv'
  BY <1>9, RecordStep
<1>10. ASSUME NEW id \in Ids, NEW patch \in Patches, UpdateEnvironment(id, patch) PROVE StoresInv'
  BY <1>10, PatchStep
<1>11. CASE UNCHANGED storeVars
  <2>1. Unchanged /\ answer' = answer /\ family' = family
    BY <1>11 DEF storeVars, Unchanged
  <2>2. AnswersAgree'
    BY <2>1 DEF AnswersAgree, Unchanged, Marked, Tried, StoresInv, Except
  <2> QED BY <2>1, <2>2, QuietField
<1> QED BY <1>1, <1>2, <1>3, <1>4, <1>5, <1>6, <1>7, <1>8, <1>9, <1>10, <1>11 DEF StoresNext

(* StoresAgree: for any users, challenges, marks and sequence of calls,    *)
(* memory.ts holds what the tables hold and answers what prisma.ts         *)
(* answers, but for the exceptions that AnswersAgree names: the order of   *)
(* environments, updates of rows that are gone, and what is read of a      *)
(* challenge that has progress in memory.ts apart from its scores.         *)
THEOREM StoresStayAlike == StoresSpec => []StoresAgree
BY InitStores, StoresInductive, StoresYieldAgreement, PTL DEF StoresSpec

-----------------------------------------------------------------------------
(* The lists and the links of the Lab, for any content.                    *)
(* Sequences, by their places.                                             *)
Listing(s) == Len(s) \in Nat /\ DOMAIN s = 1 .. Len(s)

LEMMA SeqIsListing ==
  ASSUME NEW S, NEW s \in Seq(S)
  PROVE  Listing(s) /\ \A i \in DOMAIN s : s[i] \in S
BY DEF Listing

(* x is one of the elements of s.                                          *)
LEMMA ElementsAre == \A s, x : x \in ToSet(s) <=> \E i \in DOMAIN s : s[i] = x
BY DEF ToSet

(* Two elements come one after the other: from places in that order.       *)
Follow(x, y, s, I, order) ==
  \E i, j \in I : x = s[i] /\ y = s[j] /\ i # j /\ <<i, j>> \in order

Before(x, y, s, I) == \E i, j \in I : x = s[i] /\ y = s[j] /\ i < j

(* What is arranged is all there is at the places, in their order.         *)
LEMMA ArrangedElements ==
  ASSUME NEW s, Listing(s), NEW I \in SUBSET DOMAIN s, NEW order, Orders(order, I),
         NEW t, t = Arranged(s, I, order)
  PROVE  /\ Listing(t) /\ Len(t) = Cardinality(I)
         /\ \A k \in DOMAIN t : \E i \in I : t[k] = s[i]
         /\ \A i \in I : \E k \in DOMAIN t : t[k] = s[i]
         /\ \A k, l \in DOMAIN t : k < l => Follow(t[k], t[l], s, I, order)
<1>1. IsFiniteSet(I) /\ Cardinality(I) \in Nat
  <2>1. IsFiniteSet(1 .. Len(s)) /\ I \in SUBSET (1 .. Len(s))
    BY UpTo DEF Listing
  <2> QED BY <2>1, FS_Subset, FS_CardinalityType
<1>2. PICK place \in [1 .. Cardinality(I) -> I] :
        /\ Arranged(s, I, order) = [k \in 1 .. Cardinality(I) |-> s[place[k]]]
        /\ \A i \in I : \E k \in 1 .. Cardinality(I) : place[k] = i
        /\ \A k, l \in 1 .. Cardinality(I) :
             k < l => place[k] # place[l] /\ <<place[k], place[l]>> \in order
  BY <1>1, ArrangedIs
<1>3. t = [k \in 1 .. Cardinality(I) |-> s[place[k]]]
  BY <1>2
<1>4. Len(t) = Cardinality(I) /\ DOMAIN t = 1 .. Cardinality(I)
  BY <1>1, <1>3
<1>5. \A k \in DOMAIN t : place[k] \in I /\ t[k] = s[place[k]]
  BY <1>2, <1>3, <1>4
<1>6. \A k, l \in DOMAIN t : k < l => place[k] # place[l] /\ <<place[k], place[l]>> \in order
  BY <1>2, <1>4
<1>7. \A i \in I : \E k \in DOMAIN t : place[k] = i
  BY <1>2, <1>4
<1>8. ASSUME NEW k \in DOMAIN t, NEW l \in DOMAIN t, k < l
      PROVE  Follow(t[k], t[l], s, I, order)
  BY <1>5, <1>6, <1>8 DEF Follow
<1> QED BY <1>1, <1>4, <1>5, <1>7, <1>8 DEF Listing

LEMMA AtElements ==
  ASSUME NEW s, Listing(s), NEW I \in SUBSET DOMAIN s, NEW t, t = At(s, I)
  PROVE  /\ Listing(t) /\ Len(t) = Cardinality(I)
         /\ \A k \in DOMAIN t : \E i \in I : t[k] = s[i]
         /\ \A i \in I : \E k \in DOMAIN t : t[k] = s[i]
         /\ \A k, l \in DOMAIN t : k < l => Before(t[k], t[l], s, I)
<1>1. \A i \in I : i \in Int
  BY DEF Listing
<1>2. PICK order : order = Ascending(I)
  OBVIOUS
<1>3. Orders(order, I)
  BY <1>1, <1>2 DEF Orders, Ascending
<1>4. t = Arranged(s, I, order)
  BY <1>2 DEF At
<1>5. /\ Listing(t) /\ Len(t) = Cardinality(I)
      /\ \A k \in DOMAIN t : \E i \in I : t[k] = s[i]
      /\ \A i \in I : \E k \in DOMAIN t : t[k] = s[i]
      /\ \A k, l \in DOMAIN t : k < l => Follow(t[k], t[l], s, I, order)
  BY <1>3, <1>4, ArrangedElements
<1>6. \A i, j \in I : i # j /\ <<i, j>> \in order => i < j
  BY <1>1, <1>2 DEF Ascending
<1>7. ASSUME NEW k \in DOMAIN t, NEW l \in DOMAIN t, k < l
      PROVE  Before(t[k], t[l], s, I)
  <2>1. Follow(t[k], t[l], s, I, order)
    BY <1>5, <1>7
  <2>2. PICK i \in I, j \in I : t[k] = s[i] /\ t[l] = s[j] /\ i # j /\ <<i, j>> \in order
    BY <2>1 DEF Follow
  <2> QED BY <1>6, <2>2 DEF Before
<1> QED BY <1>5, <1>7

(* A stable order by a number.                                             *)
Stably(order, n, key) ==
  \A i, j \in 1 .. n :
    <<i, j>> \in order <=> key[i] < key[j] \/ (i <= j /\ ~(key[j] < key[i]))

LEMMA KeysOrder ==
  ASSUME NEW n \in Nat, NEW key \in [1 .. n -> Int], NEW order, Stably(order, n, key)
  PROVE  Orders(order, 1 .. n)
<1> DEFINE I == 1 .. n
<1>1. \A i, j \in I : <<i, j>> \in order <=> key[i] < key[j] \/ (i <= j /\ ~(key[j] < key[i]))
  BY DEF Stably
<1>2. \A i \in I : key[i] \in Int /\ i \in Int
  OBVIOUS
<1> HIDE DEF I
<1>3. \A i \in I : <<i, i>> \in order
  BY <1>1, <1>2
<1>4. ASSUME NEW i \in I, NEW j \in I PROVE <<i, j>> \in order \/ <<j, i>> \in order
  <2>1. \/ key[i] < key[j] \/ (i <= j /\ ~(key[j] < key[i]))
        \/ key[j] < key[i] \/ (j <= i /\ ~(key[i] < key[j]))
    BY <1>2
  <2> QED BY <1>1, <2>1
<1>5. ASSUME NEW i \in I, NEW j \in I, <<i, j>> \in order, <<j, i>> \in order PROVE i = j
  <2>1. /\ key[i] < key[j] \/ (i <= j /\ ~(key[j] < key[i]))
        /\ key[j] < key[i] \/ (j <= i /\ ~(key[i] < key[j]))
    BY <1>1, <1>5
  <2> QED BY <1>2, <2>1
<1>6. ASSUME NEW i \in I, NEW j \in I, NEW k \in I, <<i, j>> \in order, <<j, k>> \in order
      PROVE  <<i, k>> \in order
  <2>1. key[i] < key[j] \/ (i <= j /\ ~(key[j] < key[i]))
    BY <1>1, <1>6
  <2>2. key[j] < key[k] \/ (j <= k /\ ~(key[k] < key[j]))
    BY <1>1, <1>6
  <2>3. key[i] < key[k] \/ (i <= k /\ ~(key[k] < key[i]))
    BY <1>2, <2>1, <2>2
  <2> QED BY <1>1, <2>3
<1> QED BY <1>3, <1>4, <1>5, <1>6 DEF Orders, I

(* Ascending orders.                                                       *)
Ascends(s) == \A k, l \in DOMAIN s : k < l => s[k].order <= s[l].order

LEMMA ByOrderIs ==
  ASSUME NEW s, Listing(s), \A i \in DOMAIN s : s[i].order \in Nat, NEW t, t = ByOrder(s)
  PROVE  /\ Listing(t) /\ Ascends(t)
         /\ \A x : x \in ToSet(t) <=> x \in ToSet(s)
<1> DEFINE n == Len(s)
           key == [i \in 1 .. n |-> s[i].order]
<1>1. n \in Nat /\ DOMAIN s = 1 .. n
  BY DEF Listing
<1>2. key \in [1 .. n -> Int]
  BY <1>1
<1> DEFINE I == 1 .. n
           order == {p \in I \X I : \/ s[p[1]].order < s[p[2]].order
                                    \/ p[1] <= p[2] /\ ~(s[p[2]].order < s[p[1]].order)}
<1>3. t = Arranged(s, I, order)
  BY DEF ByOrder, Sorted
<1>4. Stably(order, n, key)
  BY DEF Stably
<1> HIDE DEF key, n, order
<1>5. Orders(order, I) /\ I \in SUBSET DOMAIN s
  BY <1>1, <1>2, <1>4, KeysOrder
<1> HIDE DEF I
<1>6. /\ Listing(t)
      /\ \A k \in DOMAIN t : \E i \in I : t[k] = s[i]
      /\ \A i \in I : \E k \in DOMAIN t : t[k] = s[i]
      /\ \A k, l \in DOMAIN t : k < l => Follow(t[k], t[l], s, I, order)
  BY <1>3, <1>5, ArrangedElements
<1>7. Ascends(t)
  <2> SUFFICES ASSUME NEW k \in DOMAIN t, NEW l \in DOMAIN t, k < l
               PROVE  t[k].order <= t[l].order
    BY DEF Ascends
  <2>0. Follow(t[k], t[l], s, I, order)
    BY <1>6
  <2>1. PICK i \in I, j \in I : t[k] = s[i] /\ t[l] = s[j] /\ <<i, j>> \in order
    BY <2>0 DEF Follow
  <2>2. key[i] < key[j] \/ ~(key[j] < key[i])
    BY <1>4, <2>1 DEF Stably, I
  <2>3. key[i] = s[i].order /\ key[j] = s[j].order /\ key[i] \in Int /\ key[j] \in Int
    BY <1>2 DEF key, I
  <2> QED BY <2>1, <2>2, <2>3
<1>8. \A x : x \in ToSet(t) <=> x \in ToSet(s)
  BY <1>1, <1>6, ElementsAre DEF I
<1> QED BY <1>6, <1>7, <1>8

LEMMA FilterAscends ==
  ASSUME NEW s, Listing(s), Ascends(s), NEW I \in SUBSET DOMAIN s, NEW t, t = At(s, I)
  PROVE  Ascends(t)
<1> SUFFICES ASSUME NEW k \in DOMAIN t, NEW l \in DOMAIN t, k < l PROVE t[k].order <= t[l].order
  BY DEF Ascends
<1>1. Before(t[k], t[l], s, I)
  BY AtElements
<1>2. PICK i \in I, j \in I : t[k] = s[i] /\ t[l] = s[j] /\ i < j
  BY <1>1 DEF Before
<1> QED BY <1>2 DEF Ascends

(* A list is its records without repetitions, in their order, and a record *)
(* on it builds on records on it.                                          *)
Builds(s) ==
  \A x \in ToSet(s) : \A slug \in ToSet(x.prerequisites) :
    \E y \in ToSet(s) : y.slug = slug /\ y.order < x.order

OneEach(s) == \A x, y \in ToSet(s) : x.slug = y.slug => x = y

Orderly(s) == Listing(s) /\ Ascends(s) /\ OneEach(s) /\ Builds(s)

LEMMA PublishedIs ==
  ASSUME NEW s, Distinct(s), BuildsUp(Available(s)), NEW list, list = ByOrder(Available(s))
  PROVE  /\ Orderly(list)
         /\ \A x : x \in ToSet(list) => x \in ToSet(s) /\ x \in ToSet(Available(s))
         /\ \A x \in ToSet(list) : x.order \in Nat
<1> DEFINE I == {i \in 1 .. Len(s) : s[i].status = "available"}
<1> PICK a : a = Available(s)
  OBVIOUS
<1>1. Listing(s)
  BY SeqIsListing DEF Distinct
<1>2. a = At(s, I)
  BY DEF Available, Filtered
<1>3. I \in SUBSET DOMAIN s
  BY <1>1 DEF Listing
<1> HIDE DEF I
<1>4. Listing(a) /\ \A k \in DOMAIN a : \E i \in I : a[k] = s[i]
  BY <1>1, <1>2, <1>3, AtElements
<1>5. \A x \in ToSet(a) : x.order \in Nat
  BY DEF BuildsUp
<1>6. Listing(list) /\ Ascends(list) /\ \A x : x \in ToSet(list) <=> x \in ToSet(a)
  <2>1. \A i \in DOMAIN a : a[i].order \in Nat
    BY <1>5, ElementsAre
  <2> QED BY <1>4, <2>1, ByOrderIs
<1>7. \A x \in ToSet(a) : x \in ToSet(s)
  BY <1>3, <1>4, ElementsAre
<1>8. OneEach(list)
  <2>1. \A x, y \in ToSet(s) : x.slug = y.slug => x = y
    BY ElementsAre DEF Distinct
  <2> QED BY <1>6, <1>7, <2>1 DEF OneEach
<1>9. Builds(list)
  <2>1. \A x \in ToSet(a) : \A slug \in ToSet(x.prerequisites) :
          \E y \in ToSet(a) : y.slug = slug /\ y.order < x.order
    BY DEF BuildsUp, Lookup
  <2> QED BY <1>6, <2>1 DEF Builds
<1> QED BY <1>5, <1>6, <1>7, <1>8, <1>9 DEF Orderly

(* What a list shows of its records, filtered in whatever way.             *)
LEMMA ShownLeadsOn ==
  ASSUME NEW all, Orderly(all), \A x \in ToSet(all) : x.order \in Nat,
         NEW I \in SUBSET DOMAIN all, NEW shown, shown = At(all, I), NEW i \in DOMAIN shown
  PROVE  /\ ToSet(shown[i].prerequisites)
              \subseteq {all[k].slug : k \in {j \in DOMAIN all : all[j].order < shown[i].order}}
         /\ ToSet(shown[i].prerequisites) \cap SlugsOf(shown)
              \subseteq SlugsOf(SubSeq(shown, 1, i - 1))
<1>1. Listing(all) /\ Ascends(all) /\ OneEach(all) /\ Builds(all)
  BY DEF Orderly
<1>2. Listing(shown) /\ \A k \in DOMAIN shown : \E j \in I : shown[k] = all[j]
  BY <1>1, AtElements
<1>3. Ascends(shown)
  BY <1>1, FilterAscends
<1>4. \A x \in ToSet(shown) : x \in ToSet(all)
  BY <1>2, ElementsAre
<1> PICK x : x = shown[i]
  OBVIOUS
<1>5. x \in ToSet(all) /\ x.order \in Nat
  BY <1>4, ElementsAre
<1>6. ASSUME NEW slug \in ToSet(x.prerequisites)
      PROVE  \E y \in ToSet(all) : y.slug = slug /\ y.order < x.order
  BY <1>1, <1>5 DEF Builds
<1>7. ASSUME NEW slug \in ToSet(x.prerequisites)
      PROVE  \E k \in DOMAIN all : all[k].order < x.order /\ all[k].slug = slug
  BY <1>6, ElementsAre
<1>8. ASSUME NEW slug \in ToSet(x.prerequisites), slug \in SlugsOf(shown)
      PROVE  slug \in SlugsOf(SubSeq(shown, 1, i - 1))
  <2>1. PICK z \in ToSet(shown) : z.slug = slug
    BY <1>8 DEF SlugsOf
  <2>2. PICK j \in DOMAIN shown : shown[j] = z
    BY <2>1, ElementsAre
  <2>3. PICK y \in ToSet(all) : y.slug = slug /\ y.order < x.order
    BY <1>6
  <2>4. z = y
    BY <1>1, <1>4, <2>1, <2>3 DEF OneEach
  <2>5. shown[j].order < shown[i].order /\ shown[j].order \in Nat /\ shown[i].order \in Nat
    BY <1>5, <2>2, <2>3, <2>4
  <2>6. ~(i < j) /\ i # j
    BY <1>3, <2>5 DEF Ascends
  <2>7. j \in 1 .. (i - 1) /\ i \in 1 .. Len(shown) /\ Len(shown) \in Nat
    BY <1>2, <2>6 DEF Listing
  <2> PICK before : before = SubSeq(shown, 1, i - 1)
    OBVIOUS
  <2>8. j \in DOMAIN before /\ before[j] = shown[j]
    BY <2>7
  <2>9. z \in ToSet(before)
    BY <2>2, <2>8, ElementsAre
  <2> QED BY <2>1, <2>9 DEF SlugsOf
<1> QED BY <1>7, <1>8

LEMMA ListsAre ==
  /\ Lists["challenges"] = Challenges /\ Listing(Challenges)
  /\ Lists["learning"] = LearningList /\ Orderly(LearningList)
  /\ Lists["ctf"] = MissionList /\ Orderly(MissionList)
  /\ \A x \in ToSet(LearningList) \cup ToSet(MissionList) : x.order \in Nat
  /\ \A x \in ToSet(LearningList) :
       x \in ToSet(LearningPaths) /\ x \in ToSet(Available(LearningPaths))
  /\ \A x \in ToSet(MissionList) : x \in ToSet(Missions) /\ x \in ToSet(Available(Missions))
<1>1. Listing(Challenges)
  BY ContentAssumption, SeqIsListing DEF Distinct
<1>2. Lists["challenges"] = Challenges /\ Lists["learning"] = LearningList
      /\ Lists["ctf"] = MissionList
  BY DEF Lists
<1>3. /\ Orderly(LearningList) /\ \A x \in ToSet(LearningList) : x.order \in Nat
      /\ \A x \in ToSet(LearningList) :
           x \in ToSet(LearningPaths) /\ x \in ToSet(Available(LearningPaths))
  BY ContentAssumption, PublishedIs DEF LearningList
<1>4. /\ Orderly(MissionList) /\ \A x \in ToSet(MissionList) : x.order \in Nat
      /\ \A x \in ToSet(MissionList) : x \in ToSet(Missions) /\ x \in ToSet(Available(Missions))
  BY ContentAssumption, PublishedIs DEF MissionList
<1> QED BY <1>1, <1>2, <1>3, <1>4

(* What a list shows is filtered from all of it, and all without criteria. *)
LEMMA ResultsAre ==
  ASSUME PagesInv, OnList, page.state = "listed"
  PROVE  \E I \in SUBSET DOMAIN page.all :
           /\ Results = At(page.all, I)
           /\ criteria = Criteria => I = DOMAIN page.all
<1>1. /\ route.kind \in {"challenges", "learning", "ctf"} /\ page.all = Lists[route.kind]
  BY ListKinds DEF PagesInv, PageHolds, OnList
<1> PICK all : all = page.all
  OBVIOUS
<1>2. Listing(all)
  BY <1>1, ListsAre DEF Orderly
<1>3. DOMAIN all = 1 .. Len(all)
  BY <1>2 DEF Listing
<1>4. \A x : Fits(x, Criteria) /\ MatchesDuration(x.minutes, Criteria.extra)
             /\ Criteria.extra = "all"
  BY DEF Fits, Criteria, Hits, MatchesDuration
<1>5. CASE route.kind = "challenges"
  <2> DEFINE I == {i \in 1 .. Len(all) : Fits(all[i], criteria)}
  <2>1. Results = At(all, I)
    BY <1>5 DEF Results, FilterChallenges, Filtered
  <2>2. I \in SUBSET DOMAIN all /\ (criteria = Criteria => I = DOMAIN all)
    BY <1>3, <1>4
  <2> QED BY <2>1, <2>2
<1>6. CASE route.kind = "learning"
  <2> DEFINE I == {i \in 1 .. Len(all) :
                     Fits(all[i], criteria) /\ MatchesDuration(all[i].minutes, criteria.extra)}
  <2>1. Results = At(all, I)
    BY <1>6 DEF Results, FilterLearningPaths, Filtered
  <2>2. I \in SUBSET DOMAIN all /\ (criteria = Criteria => I = DOMAIN all)
    BY <1>3, <1>4
  <2> QED BY <2>1, <2>2
<1>7. CASE route.kind = "ctf"
  <2> DEFINE I == {i \in 1 .. Len(all) :
                     Fits(all[i], criteria)
                     /\ criteria.extra \in {"all", MissionStatus(all[i])}}
  <2>1. Results = At(all, I)
    BY <1>7 DEF Results, FilterMissions, Filtered
  <2>2. I \in SUBSET DOMAIN all /\ (criteria = Criteria => I = DOMAIN all)
    BY <1>3, <1>4
  <2> QED BY <2>1, <2>2
<1> QED BY <1>1, <1>5, <1>6, <1>7

LEMMA ListsAreSound == PagesInv => ListsLeadOn
<1> SUFFICES ASSUME PagesInv, OnList, page.state = "listed" PROVE ListsLeadOn
  BY DEF ListsLeadOn
<1> PICK all : all = page.all
  OBVIOUS
<1> PICK shown : shown = Results
  OBVIOUS
<1>1. /\ route.kind \in {"challenges", "learning", "ctf"} /\ all = Lists[route.kind]
  BY ListKinds DEF PagesInv, PageHolds, OnList
<1>2. Listing(all)
  BY <1>1, ListsAre DEF Orderly
<1>3. PICK I \in SUBSET DOMAIN all : shown = At(all, I) /\ (criteria = Criteria => I = DOMAIN all)
  BY ResultsAre
<1>4. /\ Listing(shown) /\ \A k \in DOMAIN shown : \E i \in I : shown[k] = all[i]
      /\ \A i \in I : \E k \in DOMAIN shown : shown[k] = all[i]
  BY <1>2, <1>3, AtElements
<1>5. \A x : x \in ToSet(shown) => x \in ToSet(all)
  BY <1>4, ElementsAre
<1>6. ToSet(shown) # ToSet(all) => IsFiltered
  <2> SUFFICES ASSUME criteria = Criteria PROVE ToSet(shown) = ToSet(all)
    BY DEF IsFiltered
  <2>1. \A x : x \in ToSet(all) => x \in ToSet(shown)
    BY <1>3, <1>4, ElementsAre
  <2> QED BY <1>5, <2>1
<1>7. ASSUME route.kind # "challenges", NEW i \in DOMAIN shown
      PROVE  /\ ToSet(shown[i].prerequisites)
                  \subseteq {all[k].slug : k \in {j \in DOMAIN all : all[j].order < shown[i].order}}
             /\ ToSet(shown[i].prerequisites) \cap SlugsOf(shown)
                  \subseteq SlugsOf(SubSeq(shown, 1, i - 1))
  <2>1. Orderly(all) /\ \A x \in ToSet(all) : x.order \in Nat
    BY <1>1, <1>7, ListsAre
  <2> QED BY <1>3, <2>1, ShownLeadsOn
<1> QED BY <1>6, <1>7 DEF ListsLeadOn

(* Links that lead to a page that finds what it shows.                     *)
Good(links) == links \subseteq Routes /\ \A to \in links : to.slug # Unknown /\ to.kind # "*"

LEMMA LinksAreGood ==
  ASSUME NEW kind \in DOMAIN Lists, NEW s, \A x \in ToSet(s) : x \in ToSet(Lists[kind])
  PROVE  Good(Links(kind, s))
<1> SUFFICES ASSUME NEW x \in ToSet(s)
             PROVE  To(kind, x.slug) \in Routes /\ x.slug # Unknown /\ kind # "*"
  BY ListKinds DEF Good, Links
<1>1. x \in ToSet(Lists[kind]) /\ kind \in {"challenges", "learning", "ctf"}
  BY ListKinds
<1>2. x.slug \in SlugsOf(Lists[kind])
  BY <1>1 DEF SlugsOf
<1>3. To(kind, x.slug) \in Details(kind, SlugsOf(Lists[kind]))
  BY <1>2 DEF Details
<1>4. To(kind, x.slug) \in Routes
  BY <1>1, <1>3, ListsAre DEF Routes
<1>5. x \in ToSet(Challenges) \/ x \in ToSet(LearningPaths) \/ x \in ToSet(Missions)
  BY <1>1, ListsAre
<1>6. x.slug # Unknown
  BY <1>5, PagesAssumption DEF SlugsOf
<1> QED BY <1>1, <1>4, <1>6

LEMMA ToolsAreGood ==
  ASSUME NEW slugs, \A slug \in slugs : slug \in ToSet(SecurityTools)
  PROVE  Good({To("tools", slug) : slug \in slugs})
<1> SUFFICES ASSUME NEW slug \in slugs PROVE To("tools", slug) \in Routes /\ slug # Unknown
  BY ListKinds DEF Good
<1>1. To("tools", slug) \in Details("tools", ToSet(SecurityTools))
  BY DEF Details
<1> QED BY <1>1, PagesAssumption DEF Routes

LEMMA KnownToolsAreGood ==
  ASSUME NEW slugs \in Seq(STRING)
  PROVE  Good(ToolLinks(slugs))
<1> DEFINE I == {i \in 1 .. Len(slugs) : slugs[i] \in ToSet(SecurityTools)}
<1> PICK known : known = KnownTools(slugs)
  OBVIOUS
<1>1. Listing(slugs) /\ known = At(slugs, I)
  BY SeqIsListing DEF KnownTools, Filtered
<1>2. I \in SUBSET DOMAIN slugs /\ \A i \in I : slugs[i] \in ToSet(SecurityTools)
  BY <1>1 DEF Listing
<1> HIDE DEF I
<1>3. \A k \in DOMAIN known : \E i \in I : known[k] = slugs[i]
  BY <1>1, <1>2, AtElements
<1>4. \A slug \in ToSet(known) : slug \in ToSet(SecurityTools)
  BY <1>2, <1>3, ElementsAre
<1> QED BY <1>4, ToolsAreGood DEF ToolLinks

(* What slugs are resolved to is in the list they are looked up in.        *)
LEMMA ResolvedAreIn ==
  ASSUME NEW slugs \in Seq(STRING), NEW s
  PROVE  \A x \in ToSet(Resolved(slugs, s)) : x \in ToSet(s)
<1> DEFINE I == {i \in 1 .. Len(slugs) : Lookup(s, slugs[i]) # {}}
<1> PICK known : known = At(slugs, I)
  OBVIOUS
<1>1. Listing(slugs)
  BY SeqIsListing
<1>2. I \in SUBSET DOMAIN slugs /\ \A i \in I : Lookup(s, slugs[i]) # {}
  BY <1>1 DEF Listing
<1>4. Resolved(slugs, s) = [i \in DOMAIN known |-> CHOOSE x \in Lookup(s, known[i]) : TRUE]
  BY DEF Resolved, Filtered
<1> HIDE DEF I
<1>3. \A k \in DOMAIN known : \E i \in I : known[k] = slugs[i]
  BY <1>1, <1>2, AtElements
<1>5. ASSUME NEW i \in DOMAIN known
      PROVE  (CHOOSE x \in Lookup(s, known[i]) : TRUE) \in ToSet(s)
  <2>1. Lookup(s, known[i]) # {} /\ Lookup(s, known[i]) \subseteq ToSet(s)
    BY <1>2, <1>3 DEF Lookup
  <2> QED BY <2>1
<1> PICK resolved : resolved = Resolved(slugs, s)
  OBVIOUS
<1>6. \A i \in DOMAIN resolved : resolved[i] \in ToSet(s)
  BY <1>4, <1>5
<1> QED BY <1>6, ElementsAre

(* The beginning of a list.                                                *)
LEMMA MinOfThree == \A n \in Nat : Min({3, n}) \in 0 .. n
<1> SUFFICES ASSUME NEW n \in Nat PROVE Min({3, n}) \in 0 .. n
  OBVIOUS
<1>1. \E x \in {3, n} : \A y \in {3, n} : x <= y
  OBVIOUS
<1>2. Min({3, n}) \in {3, n} /\ \A y \in {3, n} : Min({3, n}) <= y
  BY <1>1 DEF Min
<1> QED BY <1>2

LEMMA BeginningIs ==
  ASSUME NEW s, NEW m \in Nat
  PROVE  SubSeq(s, 1, m) = [i \in 1 .. m |-> s[i]]
OBVIOUS

LEMMA PrefixIs ==
  ASSUME NEW s, Listing(s), NEW m \in 0 .. Len(s), NEW t, Listing(t), Len(t) = m,
         \A i \in 1 .. m : t[i] = s[i]
  PROVE  IsPrefix(t, s) /\ \A x \in ToSet(t) : x \in ToSet(s)
<1>1. Len(s) \in Nat /\ DOMAIN s = 1 .. Len(s) /\ DOMAIN t = 1 .. m /\ m \in Nat
  BY DEF Listing
<1>2. SubSeq(t, 1, m) = [i \in 1 .. m |-> t[i]]
  BY <1>1, BeginningIs
<1>3. SubSeq(s, 1, m) = [i \in 1 .. m |-> s[i]]
  BY <1>1, BeginningIs
<1>4. SubSeq(t, 1, m) = SubSeq(s, 1, m)
  BY <1>2, <1>3
<1>5. IsPrefix(t, s)
  BY <1>1, <1>4 DEF IsPrefix
<1>6. \A i \in DOMAIN t : i \in DOMAIN s /\ t[i] = s[i]
  BY <1>1
<1> QED BY <1>5, <1>6, ElementsAre

LEMMA FirstIs ==
  ASSUME NEW s, Listing(s), NEW t, t = SubSeq(s, 1, Min({3, Len(s)}))
  PROVE  IsPrefix(t, s) /\ \A x \in ToSet(t) : x \in ToSet(s)
<1>1. PICK m \in 0 .. Len(s) : m = Min({3, Len(s)})
  BY MinOfThree DEF Listing
<1>2. Listing(t) /\ Len(t) = m /\ \A i \in 1 .. m : t[i] = s[i]
  <2>1. Len(s) \in Nat /\ m \in Nat
    BY DEF Listing
  <2>2. t = [i \in 1 .. m |-> s[i]]
    BY <1>1, <2>1, BeginningIs
  <2>3. ASSUME NEW u, u = [i \in 1 .. m |-> s[i]]
        PROVE  Listing(u) /\ Len(u) = m /\ \A i \in 1 .. m : u[i] = s[i]
    BY <2>1, <2>3 DEF Listing
  <2> QED BY <2>2, <2>3
<1> QED BY <1>2, PrefixIs

(* Challenges that are related are challenges.                             *)
LEMMA RelatedAreIn ==
  ASSUME NEW c \in ToSet(Challenges)
  PROVE  \A x \in ToSet(RelatedChallenges(Challenges, c)) : x \in ToSet(Challenges)
<1> DEFINE I == {i \in 1 .. Len(Challenges) :
                   Challenges[i].slug # c.slug /\ Affinity(Challenges[i], c) > 0}
<1> PICK others : others = At(Challenges, I)
  OBVIOUS
<1> DEFINE n == Len(others)
           J == 1 .. n
           order == {p \in J \X J : \/ Affinity(others[p[1]], c) > Affinity(others[p[2]], c)
                                    \/ /\ p[1] <= p[2]
                                       /\ ~(Affinity(others[p[2]], c) > Affinity(others[p[1]], c))}
           key == [j \in J |-> 0 - Affinity(others[j], c)]
<1>0. PICK ranked : ranked = Arranged(others, J, order)
  OBVIOUS
<1>1. RelatedChallenges(Challenges, c) = SubSeq(ranked, 1, Min({3, Len(ranked)}))
  BY <1>0 DEF RelatedChallenges, Filtered, Sorted
<1>2. I \in SUBSET DOMAIN Challenges /\ Listing(Challenges)
  BY ListsAre DEF Listing
<1> HIDE DEF I
<1>3. Listing(others) /\ \A k \in DOMAIN others : \E i \in I : others[k] = Challenges[i]
  BY <1>2, AtElements
<1>4. \A x \in ToSet(others) : x \in ToSet(Challenges)
  BY <1>2, <1>3, ElementsAre
<1>5. n \in Nat /\ J = DOMAIN others
  BY <1>3 DEF Listing
<1>6. ASSUME NEW j \in J PROVE Affinity(others[j], c) \in Int
  <2>1. others[j] \in ToSet(Challenges)
    BY <1>4, <1>5, ElementsAre
  <2>2. IsFiniteSet(others[j].tags)
    BY <2>1, ContentAssumption
  <2>3. IsFiniteSet(others[j].tags \cap c.tags)
    BY <2>2, FS_Subset
  <2>4. Cardinality(others[j].tags \cap c.tags) \in Nat
    BY <2>3, FS_CardinalityType
  <2> QED BY <2>4 DEF Affinity
<1>7. key \in [J -> Int] /\ \A j \in J : key[j] = 0 - Affinity(others[j], c)
  BY <1>6
<1> HIDE DEF key
<1>8. \A i, j \in J : key[i] < key[j] <=> Affinity(others[i], c) > Affinity(others[j], c)
  BY <1>6, <1>7
<1>9. Stably(order, n, key)
  BY <1>8 DEF Stably
<1> HIDE DEF order
<1>10. Orders(order, J)
  BY <1>5, <1>7, <1>9, KeysOrder
<1> HIDE DEF J, n
<1>11. Listing(ranked) /\ \A k \in DOMAIN ranked : \E j \in J : ranked[k] = others[j]
  <2>1. J \in SUBSET DOMAIN others /\ Listing(others)
    BY <1>3, <1>5
  <2> QED BY <1>0, <1>10, <2>1, ArrangedElements
<1>12. \A x \in ToSet(ranked) : x \in ToSet(others)
  BY <1>5, <1>11, ElementsAre
<1> QED BY <1>1, <1>4, <1>11, <1>12, FirstIs

(* What a page that found something links to.                              *)
Leads(p) == p.state = "found" => Good(p.links)

LEMMA ShowingLeads == \A slug, links : Good(links) => Leads(Showing(slug, links))
BY DEF Leads, Showing

LEMMA QuietLeads == Leads(NotFound) /\ Leads(Loading) /\ Leads(Still)
BY DEF Leads, NotFound, Loading, Still

LEMMA GoodTogether ==
  /\ \A a, b : Good(a) /\ Good(b) => Good(a \cup b)
  /\ \A parts : (\A a \in parts : Good(a)) => Good(UNION parts)
BY DEF Good

LEMMA ChallengeLeads ==
  ASSUME NEW c \in ToSet(Challenges)
  PROVE  Leads(ChallengePage(c))
<1>1. "challenges" \in DOMAIN Lists /\ Lists["challenges"] = Challenges
  BY ListKinds, ListsAre
<1>2. Good(Links("challenges", RelatedChallenges(Challenges, c)))
  BY <1>1, RelatedAreIn, LinksAreGood
<1> QED BY <1>2, ShowingLeads DEF ChallengePage

LEMMA ResolvedAreGood ==
  ASSUME NEW kind \in DOMAIN Lists, NEW slugs \in Seq(STRING)
  PROVE  Good(Links(kind, Resolved(slugs, Lists[kind])))
BY ResolvedAreIn, LinksAreGood

LEMMA LearningLeads ==
  ASSUME NEW p \in ToSet(LearningList)
  PROVE  Leads(LearningPage(p))
<1>1. p \in ToSet(Available(LearningPaths))
  BY ListsAre
<1>2. /\ p.prerequisites \in Seq(STRING) /\ p.challenges \in Seq(STRING) /\ p.tools \in Seq(STRING)
      /\ \A m \in ToSet(p.modules) : m.challenges \in Seq(STRING) /\ m.tools \in Seq(STRING)
  BY <1>1, ContentAssumption DEF BuildsUp, Refers
<1>3. /\ DOMAIN Lists = {"challenges", "learning", "ctf"} /\ Lists["challenges"] = Challenges
      /\ Lists["learning"] = LearningList /\ Lists["ctf"] = MissionList
  BY ListKinds, ListsAre
<1>4. Good(Links("learning", ResolvePrerequisites(p, LearningList)))
  <2>1. Good(Links("learning", Resolved(p.prerequisites, Lists["learning"])))
    BY <1>2, <1>3, ResolvedAreGood
  <2> QED BY <1>3, <2>1 DEF ResolvePrerequisites
<1>5. Good(Links("challenges", Resolved(p.challenges, Challenges)))
  <2>1. Good(Links("challenges", Resolved(p.challenges, Lists["challenges"])))
    BY <1>2, <1>3, ResolvedAreGood
  <2> QED BY <1>3, <2>1
<1>6. Good(Links("ctf", Filtered(MissionList, LAMBDA q : p.slug \in ToSet(q.paths))))
  <2> DEFINE I == {i \in 1 .. Len(MissionList) : p.slug \in ToSet(MissionList[i].paths)}
  <2> PICK some : some = At(MissionList, I)
    OBVIOUS
  <2>1. Filtered(MissionList, LAMBDA q : p.slug \in ToSet(q.paths)) = some
    BY DEF Filtered
  <2>2. Listing(MissionList) /\ I \in SUBSET DOMAIN MissionList
    BY ListsAre DEF Orderly, Listing
  <2> HIDE DEF I
  <2>3. \A k \in DOMAIN some : \E i \in I : some[k] = MissionList[i]
    BY <2>2, AtElements
  <2>4. \A x \in ToSet(some) : x \in ToSet(MissionList)
    BY <2>2, <2>3, ElementsAre
  <2>5. Good(Links("ctf", some))
    BY <1>3, <2>4, LinksAreGood
  <2> QED BY <2>1, <2>5
<1>7. Good(ToolLinks(p.tools))
  BY <1>2, KnownToolsAreGood
<1>8. Good(UNION {ModuleLinks(m) : m \in ToSet(p.modules)})
  <2>1. ASSUME NEW m \in ToSet(p.modules) PROVE Good(ModuleLinks(m))
    <3>1. Good(Links("challenges", Resolved(m.challenges, Lists["challenges"])))
      BY <1>2, <1>3, ResolvedAreGood
    <3>2. Good(ToolLinks(m.tools))
      BY <1>2, KnownToolsAreGood
    <3> QED BY <1>3, <3>1, <3>2, GoodTogether DEF ModuleLinks
  <2>2. \A a \in {ModuleLinks(m) : m \in ToSet(p.modules)} : Good(a)
    BY <2>1
  <2> QED BY <2>2, GoodTogether
<1> QED BY <1>4, <1>5, <1>6, <1>7, <1>8, GoodTogether, ShowingLeads DEF LearningPage

LEMMA MissionLeads ==
  ASSUME NEW q \in ToSet(MissionList)
  PROVE  Leads(MissionPage(q))
<1>1. q \in ToSet(Available(Missions))
  BY ListsAre
<1>2. /\ q.challenges \in Seq(STRING) /\ q.tools \in Seq(STRING) /\ q.paths \in Seq(STRING)
      /\ \A steps \in ToSet(q.stages) : steps \in Seq(STRING)
  BY <1>1, ContentAssumption DEF BuildsUp, Refers
<1>3. /\ DOMAIN Lists = {"challenges", "learning", "ctf"} /\ Lists["challenges"] = Challenges
      /\ Lists["learning"] = LearningList
  BY ListKinds, ListsAre
<1>4. Good(Links("challenges", Resolved(q.challenges, Challenges)))
  <2>1. Good(Links("challenges", Resolved(q.challenges, Lists["challenges"])))
    BY <1>2, <1>3, ResolvedAreGood
  <2> QED BY <1>3, <2>1
<1>5. Good(Links("learning", Resolved(q.paths, LearningList)))
  <2>1. Good(Links("learning", Resolved(q.paths, Lists["learning"])))
    BY <1>2, <1>3, ResolvedAreGood
  <2> QED BY <1>3, <2>1
<1>6. Good(ToolLinks(q.tools))
  BY <1>2, KnownToolsAreGood
<1>7. Good(UNION {StageLinks(steps) : steps \in ToSet(q.stages)})
  <2>1. ASSUME NEW steps \in ToSet(q.stages) PROVE Good(StageLinks(steps))
    <3>1. Good(Links("challenges", Resolved(steps, Lists["challenges"])))
      BY <1>2, <1>3, ResolvedAreGood
    <3> QED BY <1>3, <3>1 DEF StageLinks
  <2>2. \A a \in {StageLinks(steps) : steps \in ToSet(q.stages)} : Good(a)
    BY <2>1
  <2> QED BY <2>2, GoodTogether
<1> QED BY <1>4, <1>5, <1>6, <1>7, GoodTogether, ShowingLeads DEF MissionPage

LEMMA DetailLeads ==
  ASSUME NEW to \in Routes, to.kind \in DOMAIN Lists
  PROVE  Leads(DetailPage(to))
<1> DEFINE found == Lookup(Lists[to.kind], to.slug)
<1> PICK x : x = CHOOSE y \in found : TRUE
  OBVIOUS
<1>1. CASE found = {}
  <2>1. DetailPage(to) = NotFound
    BY <1>1 DEF DetailPage
  <2> QED BY <2>1, QuietLeads
<1>2. CASE found # {}
  <2>1. x \in ToSet(Lists[to.kind])
    BY <1>2 DEF Lookup
  <2>2. to.kind \in {"challenges", "learning", "ctf"}
    BY ListKinds
  <2>3. CASE to.kind = "challenges"
    <3>1. DetailPage(to) = ChallengePage(x)
      BY <1>2, <2>3 DEF DetailPage
    <3> QED BY <2>1, <2>3, <3>1, ListsAre, ChallengeLeads
  <2>4. CASE to.kind = "learning"
    <3>1. DetailPage(to) = LearningPage(x)
      BY <1>2, <2>4 DEF DetailPage
    <3> QED BY <2>1, <2>4, <3>1, ListsAre, LearningLeads
  <2>5. CASE to.kind = "ctf"
    <3>1. DetailPage(to) = MissionPage(x)
      BY <1>2, <2>5 DEF DetailPage
    <3> QED BY <2>1, <2>5, <3>1, ListsAre, MissionLeads
  <2> QED BY <2>2, <2>3, <2>4, <2>5
<1> QED BY <1>1, <1>2

LEMMA ToolNavIsGood == Good(ToolNav)
BY ToolsAreGood DEF ToolNav

LEMMA BlankLeads ==
  ASSUME NEW to \in Routes, to.slug # ""
  PROVE  Leads(Blanked(to))
<1>1. CASE to.kind \in DOMAIN Lists
  <2>1. Blanked(to) = Loading
    BY <1>1, ListKinds DEF Blanked
  <2> QED BY <2>1, QuietLeads
<1>2. CASE to.kind \notin DOMAIN Lists
  <2>1. to.kind = "tools"
    BY <1>2, RoutesAre
  <2>2. Blanked(to) = ToolPage(to.slug)
    BY <2>1 DEF Blanked
  <2> QED BY <2>2, QuietLeads, ToolNavIsGood, ShowingLeads DEF ToolPage
<1> QED BY <1>1, <1>2

(* The dashboard has nothing of a list yet, or its first records.          *)
Begun(p) ==
  /\ p = [kind \in DOMAIN Lists |-> p[kind]]
  /\ \A kind \in DOMAIN Lists : p[kind] \in {<<>>, First(Lists[kind])}

LinksInv ==
  /\ route.kind = "dashboard" => Begun(page)
  /\ route.slug # "" => Leads(page)

LEMMA BlankBegins == \A to : to.kind = "dashboard" => Begun(Blanked(to))
<1> SUFFICES ASSUME NEW to, to.kind = "dashboard" PROVE Begun(Blanked(to))
  OBVIOUS
<1>1. Blanked(to) = [kind \in DOMAIN Lists |-> <<>>]
  BY DEF Blanked
<1> QED BY <1>1 DEF Begun

LEMMA LinksInductive == PagesInv /\ LinksInv /\ [PagesNext]_pageVars => LinksInv'
<1> SUFFICES ASSUME PagesInv, LinksInv, [PagesNext]_pageVars PROVE LinksInv'
  OBVIOUS
<1>1. ASSUME NEW to \in Routes, Navigate(to) PROVE LinksInv'
  <2>1. route' = to /\ page' = Blanked(to)
    BY <1>1 DEF Navigate
  <2> QED BY <2>1, BlankBegins, BlankLeads DEF LinksInv
<1>2. ASSUME NEW l \in loads, Answered(l) PROVE LinksInv'
  <2>1. LoadInv(l) /\ route \in Routes
    BY DEF PagesInv
  <2>2. route' = route
    BY <1>2 DEF Answered
  <2>3. CASE ~(l.active /\ Alive(l)) \/ l.part = "environment"
    <3>1. page' = page
      BY <1>2, <2>3 DEF Answered
    <3> QED BY <2>2, <3>1 DEF LinksInv
  <2>4. CASE l.active /\ Alive(l) /\ l.part # "environment"
    <3>1. /\ l.to \in Routes /\ l.to.kind = route.kind /\ (l.to.slug = "" <=> route.slug = "")
          /\ l.to = To("dashboard", "") \/ l.to.kind \in DOMAIN Lists
      BY <2>1, <2>4 DEF LoadInv, Alive
    <3>2. CASE l.to.kind = "dashboard"
      <4>1. page' = [page EXCEPT ![l.part] = First(Lists[l.part])]
        BY <1>2, <2>4, <3>2 DEF Answered
      <4>2. route.slug = "" /\ route.kind = "dashboard"
        BY <2>1, <3>1, <3>2, RoutesAre, ListKinds
      <4>3. Begun(page)
        BY <4>2 DEF LinksInv
      <4>4. Begun(page')
        BY <4>1, <4>3 DEF Begun
      <4> QED BY <2>2, <4>2, <4>4 DEF LinksInv
    <3>3. CASE l.to.kind # "dashboard"
      <4>1. l.to.kind \in DOMAIN Lists
        BY <3>1, <3>3, ListKinds
      <4>2. CASE route.slug = ""
        BY <2>2, <3>1, <3>3, <4>2 DEF LinksInv
      <4>3. CASE route.slug # ""
        <5>1. page' = DetailPage(l.to)
          BY <1>2, <2>4, <3>1, <3>3, <4>3 DEF Answered
        <5>2. Leads(page')
          BY <3>1, <4>1, <5>1, DetailLeads
        <5> QED BY <2>2, <3>1, <3>3, <5>2 DEF LinksInv
      <4> QED BY <4>2, <4>3
    <3> QED BY <3>2, <3>3
  <2> QED BY <2>3, <2>4
<1>3. CASE ApplyEffects \/ SetFilter \/ ResetFilters \/ UNCHANGED pageVars
  BY <1>3 DEF ApplyEffects, SetFilter, ResetFilters, pageVars, LinksInv
<1> QED BY <1>1, <1>2, <1>3 DEF PagesNext

LEMMA InitLinks == PagesInit => LinksInv
<1> SUFFICES ASSUME PagesInit PROVE LinksInv
  OBVIOUS
<1>1. route.kind = "dashboard" /\ route.slug = "" /\ page = Blanked(route)
  BY ListKinds DEF PagesInit
<1> QED BY <1>1, BlankBegins DEF LinksInv

(* The links of whatever is shown.                                         *)
LEMMA EmptyAndFirst ==
  ASSUME NEW kind \in DOMAIN Lists, NEW s, s \in {<<>>, First(Lists[kind])}
  PROVE  IsPrefix(s, Lists[kind]) /\ \A x \in ToSet(s) : x \in ToSet(Lists[kind])
<1>1. Listing(Lists[kind])
  BY ListKinds, ListsAre DEF Orderly
<1>2. CASE s = First(Lists[kind])
  BY <1>1, <1>2, FirstIs DEF First
<1>3. CASE s = <<>>
  <2>1. 0 \in 0 .. Len(Lists[kind]) /\ Listing(<<>>) /\ Len(<<>>) = 0
    BY <1>1 DEF Listing
  <2> QED BY <1>1, <1>3, <2>1, PrefixIs
<1> QED BY <1>2, <1>3

LEMMA NavigationIsGood == Good(PrimaryNav)
<1>1. \A kind \in DOMAIN Lists \cup {"dashboard", "tools", "about"} : kind # "*"
  BY ListKinds
<1>2. Unknown # ""
  BY PagesAssumption
<1>3. PrimaryNav \subseteq Routes
  BY DEF Routes
<1>4. ASSUME NEW to \in PrimaryNav PROVE to.slug # Unknown /\ to.kind # "*"
  <2>1. PICK kind \in DOMAIN Lists \cup {"dashboard", "tools", "about"} : to = To(kind, "")
    BY DEF PrimaryNav
  <2> QED BY <1>1, <1>2, <2>1, ListKinds
<1> QED BY <1>3, <1>4 DEF Good

LEMMA LinksLead ==
  ASSUME PagesInv, LinksInv
  PROVE  Good(LinksOn)
<1>1. route \in Routes
  BY DEF PagesInv
<1>2. CASE route.kind = "dashboard"
  <2>1. Begun(page) /\ {"learning", "ctf"} \subseteq DOMAIN Lists
    BY <1>2, ListKinds DEF LinksInv
  <2>2. Good(Links("learning", page["learning"])) /\ Good(Links("ctf", page["ctf"]))
    BY <2>1, EmptyAndFirst, LinksAreGood DEF Begun
  <2>3. Good(PrimaryNav \ {To("dashboard", ""), To("about", "")})
    BY NavigationIsGood DEF Good
  <2>4. Good(DashboardLinks)
    BY <2>2, <2>3, GoodTogether DEF DashboardLinks
  <2>5. LinksOn = PrimaryNav \cup DashboardLinks
    <3>1. route.slug = "" /\ route # To("tools", "") /\ ~OnList
      BY <1>1, <1>2, RoutesAre, ListKinds DEF OnList
    <3> QED BY <1>2, <3>1 DEF LinksOn
  <2> QED BY <2>4, <2>5, NavigationIsGood, GoodTogether
<1>3. CASE route = To("tools", "")
  <2>1. route.kind = "tools" /\ route.slug = "" /\ ~OnList
    <3>1. route.kind = "tools" /\ route.slug = ""
      BY <1>3, ListKinds
    <3>2. "tools" \notin DOMAIN Lists
      BY ListKinds
    <3> QED BY <3>1, <3>2 DEF OnList
  <2>2. LinksOn = PrimaryNav \cup ToolNav
    BY <1>3, <2>1 DEF LinksOn
  <2> QED BY <2>2, ToolNavIsGood, NavigationIsGood, GoodTogether
<1>4. CASE OnList
  <2>1. route.kind \in DOMAIN Lists /\ route.slug = "" /\ route.kind # "dashboard"
        /\ route # To("tools", "")
    <3>1. route.kind \in {"challenges", "learning", "ctf"} /\ route.slug = ""
      BY <1>4, ListKinds DEF OnList
    <3>2. To("tools", "").kind = "tools"
      BY ListKinds
    <3> QED BY <3>1, <3>2, ListKinds
  <2>2. Good(ListLinks)
    <3>1. CASE page.state = "listed"
      <4>1. page.all = Lists[route.kind]
        BY <1>4, <3>1 DEF PagesInv, PageHolds
      <4>2. Listing(page.all)
        BY <2>1, <4>1, ListKinds, ListsAre DEF Orderly
      <4>3. PICK I \in SUBSET DOMAIN page.all : Results = At(page.all, I)
        BY <1>4, <3>1, ResultsAre
      <4> PICK shown : shown = Results
        OBVIOUS
      <4> PICK all : all = page.all
        OBVIOUS
      <4>4. \A k \in DOMAIN shown : \E i \in I : shown[k] = all[i]
        BY <4>2, <4>3, AtElements
      <4>5. \A x \in ToSet(shown) : x \in ToSet(Lists[route.kind])
        BY <4>1, <4>4, ElementsAre
      <4>6. Good(Links(route.kind, shown))
        BY <2>1, <4>5, LinksAreGood
      <4> QED BY <3>1, <4>6 DEF ListLinks
    <3>2. CASE page.state # "listed"
      BY <3>2 DEF ListLinks, Good
    <3> QED BY <3>1, <3>2
  <2>3. LinksOn = PrimaryNav \cup ListLinks
    BY <1>4, <2>1 DEF LinksOn
  <2> QED BY <2>2, <2>3, NavigationIsGood, GoodTogether
<1>5. CASE route.slug # "" /\ page.state = "found"
  <2>1. route.kind # "dashboard" /\ route # To("tools", "") /\ ~OnList
    <3>1. To("tools", "").slug = "" /\ To("dashboard", "").slug = ""
      BY ListKinds
    <3>2. route.kind # "dashboard"
      BY <1>1, <1>5, <3>1, RoutesAre
    <3> QED BY <1>5, <3>1, <3>2 DEF OnList
  <2>2. Good(page.links)
    BY <1>5 DEF LinksInv, Leads
  <2>3. LinksOn = PrimaryNav \cup page.links
    BY <1>5, <2>1 DEF LinksOn
  <2> QED BY <2>2, <2>3, NavigationIsGood, GoodTogether
<1>6. CASE ~(\/ route.kind = "dashboard" \/ route = To("tools", "") \/ OnList
             \/ route.slug # "" /\ page.state = "found")
  <2>1. LinksOn = PrimaryNav \cup {}
    BY <1>6 DEF LinksOn
  <2> QED BY <2>1, NavigationIsGood, GoodTogether
<1> QED BY <1>2, <1>3, <1>4, <1>5, <1>6

LEMMA PagesTell == PagesInv /\ LinksInv => PagesTellTheRoute
<1> SUFFICES ASSUME PagesInv, LinksInv PROVE PagesTellTheRoute
  OBVIOUS
<1>1. ASSUME route.kind = "dashboard", NEW kind \in DOMAIN Lists
      PROVE  IsPrefix(page[kind], Lists[kind])
  BY <1>1, EmptyAndFirst DEF LinksInv, Begun
<1>2. ShowsTheRoute
  BY RouteIsShown
<1> QED BY <1>1, <1>2, LinksLead DEF PagesTellTheRoute, Good

(* PagesTellTheRoute: for any content that keeps what ContentAssumption    *)
(* asks of the files in data/, wherever the visitor goes and in whatever   *)
(* order answers arrive, a page of routes/*.tsx that awaits nothing shows  *)
(* its location, and every link on a page, right or outdated, leads to a   *)
(* page that finds what it shows.                                          *)
THEOREM PagesKeepTheirPromise == PagesSpec => []PagesTellTheRoute
BY InitPages, PagesInductive, InitLinks, LinksInductive, PagesTell, PTL DEF PagesSpec

(* ListsLeadOn: for any such content and any filters, a record is shown    *)
(* after those it builds on (byOrder in providers.ts, useLearningFilters   *)
(* and its kin), and an empty list can be reset.                           *)
THEOREM ListsLeadOnward == PagesSpec => []ListsLeadOn
BY InitPages, PagesInductive, ListsAreSound, PTL DEF PagesSpec
=============================================================================
