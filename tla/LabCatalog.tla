------------------------------- MODULE LabCatalog -------------------------------
(***************************************************************************)
(* How the content of the Lab is looked up: services/catalogService.ts of  *)
(* the API, and the providers, lookups and filters of the frontend.        *)
(***************************************************************************)
EXTENDS Integers, Sequences, SequencesExt, FiniteSets, FiniteSetsExt, Listings

CONSTANTS
  Challenges,      \* the records of data/challenges.ts, in the order of the file
  LearningPaths,   \* those of data/learningPaths.ts
  Missions,        \* those of data/missions.ts
  SecurityTools    \* the slugs of data/tools.ts

-----------------------------------------------------------------------------
(* What is published, in its order (catalogService, and the providers of   *)
(* the frontend, which sort a copy whenever they are asked).               *)
Available(s) == Filtered(s, LAMBDA x : x.status = "available")

(* Wrong: the last comes first.                                            *)
ByOrderFalling(s) == Sorted(s, LAMBDA x, y : x.order > y.order)

ByOrder(s) == Sorted(s, LAMBDA x, y : x.order < y.order)

LearningList == ByOrder(Available(LearningPaths))

MissionList == ByOrder(Available(Missions))

(* A search by slug gives one record or none.                              *)
Lookup(s, slug) == {x \in ToSet(s) : x.slug = slug}

(* Slugs resolved to records; what does not resolve is left out.           *)
Resolved(slugs, s) ==
  LET known == Filtered(slugs, LAMBDA slug : Lookup(s, slug) # {}) IN
  [i \in DOMAIN known |-> CHOOSE x \in Lookup(s, known[i]) : TRUE]

ResolvePrerequisites(x, all) == Resolved(x.prerequisites, all)

KnownTools(slugs) == Filtered(slugs, LAMBDA slug : slug \in ToSet(SecurityTools))

(* Other challenges by what they share with this one, at most three.       *)
Affinity(x, y) == (IF x.category = y.category THEN 2 ELSE 0) + Cardinality(x.tags \cap y.tags)

RelatedChallenges(all, current) ==
  LET others == Filtered(all, LAMBDA x : x.slug # current.slug /\ Affinity(x, current) > 0)
      ranked == Sorted(others, LAMBDA x, y : Affinity(x, current) > Affinity(y, current)) IN
  SubSeq(ranked, 1, Min({3, Len(ranked)}))

-----------------------------------------------------------------------------
(* Filters.  A query is the slugs of the records whose text has it, and    *)
(* Blank the query of nothing but spaces.                                  *)
Blank == {" "}

Hits(x, query) == query = Blank \/ x.slug \in query

MatchesDuration(minutes, duration) ==
  CASE duration = "short" -> minutes < 90
    [] duration = "medium" -> minutes \in 90 .. 120
    [] duration = "long" -> minutes > 120
    [] duration = "all" -> TRUE

Criteria == [category |-> "all", difficulty |-> "all", extra |-> "all", query |-> Blank]

Fits(x, c) ==
  /\ c.category \in {"all", x.category}
  /\ c.difficulty \in {"all", x.difficulty}
  /\ Hits(x, c.query)

FilterChallenges(all, c) == Filtered(all, LAMBDA x : Fits(x, c))

(* The third criterion is the duration of a path.                          *)
FilterLearningPaths(all, c) ==
  Filtered(all, LAMBDA x : Fits(x, c) /\ MatchesDuration(x.minutes, c.extra))

(* The third one is the progress in a mission: the provider keeps none and *)
(* has every mission available.                                            *)
MissionStatus(x) == "available"

FilterMissions(all, c) ==
  Filtered(all, LAMBDA x : Fits(x, c) /\ c.extra \in {"all", MissionStatus(x)})

-----------------------------------------------------------------------------
SlugsOf(s) == {x.slug : x \in ToSet(s)}

-----------------------------------------------------------------------------
(* What is kept by hand in the files of content: each record has a slug of *)
(* its own, references are lists of slugs, and what is published builds    *)
(* only on published records of a lower order.                             *)
Distinct(s) ==
  /\ s \in Seq(ToSet(s))
  /\ \A i, j \in DOMAIN s : s[i].slug = s[j].slug => i = j

Refers(x) == x.challenges \in Seq(STRING) /\ x.tools \in Seq(STRING)

BuildsUp(s) ==
  \A x \in ToSet(s) :
    /\ x.order \in Nat /\ Refers(x) /\ x.prerequisites \in Seq(STRING)
    /\ \A slug \in ToSet(x.prerequisites) : \E y \in Lookup(s, slug) : y.order < x.order

ASSUME ContentAssumption ==
  /\ Distinct(Challenges) /\ \A c \in ToSet(Challenges) : IsFiniteSet(c.tags)
  /\ Distinct(LearningPaths) /\ BuildsUp(Available(LearningPaths))
  /\ \A p \in ToSet(Available(LearningPaths)) : \A m \in ToSet(p.modules) : Refers(m)
  /\ Distinct(Missions) /\ BuildsUp(Available(Missions))
  /\ \A q \in ToSet(Available(Missions)) :
       q.paths \in Seq(STRING) /\ \A stage \in ToSet(q.stages) : stage \in Seq(STRING)
=============================================================================
