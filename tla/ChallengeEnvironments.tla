-------------------------- MODULE ChallengeEnvironments --------------------------
(***************************************************************************)
(* services/challengeService.ts over services/environmentService.ts: the   *)
(* environments of a challenge, and the check of one in front of a         *)
(* submission.  What other requests, the sweep and the administrators do   *)
(* to the rows meanwhile is any move of the life cycle.                    *)
(*                                                                         *)
(* EnvironmentService has the handlers behind these calls one by one and   *)
(* Scoring what a submission does once it is counted; here they are one    *)
(* step each, and the subject is what lies between them.                   *)
(***************************************************************************)
EXTENDS Integers, FiniteSets

CONSTANTS
  Players,      \* users
  Staff,        \* the administrators among them
  Catalog,      \* challenges of the catalog
  Registered,   \* challenges that have a verifier
  Rows,         \* ids, in the order in which they are given out
  Key,          \* the idempotency key a client may send
  Visits,       \* calls in flight at once
  Period,       \* how long a row lives
  Horizon       \* bound of the clock

ASSUME ChallengeAssumption ==
  /\ Staff \subseteq Players /\ Registered \subseteq Catalog
  /\ Rows = 1 .. Cardinality(Rows) /\ Period \in Nat \ {0} /\ Horizon \in Nat

VARIABLES
  configured,   \* runtimeConfigured
  row,          \* [Rows -> [owner, target, status, expires]]
  remembered,   \* the idempotency map: {<<user, key, id>>}
  visit,        \* [Visits -> call]
  open,         \* history: visits whose row was open to them at some moment
  clock

challengeVars == <<configured, row, remembered, visit, open, clock>>

Cycle == INSTANCE EnvironmentLifecycle WITH EnvIds <- Rows, status <- [e \in Rows |-> row[e].status]

-----------------------------------------------------------------------------
(* Stages: request the first event is being audited, mint and activate the *)
(* calls of a create, load the check of a row, reset and count what        *)
(* follows it.                                                             *)
Stages == {"idle", "request", "mint", "activate", "load", "reset", "count", "done", "refused"}

NoVisit == [stage |-> "idle", op |-> "get", user |-> CHOOSE u \in Players : TRUE,
            slug |-> CHOOSE c \in Catalog : TRUE, id |-> 1, key |-> FALSE, replayed |-> FALSE]

NoRow == [owner |-> NoVisit.user, target |-> "none", status |-> "NONE", expires |-> 0]

ChallengeInit ==
  /\ configured \in BOOLEAN
  /\ row = [e \in Rows |-> NoRow]
  /\ remembered = {}
  /\ visit = [s \in Visits |-> NoVisit]
  /\ open = {}
  /\ clock = 0

Proceed(s, v) == visit' = [visit EXCEPT ![s] = v]

Turn(s, stage) == Proceed(s, [visit[s] EXCEPT !.stage = stage])

RequireDefinition(slug) == slug \in Registered

(* The row is nobody else's, and of this challenge.                        *)
Bound(v) ==
  /\ row[v.id].status # "NONE"
  /\ row[v.id].owner = v.user \/ v.user \in Staff
  /\ row[v.id].target = v.slug

(* Wrong: a submission is taken as long as the row is not torn down.       *)
AcceptsExpired(e) == e.status \notin {"DESTROYED", "DESTROYING", "FAILED"}

Accepts(e) == e.status \notin {"DESTROYED", "DESTROYING", "FAILED"} /\ e.expires > clock

-----------------------------------------------------------------------------
Visit(s, op, u, slug, id, key) ==
  /\ visit[s].stage = "idle"
  /\ IF op = "create" THEN id = 1 ELSE ~key
  /\ Proceed(s, [NoVisit EXCEPT !.op = op, !.user = u, !.slug = slug, !.id = id, !.key = key,
       !.stage = IF ~RequireDefinition(slug) THEN "refused"
                 ELSE IF op = "create" THEN "request" ELSE "load"])
  /\ UNCHANGED <<row, remembered, clock>>

(* CHALLENGE_ENVIRONMENT_REQUESTED.                                        *)
Requested(s) ==
  /\ visit[s].stage = "request"
  /\ Turn(s, "mint")
  /\ UNCHANGED <<row, remembered, clock>>

Inserted(e, u, target) ==
  /\ \A f \in Rows : row[f].status = "NONE" <=> f >= e
  /\ row' = [row EXCEPT ![e] = [owner |-> u, target |-> target, status |-> "REQUESTED",
                                expires |-> clock + Period]]

After(e) == IF configured /\ row'[e].status = "REQUESTED" THEN "activate" ELSE "done"

(* environments.requestEnvironment: a key answers with the row it was      *)
(* sent for, whatever that was for; the limits may refuse.                 *)
Mint(s) ==
  LET v == visit[s] IN
  /\ v.stage = "mint"
  /\ \/ \E e \in Rows : /\ v.key /\ <<v.user, Key, e>> \in remembered
                        /\ UNCHANGED <<row, remembered>>
                        /\ Proceed(s, [v EXCEPT !.id = e, !.replayed = TRUE, !.stage = After(e)])
     \/ \E e \in Rows : /\ v.key => \A f \in Rows : <<v.user, Key, f>> \notin remembered
                        /\ Inserted(e, v.user, v.slug)
                        /\ remembered' = remembered \cup (IF v.key THEN {<<v.user, Key, e>>} ELSE {})
                        /\ Proceed(s, [v EXCEPT !.id = e, !.stage = After(e)])
     \/ Turn(s, "refused") /\ UNCHANGED <<row, remembered>>
  /\ UNCHANGED clock

(* environments.activateEnvironment, which returns an ACTIVE row as it is, *)
(* or its refusal half way.                                                *)
Activate(s) ==
  LET e == visit[s].id IN
  /\ visit[s].stage = "activate"
  /\ \/ /\ row[e].status = "ACTIVE"
        /\ Turn(s, "done") /\ UNCHANGED row
     \/ /\ row[e].status \in {"REQUESTED", "PROVISIONING", "READY"} /\ row[e].expires > clock
        /\ row' = [row EXCEPT ![e].status = "ACTIVE"]
        /\ Turn(s, "done")
     \/ /\ \/ row[e].status = "REQUESTED" /\ row' = [row EXCEPT ![e].status = "PROVISIONING"]
           \/ UNCHANGED row
        /\ Turn(s, "refused")
  /\ UNCHANGED <<remembered, clock>>

(* loadForChallenge, and what a submission asks of the row.                *)
LoadForChallenge(s) ==
  LET v == visit[s] IN
  /\ v.stage = "load"
  /\ Turn(s, IF ~Bound(v) THEN "refused"
             ELSE CASE v.op = "get" -> "done"
                    [] v.op = "reset" -> "reset"
                    [] v.op = "submit" -> IF Accepts(row[v.id]) THEN "count" ELSE "refused")
  /\ UNCHANGED <<row, remembered, clock>>

(* environments.resetEnvironment, or its refusal half way.                 *)
Reset(s) ==
  LET e == visit[s].id
      may == row[e].status \in {"READY", "ACTIVE", "TIMEOUT"} IN
  /\ visit[s].stage = "reset"
  /\ \/ /\ may /\ configured
        /\ row' = [row EXCEPT ![e].status = "READY", ![e].expires = clock + Period]
        /\ Turn(s, "done")
     \/ /\ \/ may /\ row' = [row EXCEPT ![e].status = "RESETTING"]
           \/ UNCHANGED row
        /\ Turn(s, "refused")
  /\ UNCHANGED <<remembered, clock>>

(* scoring.recordSubmission.                                               *)
CountSubmission(s) ==
  /\ visit[s].stage = "count"
  /\ Turn(s, "done")
  /\ UNCHANGED <<row, remembered, clock>>

Depart(s) ==
  /\ visit[s].stage \in {"done", "refused"}
  /\ Proceed(s, NoVisit)
  /\ UNCHANGED <<row, remembered, clock>>

-----------------------------------------------------------------------------
(* Other routes: a mission, under the same key, and any move of a row; a   *)
(* runtime that is not there never makes one READY or ACTIVE.              *)
RequestMission(u, e, key) ==
  /\ key => \A f \in Rows : <<u, Key, f>> \notin remembered
  /\ Inserted(e, u, "mission")
  /\ remembered' = remembered \cup (IF key THEN {<<u, Key, e>>} ELSE {})
  /\ UNCHANGED <<visit, clock>>

MoveRow(e, to) ==
  /\ row[e].status # "NONE"
  /\ Cycle!CanTransition(row[e].status, to)
  /\ to \in {"READY", "ACTIVE"} => configured
  /\ row' = [row EXCEPT ![e].status = to]
  /\ UNCHANGED <<remembered, visit, clock>>

(* The map of keys goes with the process, as do the calls.                 *)
RestartProcess ==
  /\ remembered' = {}
  /\ visit' = [s \in Visits |-> NoVisit]
  /\ UNCHANGED <<row, clock>>

Pass ==
  /\ clock < Horizon
  /\ clock' = clock + 1
  /\ UNCHANGED <<row, remembered, visit>>

Carry(s) ==
  \/ Requested(s) \/ Mint(s) \/ Activate(s) \/ LoadForChallenge(s) \/ Reset(s)
  \/ CountSubmission(s) \/ Depart(s)

(* A submission of this call would be right at this moment.                *)
OpenTo(v) ==
  Bound(v) /\ clock < row[v.id].expires
    /\ row[v.id].status \in Cycle!Statuses \ {"DESTROYED", "DESTROYING", "FAILED"}

ChallengeNext ==
  /\ \/ \E s \in Visits, op \in {"create", "get", "reset", "submit"}, u \in Players,
           slug \in Catalog, id \in Rows, key \in BOOLEAN : Visit(s, op, u, slug, id, key)
     \/ \E s \in Visits : Carry(s)
     \/ \E u \in Players, e \in Rows, key \in BOOLEAN : RequestMission(u, e, key)
     \/ \E e \in Rows, to \in Cycle!Statuses : MoveRow(e, to)
     \/ RestartProcess
     \/ Pass
  /\ open' = {s \in Visits : "idle" \notin {visit[s].stage, visit'[s].stage}
                /\ (s \in open \/ OpenTo(visit[s]))}
  /\ UNCHANGED configured

ChallengeSpec == ChallengeInit /\ [][ChallengeNext]_challengeVars

-----------------------------------------------------------------------------
(* A submission counts only on a row of its challenge that the user may    *)
(* see and that was open to submissions at some moment of the call: it may *)
(* be gone when the points are written, never before the call.  A view     *)
(* that is answered is one of the row that was asked for; only a repeated  *)
(* key answers with a row of something else, and then of the same user.    *)
(* And without a runtime no row is ever reported READY or ACTIVE.          *)
ChallengeCallsAreBound ==
  /\ \A s \in Visits :
       LET v == visit[s] IN v.stage = "done" =>
         /\ row[v.id].owner = v.user \/ (v.user \in Staff /\ v.op # "create")
         /\ row[v.id].target = v.slug \/ v.replayed
         /\ v.slug \in Registered
         /\ v.op = "submit" => s \in open
  /\ \A e \in Rows : row[e].status \in {"READY", "ACTIVE"} => configured
=============================================================================
