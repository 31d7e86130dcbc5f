------------------------------ MODULE Scoring -------------------------------
(***************************************************************************)
(* Flag submissions and progress: challengeService.submit and getProgress  *)
(* over the scoring repository of the database (repositories/prisma.ts).   *)
(*                                                                         *)
(* A submission is a series of single statements, none inside a            *)
(* transaction: count the attempt, insert a ScoreEvent, update the         *)
(* progress row, sum the ledger, write the audit rows.  What the handler   *)
(* does between two of them reads nothing but its own variables, so an     *)
(* action is one statement with the code up to the next.                   *)
(*                                                                         *)
(* A definition marked "Wrong:" is a slip the next definition could hold;  *)
(* the specification never uses it.  It shows that a property can fail.    *)
(***************************************************************************)
EXTENDS Naturals, FiniteSets, FiniteSetsExt

CONSTANTS
  Users,         \* users with a session
  Slugs,         \* challenges of the registry
  Points,        \* Points[c]: catalog.challengePoints(c)
  NoUser, NoSlug,
  Slots,         \* requests in flight at once
  MaxAttempts,   \* bound: submissions per user and challenge
  Faults         \* TRUE: awaits may reject and the process may restart

ASSUME ScoringAssumption ==
  /\ IsFiniteSet(Slugs) /\ Points \in [Slugs -> Nat]
  /\ NoUser \notin Users /\ NoSlug \notin Slugs
  /\ MaxAttempts \in Nat /\ Faults \in BOOLEAN

VARIABLES
  progress,      \* challenge_progress: [Users -> [Slugs -> Row]]
  ledger,        \* score_events: ledger[u] is the set of challenges scored
  announced,     \* CHALLENGE_SCORE_AWARDED rows of the audit log, counted
  req,           \* [Slots -> Request]
  lost           \* history: the awards whose update of progress a fault cut off

vars == <<progress, ledger, announced, req, lost>>

Book == INSTANCE ScoreBook

-----------------------------------------------------------------------------
(* firstSolvedAt and completedAt are written together: solved is whether   *)
(* they are set.  attempts = 0 stands for no row.                          *)

Row == [attempts : Nat, status : {"in_progress", "completed"}, solved : BOOLEAN, points : Nat]

NoRow == [attempts |-> 0, status |-> "in_progress", solved |-> FALSE, points |-> 0]

NoRows == [c \in Slugs |-> NoRow]

(* Stages: the statement a request waits for, by what it does.  `env` is   *)
(* the ownership and state check on the environment, `verdict` the audit   *)
(* row of the verdict, `rows` and `sum` the two reads of getUserSummary.   *)
Waiting == {"env", "attempt", "award", "complete", "mark", "total", "verdict",
            "announce", "rows", "sum"}

Request == [stage : Waiting \cup {"idle", "done", "refused"}, op : {"submit", "progress"},
            user : Users \cup {NoUser}, slug : Slugs \cup {NoSlug},
            correct : BOOLEAN, already : BOOLEAN, gained : Nat, total : Nat,
            rows : [Slugs -> Row],
            since : SUBSET Slugs]   \* history: the user's ledger when the call came

Idle == [stage |-> "idle", op |-> "progress", user |-> NoUser, slug |-> NoSlug,
         correct |-> FALSE, already |-> FALSE, gained |-> 0, total |-> 0,
         rows |-> NoRows, since |-> {}]

(* The points of a set of challenges.                                      *)
PointsOf(S) == MapThenSumSet(LAMBDA c : Points[c], S)

Init ==
  /\ progress = [u \in Users |-> NoRows]
  /\ ledger = [u \in Users |-> {}]
  /\ announced = [u \in Users |-> [c \in Slugs |-> 0]]
  /\ req = [s \in Slots |-> Idle]
  /\ lost = {}

Become(s, r) == req' = [req EXCEPT ![s] = r]

-----------------------------------------------------------------------------
(* A call arrives.                                                         *)

(* Bound: attempts that are counted or still can be.                       *)
AttemptsLeft(u, c) ==
  progress[u][c].attempts
    + Cardinality({s \in Slots : req[s].user = u /\ req[s].slug = c
                                   /\ req[s].stage \in {"env", "attempt"}}) < MaxAttempts

(* The shape of a submission is checked before anything is awaited.  The   *)
(* verifier is a function of the answer: its verdict comes with the call.  *)
Submit(s, u, c, correct, valid) ==
  /\ req[s].stage = "idle" /\ AttemptsLeft(u, c)
  /\ Become(s, [Idle EXCEPT !.stage = IF valid THEN "env" ELSE "refused", !.op = "submit",
                            !.user = u, !.slug = c, !.correct = correct,
                            !.since = ledger[u]])
  /\ UNCHANGED <<progress, ledger, announced, lost>>

GetProgress(s, u) ==
  /\ req[s].stage = "idle"
  /\ Become(s, [Idle EXCEPT !.stage = "rows", !.user = u, !.since = ledger[u]])
  /\ UNCHANGED <<progress, ledger, announced, lost>>

-----------------------------------------------------------------------------
(* challengeService.submit.                                                *)

(* loadForChallenge, then the environment's status and expiry.             *)
CheckEnvironment(s, open) ==
  /\ req[s].stage = "env"
  /\ Become(s, [req[s] EXCEPT !.stage = IF open THEN "attempt" ELSE "refused"])
  /\ UNCHANGED <<progress, ledger, announced, lost>>

(* Wrong: the progress row is completed and the ledger left out.           *)
AfterAttemptUnledgered(row, correct) ==
  IF ~correct \/ row.solved THEN "total" ELSE "complete"

(* What recordSubmission does with the row its upsert returned.            *)
AfterAttempt(row, correct) == IF ~correct \/ row.solved THEN "total" ELSE "award"

(* challengeProgress.upsert.                                               *)
CountAttempt(s) ==
  LET r == req[s]
      row == [progress[r.user][r.slug] EXCEPT !.attempts = @ + 1]
  IN /\ r.stage = "attempt"
     /\ progress' = [progress EXCEPT ![r.user][r.slug] = row]
     /\ Become(s, [r EXCEPT !.stage = AfterAttempt(row, r.correct),
                            !.already = r.correct /\ row.solved])
     /\ UNCHANGED <<ledger, announced, lost>>

(* Wrong: the table has no unique key, every insert succeeds.              *)
AwardAgain(s) ==
  LET r == req[s]
  IN /\ r.stage = "award"
     /\ ledger' = [ledger EXCEPT ![r.user] = @ \cup {r.slug}]
     /\ Become(s, [r EXCEPT !.stage = "complete"])
     /\ UNCHANGED <<progress, announced, lost>>

(* scoreEvent.create: the unique key lets one insert through, the others   *)
(* raise P2002, which recordSubmission takes for alreadySolved.            *)
Award(s) ==
  LET r == req[s]
  IN /\ r.stage = "award"
     /\ \/ /\ r.slug \notin ledger[r.user]
           /\ ledger' = [ledger EXCEPT ![r.user] = @ \cup {r.slug}]
           /\ Become(s, [r EXCEPT !.stage = "complete"])
        \/ /\ r.slug \in ledger[r.user]
           /\ Become(s, [r EXCEPT !.stage = "mark", !.already = TRUE])
           /\ UNCHANGED ledger
     /\ UNCHANGED <<progress, announced, lost>>

(* Wrong: firstSolvedAt is forgotten.                                      *)
CompletedUnsolved(row, c) == [row EXCEPT !.status = "completed", !.points = Points[c]]

Completed(row, c) ==
  [row EXCEPT !.status = "completed", !.solved = TRUE, !.points = Points[c]]

(* challengeProgress.update of the request that scored.                    *)
Complete(s) ==
  LET r == req[s]
  IN /\ r.stage = "complete"
     /\ progress' = [progress EXCEPT ![r.user][r.slug] = Completed(@, r.slug)]
     /\ Become(s, [r EXCEPT !.stage = "total", !.gained = Points[r.slug]])
     /\ UNCHANGED <<ledger, announced, lost>>

(* challengeProgress.update after P2002: the status and nothing else.      *)
Mark(s) ==
  LET r == req[s]
  IN /\ r.stage = "mark"
     /\ progress' = [progress EXCEPT ![r.user][r.slug].status = "completed"]
     /\ Become(s, [r EXCEPT !.stage = "total"])
     /\ UNCHANGED <<ledger, announced, lost>>

(* Wrong: the points just gained are added to a sum that has them.         *)
TotalWithGain(s) ==
  /\ req[s].stage = "total"
  /\ Become(s, [req[s] EXCEPT !.stage = "verdict",
                              !.total = PointsOf(ledger[req[s].user]) + req[s].gained])
  /\ UNCHANGED <<progress, ledger, announced, lost>>

(* scoreEvent.aggregate.                                                   *)
Total(s) ==
  /\ req[s].stage = "total"
  /\ Become(s, [req[s] EXCEPT !.stage = "verdict", !.total = PointsOf(ledger[req[s].user])])
  /\ UNCHANGED <<progress, ledger, announced, lost>>

(* The audit row of the verdict.                                           *)
Verdict(s) ==
  LET r == req[s]
  IN /\ r.stage = "verdict"
     /\ Become(s, [r EXCEPT !.stage = IF r.correct /\ ~r.already THEN "announce" ELSE "done"])
     /\ UNCHANGED <<progress, ledger, announced, lost>>

(* CHALLENGE_SCORE_AWARDED.                                                *)
Announce(s) ==
  LET r == req[s]
  IN /\ r.stage = "announce"
     /\ announced' = [announced EXCEPT ![r.user][r.slug] = @ + 1]
     /\ Become(s, [r EXCEPT !.stage = "done"])
     /\ UNCHANGED <<progress, ledger, lost>>

-----------------------------------------------------------------------------
(* challengeService.getProgress: the rows, then the sum of the ledger.     *)

ReadRows(s) ==
  /\ req[s].stage = "rows"
  /\ Become(s, [req[s] EXCEPT !.stage = "sum", !.rows = progress[req[s].user]])
  /\ UNCHANGED <<progress, ledger, announced, lost>>

(* Wrong: the sum is one that was remembered when the call came.           *)
ReadSumRemembered(s) ==
  /\ req[s].stage = "sum"
  /\ Become(s, [req[s] EXCEPT !.stage = "done", !.total = PointsOf(req[s].since)])
  /\ UNCHANGED <<progress, ledger, announced, lost>>

ReadSum(s) ==
  /\ req[s].stage = "sum"
  /\ Become(s, [req[s] EXCEPT !.stage = "done", !.total = PointsOf(ledger[req[s].user])])
  /\ UNCHANGED <<progress, ledger, announced, lost>>

-----------------------------------------------------------------------------

Reply(s) ==
  /\ req[s].stage \in {"done", "refused"}
  /\ Become(s, Idle)
  /\ UNCHANGED <<progress, ledger, announced, lost>>

(* The awards of requests that wait for their update of the progress row.  *)
CutOff(S) == {<<req[s].user, req[s].slug>> : s \in {t \in S : req[t].stage = "complete"}}

(* An await rejects with anything but P2002: the call ends in a 500, the   *)
(* statements that ran before stay.                                        *)
Abort(s) ==
  /\ Faults
  /\ req[s].stage \in Waiting
  /\ Become(s, Idle)
  /\ lost' = lost \cup CutOff({s})
  /\ UNCHANGED <<progress, ledger, announced>>

(* The process restarts: the requests go, the tables stay.                 *)
Restart ==
  /\ Faults
  /\ req' = [s \in Slots |-> Idle]
  /\ lost' = lost \cup CutOff(Slots)
  /\ UNCHANGED <<progress, ledger, announced>>

Call(s) ==
  \E u \in Users :
    \/ \E c \in Slugs, correct, valid \in BOOLEAN : Submit(s, u, c, correct, valid)
    \/ GetProgress(s, u)

(* What a request does once it has arrived.                                *)
Progress(s) ==
  \/ \E open \in BOOLEAN : CheckEnvironment(s, open)
  \/ CountAttempt(s) \/ Award(s) \/ Complete(s) \/ Mark(s)
  \/ Total(s) \/ Verdict(s) \/ Announce(s)
  \/ ReadRows(s) \/ ReadSum(s) \/ Reply(s)

Next == (\E s \in Slots : Call(s) \/ Progress(s) \/ Abort(s)) \/ Restart

Spec == Init /\ [][Next]_vars

(* The event loop resumes every handler whose statement has been answered, *)
(* and the driver answers every statement.                                 *)
FairSpec == Spec /\ \A s \in Slots : WF_vars(Progress(s))

-----------------------------------------------------------------------------
(* Type invariant of the two tables, the audit count and the requests.     *)
TypeOK ==
  /\ progress \in [Users -> [Slugs -> Row]]
  /\ ledger \in [Users -> SUBSET Slugs]
  /\ announced \in [Users -> [Slugs -> Nat]]
  /\ req \in [Slots -> Request]
  /\ lost \subseteq Users \X Slugs

(* SCORING.md, once-only guarantee: submissions that race, fail half way   *)
(* and are retried score a challenge at most once and announce the award   *)
(* at most once, never before the ledger has it.                           *)
ImplementsScoreBook == Book!Spec

(* The progress row is derived from the ledger: it shows points or a solve *)
(* only where the ledger has the event, whatever failed between the two.   *)
LedgerBacksProgress ==
  \A u \in Users, c \in Slugs :
    LET row == progress[u][c]
    IN /\ row.status = "completed" => c \in ledger[u]
       /\ row.points = IF row.solved THEN Points[c] ELSE 0
       /\ row.solved => row.status = "completed"

(* The totalPoints of an answer covers every award made before the call,   *)
(* and the challenge itself when the answer is correct, and counts nothing *)
(* the ledger does not have.                                               *)
TotalIsCurrent ==
  \A s \in Slots :
    LET r == req[s]
    IN r.stage = "done" =>
         /\ r.total <= PointsOf(ledger[r.user])
         /\ r.total >= PointsOf(r.since \cup (IF r.correct THEN {r.slug} ELSE {}))

(* The two reads of getUserSummary are no snapshot, but their order makes  *)
(* the answer safe: totalPoints is never below the points of the rows it   *)
(* comes with.                                                             *)
SummaryIsBacked ==
  \A s \in Slots :
    req[s].stage = "done" /\ req[s].op = "progress" =>
      req[s].total >= PointsOf({c \in Slugs : req[s].rows[c].solved})

(* Every award is on its way to the progress row until it is there: only a *)
(* fault of the scoring request itself, right between its insert and its   *)
(* update, can leave the two apart; no race with other submissions does.   *)
NoAwardForgotten ==
  \A u \in Users, c \in Slugs :
    c \in ledger[u] =>
      \/ progress[u][c].solved
      \/ \E s \in Slots : req[s].stage = "complete" /\ req[s].user = u /\ req[s].slug = c
      \/ <<u, c>> \in lost

(* So an award gets there in the end, unless such a fault hits it.         *)
AwardReachesProgress ==
  \A u \in Users, c \in Slugs :
    c \in ledger[u] ~> progress[u][c].solved \/ <<u, c>> \in lost

(* repositories/types.ts: recordSubmission transactionally increments the  *)
(* counter and, on the first correct solve, records completion and appends *)
(* the event.  So once a correct submission is answered and no other call  *)
(* is in flight, the progress row shows the solve.                         *)
AnsweredSolveIsRecorded ==
  \A s \in Slots :
    /\ req[s].stage = "done" /\ req[s].correct
    /\ \A t \in Slots \ {s} : req[t].stage = "idle"
    => progress[req[s].user][req[s].slug].solved
=============================================================================
