--------------------------- MODULE ScoringProofs ----------------------------
(***************************************************************************)
(* However many submissions race, fail and are retried, Scoring implements *)
(* ScoreBook, the progress row never runs ahead of the ledger, and every   *)
(* total that is answered is between what its user is owed and what the    *)
(* ledger has.                                                             *)
(*                                                                         *)
(* The points of a set are a fold.  What the last part needs of them is    *)
(* proved by a smallest counterexample: of a family of subsets of a finite *)
(* set, one holds no other (SmallestSet).  SInv does without and leaves    *)
(* the field `total` loose.                                                *)
(***************************************************************************)
EXTENDS Scoring, FiniteSetTheorems, TLAPS

Totals == Nat \cup {PointsOf(S) : S \in SUBSET Slugs}

LooseRequest ==
  [stage : Waiting \cup {"idle", "done", "refused"}, op : {"submit", "progress"},
   user : Users \cup {NoUser}, slug : Slugs \cup {NoSlug},
   correct : BOOLEAN, already : BOOLEAN, gained : Nat, total : Totals,
   rows : [Slugs -> Row], since : SUBSET Slugs]

LooseType ==
  /\ progress \in [Users -> [Slugs -> Row]]
  /\ ledger \in [Users -> SUBSET Slugs]
  /\ announced \in [Users -> [Slugs -> {0, 1}]]
  /\ req \in [Slots -> LooseRequest]

Submitting == {"env", "attempt", "award", "complete", "mark", "total", "verdict", "announce"}

(* The request has inserted the event and may still announce it.           *)
Claim(r) ==
  r.stage \in {"complete", "total", "verdict", "announce"} /\ r.correct /\ ~r.already

(* A request knows whom and what it is for, and has come to its stage the  *)
(* only way there is.                                                      *)
Placed(r) ==
  /\ r.stage \in Submitting => r.user \in Users /\ r.slug \in Slugs
  /\ r.stage \in {"rows", "sum"} => r.user \in Users
  /\ r.stage \in {"award", "complete", "announce"} => r.correct /\ ~r.already
  /\ r.stage \in {"env", "attempt"} => ~r.already
  /\ r.stage = "mark" => r.already /\ r.slug \in ledger[r.user]

(* A claim is covered by the ledger, unannounced, and nobody else's.       *)
ClaimsExclusive ==
  /\ \A s \in Slots : Claim(req[s]) =>
       req[s].slug \in ledger[req[s].user] /\ announced[req[s].user][req[s].slug] = 0
  /\ \A s, t \in Slots : s # t /\ Claim(req[s]) /\ Claim(req[t]) =>
       req[s].user # req[t].user \/ req[s].slug # req[t].slug

Announced == \A u \in Users, c \in Slugs : announced[u][c] = 1 => c \in ledger[u]

SInv ==
  /\ LooseType
  /\ \A s \in Slots : Placed(req[s])
  /\ ClaimsExclusive
  /\ Announced
  /\ LedgerBacksProgress
  /\ NoAwardForgotten

-----------------------------------------------------------------------------

LEMMA IdleIsLoose == Idle \in LooseRequest /\ ~Claim(Idle) /\ NoRows \in [Slugs -> Row]
BY DEF Idle, LooseRequest, Waiting, NoRows, NoRow, Row, Totals, Claim

LEMMA InitSInv == Init => SInv
<1> SUFFICES ASSUME Init PROVE SInv
  OBVIOUS
<1>1. LooseType
  BY IdleIsLoose DEF Init, LooseType
<1>2. \A s \in Slots : Placed(req[s])
  BY DEF Init, Placed, Idle, Submitting
<1>3. ClaimsExclusive /\ Announced
  BY IdleIsLoose DEF Init, ClaimsExclusive, Announced
<1>4. LedgerBacksProgress /\ NoAwardForgotten
  BY DEF Init, LedgerBacksProgress, NoAwardForgotten, NoRows, NoRow
<1> QED BY <1>1, <1>2, <1>3, <1>4 DEF SInv

(* A step of one request that leaves the tables alone keeps the invariant  *)
(* if the request stays placed, claims no more than it did, and leaves an  *)
(* award behind only as lost.                                              *)
LEMMA LocalStepKeepsSInv ==
  ASSUME SInv, NEW s \in Slots, NEW r, r \in LooseRequest, Become(s, r),
         UNCHANGED <<progress, ledger, announced>>, Placed(r), lost \subseteq lost',
         req[s].stage = "complete" => <<req[s].user, req[s].slug>> \in lost',
         Claim(r) => Claim(req[s]) /\ r.user = req[s].user /\ r.slug = req[s].slug
  PROVE  SInv'
<1>1. req' \in [Slots -> LooseRequest] /\ req'[s] = r /\ \A t \in Slots \ {s} : req'[t] = req[t]
  BY DEF SInv, LooseType, Become
<1>2. LooseType'
  BY <1>1 DEF SInv, LooseType
<1>3. \A t \in Slots : Placed(req[t])'
  BY <1>1 DEF SInv, Placed
<1>4. ClaimsExclusive'
  BY <1>1 DEF SInv, ClaimsExclusive, Claim
<1>5. Announced' /\ LedgerBacksProgress'
  BY DEF SInv, Announced, LedgerBacksProgress
<1>6. NoAwardForgotten'
  BY <1>1 DEF SInv, NoAwardForgotten
<1> QED BY <1>2, <1>3, <1>4, <1>5, <1>6 DEF SInv

LEMMA CallKeepsSInv ==
  ASSUME SInv, NEW s \in Slots, Call(s)
  PROVE  SInv'
<1>1. ASSUME NEW u \in Users, NEW c \in Slugs, NEW correct \in BOOLEAN, NEW valid \in BOOLEAN,
             Submit(s, u, c, correct, valid)
      PROVE  SInv'
  <2> DEFINE r == [Idle EXCEPT !.stage = IF valid THEN "env" ELSE "refused", !.op = "submit",
                               !.user = u, !.slug = c, !.correct = correct, !.since = ledger[u]]
  <2>1. r \in LooseRequest
    BY IdleIsLoose DEF LooseRequest, Waiting, SInv, LooseType
  <2>2. Placed(r) /\ ~Claim(r)
    BY DEF Idle, Placed, Submitting, Claim
  <2> QED BY <1>1, <2>1, <2>2, LocalStepKeepsSInv DEF Submit
<1>2. ASSUME NEW u \in Users, GetProgress(s, u) PROVE SInv'
  <2> DEFINE r == [Idle EXCEPT !.stage = "rows", !.user = u, !.since = ledger[u]]
  <2>1. r \in LooseRequest
    BY IdleIsLoose DEF LooseRequest, Waiting, SInv, LooseType
  <2>2. Placed(r) /\ ~Claim(r)
    BY DEF Idle, Placed, Submitting, Claim
  <2> QED BY <1>2, <2>1, <2>2, LocalStepKeepsSInv DEF GetProgress
<1> QED BY <1>1, <1>2 DEF Call

(* The steps that touch no table: checks, reads, verdicts and endings.     *)
LEMMA ReadingKeepsSInv ==
  ASSUME SInv, NEW s \in Slots,
         \/ \E open \in BOOLEAN : CheckEnvironment(s, open)
         \/ Total(s) \/ Verdict(s) \/ ReadRows(s) \/ ReadSum(s) \/ Reply(s) \/ Abort(s)
  PROVE  SInv'
<1> DEFINE r == req[s]
<1>1. r \in LooseRequest /\ Placed(r) /\ LooseType
  BY DEF SInv, LooseType
<1>2. ASSUME NEW open \in BOOLEAN, CheckEnvironment(s, open) PROVE SInv'
  <2> DEFINE q == [r EXCEPT !.stage = IF open THEN "attempt" ELSE "refused"]
  <2>1. q \in LooseRequest
    BY <1>1 DEF LooseRequest, Waiting
  <2>2. Placed(q) /\ ~Claim(q)
    BY <1>1, <1>2 DEF CheckEnvironment, Placed, Submitting, Claim, LooseRequest
  <2> QED BY <1>2, <2>1, <2>2, LocalStepKeepsSInv DEF CheckEnvironment
<1>3. ASSUME Total(s) PROVE SInv'
  <2> DEFINE q == [r EXCEPT !.stage = "verdict", !.total = PointsOf(ledger[r.user])]
  <2>1. r.stage = "total" /\ r.user \in Users
    BY <1>1, <1>3 DEF Total, Placed, Submitting
  <2>2. PointsOf(ledger[r.user]) \in Totals
    BY <1>1, <2>1 DEF LooseType, Totals
  <2> HIDE DEF r
  <2>3. q \in LooseRequest
    BY <1>1, <2>2 DEF LooseRequest, Waiting
  <2>4. Placed(q) /\ (Claim(q) => Claim(r) /\ q.user = r.user /\ q.slug = r.slug)
    BY <1>1, <2>1 DEF Placed, Submitting, Claim, LooseRequest
  <2> USE DEF r
  <2> QED BY <1>3, <2>3, <2>4, LocalStepKeepsSInv DEF Total
<1>4. ASSUME Verdict(s) PROVE SInv'
  <2> DEFINE q == [r EXCEPT !.stage = IF r.correct /\ ~r.already THEN "announce" ELSE "done"]
  <2>1. q \in LooseRequest
    BY <1>1 DEF LooseRequest, Waiting
  <2>2. Placed(q) /\ (Claim(q) => Claim(r) /\ q.user = r.user /\ q.slug = r.slug)
    BY <1>1, <1>4 DEF Verdict, Placed, Submitting, Claim, LooseRequest
  <2> QED BY <1>4, <2>1, <2>2, LocalStepKeepsSInv DEF Verdict
<1>5. ASSUME ReadRows(s) PROVE SInv'
  <2> DEFINE q == [r EXCEPT !.stage = "sum", !.rows = progress[r.user]]
  <2>1. r.user \in Users /\ r.stage = "rows"
    BY <1>1, <1>5 DEF ReadRows, Placed
  <2>2. q \in LooseRequest
    BY <1>1, <2>1 DEF LooseRequest, Waiting, LooseType
  <2>3. Placed(q) /\ ~Claim(q)
    BY <1>1, <2>1 DEF Placed, Submitting, Claim, LooseRequest
  <2> QED BY <1>5, <2>2, <2>3, LocalStepKeepsSInv DEF ReadRows
<1>6. ASSUME ReadSum(s) PROVE SInv'
  <2> DEFINE q == [r EXCEPT !.stage = "done", !.total = PointsOf(ledger[r.user])]
  <2>1. r.user \in Users
    BY <1>1, <1>6 DEF ReadSum, Placed
  <2>2. PointsOf(ledger[r.user]) \in Totals
    BY <1>1, <2>1 DEF LooseType, Totals
  <2>3. q \in LooseRequest
    BY <1>1, <2>2 DEF LooseRequest
  <2>4. Placed(q) /\ ~Claim(q)
    BY <1>1 DEF Placed, Submitting, Claim, LooseRequest
  <2> QED BY <1>6, <2>3, <2>4, LocalStepKeepsSInv DEF ReadSum
<1>7. ASSUME Reply(s) \/ Abort(s) PROVE SInv'
  <2>1. Placed(Idle)
    BY DEF Idle, Placed, Submitting
  <2>2. lost \subseteq lost' /\ (r.stage = "complete" => <<r.user, r.slug>> \in lost')
    BY <1>7 DEF Reply, Abort, CutOff
  <2> QED BY <1>7, <2>1, <2>2, IdleIsLoose, LocalStepKeepsSInv DEF Reply, Abort
<1> QED BY <1>2, <1>3, <1>4, <1>5, <1>6, <1>7

LEMMA CountAttemptKeepsSInv ==
  ASSUME SInv, NEW s \in Slots, CountAttempt(s)
  PROVE  SInv'
<1> DEFINE r == req[s]
           row == [progress[r.user][r.slug] EXCEPT !.attempts = @ + 1]
           q == [r EXCEPT !.stage = AfterAttempt(row, r.correct), !.already = r.correct /\ row.solved]
<1>1. /\ r \in LooseRequest /\ Placed(r) /\ LooseType
      /\ r.user \in Users /\ r.slug \in Slugs /\ r.stage = "attempt" /\ ~r.already
  BY DEF SInv, LooseType, CountAttempt, Placed, Submitting
<1>2. progress[r.user][r.slug] \in Row
  BY <1>1 DEF LooseType
<1>3. /\ row \in Row /\ row.solved = progress[r.user][r.slug].solved
      /\ row.status = progress[r.user][r.slug].status
      /\ row.points = progress[r.user][r.slug].points
  BY <1>2 DEF Row
<1>4. progress' = [progress EXCEPT ![r.user][r.slug] = row] /\ Become(s, q)
      /\ UNCHANGED <<ledger, announced, lost>>
  BY DEF CountAttempt
<1> HIDE DEF row
<1>5. AfterAttempt(row, r.correct) \in {"total", "award"}
      /\ (r.correct /\ ~row.solved <=> AfterAttempt(row, r.correct) = "award")
  BY DEF AfterAttempt
<1>6. q \in LooseRequest
  BY <1>1, <1>3, <1>5 DEF LooseRequest, Waiting, Row
<1>7. Placed(q) /\ ~Claim(q) /\ ~Claim(r)
  BY <1>1, <1>3, <1>5 DEF Placed, Submitting, Claim, LooseRequest, Row
<1> HIDE DEF q
<1>8. req' \in [Slots -> LooseRequest] /\ req'[s] = q /\ \A t \in Slots \ {s} : req'[t] = req[t]
  BY <1>1, <1>4, <1>6 DEF LooseType, Become
<1>9. /\ progress' \in [Users -> [Slugs -> Row]]
      /\ \A u \in Users, c \in Slugs :
           /\ progress'[u][c].solved = progress[u][c].solved
           /\ progress'[u][c].status = progress[u][c].status
           /\ progress'[u][c].points = progress[u][c].points
  BY <1>1, <1>3, <1>4 DEF LooseType
<1>10. LooseType' /\ \A t \in Slots : Placed(req[t])'
  <2>1. LooseType'
    BY <1>1, <1>4, <1>8, <1>9 DEF LooseType
  <2>2. \A t \in Slots : Placed(req[t])'
    BY <1>4, <1>7, <1>8 DEF SInv, Placed
  <2> QED BY <2>1, <2>2
<1>11. ClaimsExclusive'
  BY <1>4, <1>7, <1>8 DEF SInv, ClaimsExclusive, Claim
<1>12. Announced' /\ LedgerBacksProgress'
  BY <1>4, <1>9 DEF SInv, Announced, LedgerBacksProgress
<1>13. NoAwardForgotten'
  BY <1>1, <1>4, <1>8, <1>9 DEF SInv, NoAwardForgotten
<1> QED BY <1>10, <1>11, <1>12, <1>13 DEF SInv

(* The unique key makes the inserting request the only claimant.           *)
LEMMA AwardKeepsSInv ==
  ASSUME SInv, NEW s \in Slots, Award(s)
  PROVE  SInv'
<1> DEFINE r == req[s]
<1>1. /\ r \in LooseRequest /\ Placed(r) /\ LooseType
      /\ r.user \in Users /\ r.slug \in Slugs /\ r.stage = "award" /\ r.correct /\ ~r.already
  BY DEF SInv, LooseType, Award, Placed, Submitting
<1>2. CASE r.slug \in ledger[r.user]
  <2> DEFINE q == [r EXCEPT !.stage = "mark", !.already = TRUE]
  <2>1. q \in LooseRequest
    BY <1>1 DEF LooseRequest, Waiting
  <2>2. Placed(q) /\ ~Claim(q)
    BY <1>1, <1>2 DEF Placed, Submitting, Claim, LooseRequest
  <2> QED BY <1>2, <2>1, <2>2, LocalStepKeepsSInv DEF Award
<1>3. CASE r.slug \notin ledger[r.user]
  <2> DEFINE q == [r EXCEPT !.stage = "complete"]
  <2>1. /\ ledger' = [ledger EXCEPT ![r.user] = @ \cup {r.slug}] /\ Become(s, q)
        /\ UNCHANGED <<progress, announced, lost>>
    BY <1>3 DEF Award
  <2>2. q \in LooseRequest
    BY <1>1 DEF LooseRequest, Waiting
  <2>3. q.user = r.user /\ q.slug = r.slug /\ q.stage = "complete" /\ q.correct /\ ~q.already
    BY <1>1 DEF LooseRequest
  <2> HIDE DEF q
  <2>4. req' \in [Slots -> LooseRequest] /\ req'[s] = q /\ \A t \in Slots \ {s} : req'[t] = req[t]
    BY <1>1, <2>1, <2>2 DEF LooseType, Become
  <2>5. /\ ledger' \in [Users -> SUBSET Slugs]
        /\ \A u \in Users : ledger[u] \subseteq ledger'[u]
        /\ r.slug \in ledger'[r.user]
    BY <1>1, <2>1 DEF LooseType
  <2>6. LooseType'
    BY <1>1, <2>1, <2>4, <2>5 DEF LooseType
  <2>7. \A t \in Slots : Placed(req[t])'
    <3> SUFFICES ASSUME NEW t \in Slots PROVE Placed(req[t])'
      OBVIOUS
    <3>1. CASE t = s
      BY <1>1, <2>3, <2>4, <2>5, <3>1 DEF Placed, Submitting
    <3>2. CASE t # s
      <4>1. req'[t] = req[t] /\ Placed(req[t])
        BY <2>4, <3>2 DEF SInv
      <4>2. req[t].stage = "mark" => req[t].user \in Users
        BY <4>1 DEF Placed, Submitting
      <4> QED BY <4>1, <4>2, <2>5 DEF Placed
    <3> QED BY <3>1, <3>2
  <2>8. announced[r.user][r.slug] = 0
    BY <1>1, <1>3 DEF SInv, Announced, LooseType
  <2>9. \A t \in Slots \ {s} : Claim(req[t]) =>
          /\ req[t].user \in Users /\ req[t].slug \in ledger[req[t].user]
          /\ announced[req[t].user][req[t].slug] = 0
          /\ req[t].user # r.user \/ req[t].slug # r.slug
    BY <1>3 DEF SInv, ClaimsExclusive, Claim, Placed, Submitting
  <2>10. ClaimsExclusive'
    <3>1. \A t \in Slots \ {s} : Claim(req'[t]) =>
            /\ req'[t].slug \in ledger'[req'[t].user]
            /\ announced'[req'[t].user][req'[t].slug] = 0
            /\ req'[t].user # r.user \/ req'[t].slug # r.slug
      BY <2>1, <2>4, <2>5, <2>9
    <3>2. req'[s].user = r.user /\ req'[s].slug = r.slug
      BY <2>3, <2>4
    <3>3. \A t, x \in Slots \ {s} : t # x /\ Claim(req'[t]) /\ Claim(req'[x]) =>
            req'[t].user # req'[x].user \/ req'[t].slug # req'[x].slug
      BY <2>4 DEF SInv, ClaimsExclusive
    <3> QED BY <2>1, <2>5, <2>8, <3>1, <3>2, <3>3 DEF ClaimsExclusive, Claim
  <2>11. Announced' /\ LedgerBacksProgress'
    BY <2>1, <2>5 DEF SInv, Announced, LedgerBacksProgress
  <2>12. NoAwardForgotten'
    <3> SUFFICES ASSUME NEW u \in Users, NEW c \in Slugs, c \in ledger'[u]
                 PROVE  \/ progress'[u][c].solved
                        \/ \E t \in Slots : /\ req'[t].stage = "complete"
                                            /\ req'[t].user = u /\ req'[t].slug = c
                        \/ <<u, c>> \in lost'
      BY DEF NoAwardForgotten
    <3>1. CASE u = r.user /\ c = r.slug
      BY <2>3, <2>4, <3>1
    <3>2. CASE ~(u = r.user /\ c = r.slug)
      <4>1. c \in ledger[u]
        BY <1>1, <2>1, <3>2 DEF LooseType
      <4> QED BY <1>1, <2>1, <2>4, <4>1 DEF SInv, NoAwardForgotten
    <3> QED BY <3>1, <3>2
  <2> QED BY <2>6, <2>7, <2>10, <2>11, <2>12 DEF SInv
<1> QED BY <1>2, <1>3

LEMMA CompleteKeepsSInv ==
  ASSUME SInv, NEW s \in Slots, Complete(s)
  PROVE  SInv'
<1> DEFINE r == req[s]
           row == Completed(progress[r.user][r.slug], r.slug)
           q == [r EXCEPT !.stage = "total", !.gained = Points[r.slug]]
<1>1. /\ r \in LooseRequest /\ Placed(r) /\ LooseType
      /\ r.user \in Users /\ r.slug \in Slugs /\ r.stage = "complete" /\ Claim(r)
      /\ Points[r.slug] \in Nat /\ r.slug \in ledger[r.user]
  BY ScoringAssumption DEF SInv, LooseType, Complete, Placed, Submitting, Claim, ClaimsExclusive
<1>2. row \in Row /\ row.status = "completed" /\ row.solved /\ row.points = Points[r.slug]
  <2>1. progress[r.user][r.slug] \in Row
    BY <1>1 DEF LooseType
  <2> QED BY <1>1, <2>1 DEF Completed, Row
<1>3. progress' = [progress EXCEPT ![r.user][r.slug] = row] /\ Become(s, q)
      /\ UNCHANGED <<ledger, announced, lost>>
  BY DEF Complete
<1> HIDE DEF row
<1>4. q \in LooseRequest
  BY <1>1 DEF LooseRequest, Waiting
<1>5. Placed(q) /\ Claim(q) /\ q.user = r.user /\ q.slug = r.slug
  BY <1>1 DEF Placed, Submitting, Claim, LooseRequest
<1> HIDE DEF q
<1>6. req' \in [Slots -> LooseRequest] /\ req'[s] = q /\ \A t \in Slots \ {s} : req'[t] = req[t]
  BY <1>1, <1>3, <1>4 DEF LooseType, Become
<1>7. LooseType'
  BY <1>1, <1>2, <1>3, <1>6 DEF LooseType
<1>8. \A t \in Slots : Placed(req[t])'
  BY <1>3, <1>5, <1>6 DEF SInv, Placed
<1>9. ClaimsExclusive' /\ Announced'
  BY <1>1, <1>3, <1>5, <1>6 DEF SInv, ClaimsExclusive, Claim, Announced
<1>10. LedgerBacksProgress'
  BY <1>1, <1>2, <1>3 DEF SInv, LedgerBacksProgress, LooseType
<1>11. \A u \in Users, c \in Slugs : progress[u][c].solved => progress'[u][c].solved
  BY <1>1, <1>2, <1>3 DEF LooseType
<1>12. progress'[r.user][r.slug].solved
  BY <1>1, <1>2, <1>3 DEF LooseType
<1>13. NoAwardForgotten'
  BY <1>3, <1>6, <1>11, <1>12 DEF SInv, NoAwardForgotten
<1> QED BY <1>7, <1>8, <1>9, <1>10, <1>13 DEF SInv

LEMMA MarkKeepsSInv ==
  ASSUME SInv, NEW s \in Slots, Mark(s)
  PROVE  SInv'
<1> DEFINE r == req[s]
           row == [progress[r.user][r.slug] EXCEPT !.status = "completed"]
           q == [r EXCEPT !.stage = "total"]
<1>1. /\ r \in LooseRequest /\ Placed(r) /\ LooseType
      /\ r.user \in Users /\ r.slug \in Slugs /\ r.stage = "mark"
      /\ r.already /\ r.slug \in ledger[r.user]
  BY DEF SInv, LooseType, Mark, Placed, Submitting
<1>2. /\ row \in Row /\ row.status = "completed"
      /\ row.solved = progress[r.user][r.slug].solved
      /\ row.points = progress[r.user][r.slug].points
  <2>1. progress[r.user][r.slug] \in Row
    BY <1>1 DEF LooseType
  <2> QED BY <2>1 DEF Row
<1>3. progress' = [progress EXCEPT ![r.user][r.slug] = row] /\ Become(s, q)
      /\ UNCHANGED <<ledger, announced, lost>>
  BY <1>1 DEF Mark, LooseType
<1> HIDE DEF row
<1>4. q \in LooseRequest
  BY <1>1 DEF LooseRequest, Waiting
<1>5. Placed(q) /\ ~Claim(q)
  BY <1>1 DEF Placed, Submitting, Claim, LooseRequest
<1> HIDE DEF q
<1>6. req' \in [Slots -> LooseRequest] /\ req'[s] = q /\ \A t \in Slots \ {s} : req'[t] = req[t]
  BY <1>1, <1>3, <1>4 DEF LooseType, Become
<1>7. LooseType'
  BY <1>1, <1>2, <1>3, <1>6 DEF LooseType
<1>8. \A t \in Slots : Placed(req[t])'
  BY <1>3, <1>5, <1>6 DEF SInv, Placed
<1>9. ClaimsExclusive' /\ Announced'
  BY <1>3, <1>5, <1>6 DEF SInv, ClaimsExclusive, Claim, Announced
<1>10. LedgerBacksProgress'
  BY <1>1, <1>2, <1>3 DEF SInv, LedgerBacksProgress, LooseType
<1>11. \A u \in Users, c \in Slugs : progress[u][c].solved => progress'[u][c].solved
  BY <1>1, <1>2, <1>3 DEF LooseType
<1>12. NoAwardForgotten'
  BY <1>1, <1>3, <1>6, <1>11 DEF SInv, NoAwardForgotten
<1> QED BY <1>7, <1>8, <1>9, <1>10, <1>12 DEF SInv

(* The announcement ends the claim: nobody can make it a second time.      *)
LEMMA AnnounceKeepsSInv ==
  ASSUME SInv, NEW s \in Slots, Announce(s)
  PROVE  SInv'
<1> DEFINE r == req[s]
           q == [r EXCEPT !.stage = "done"]
<1>1. /\ r \in LooseRequest /\ Placed(r) /\ LooseType
      /\ r.user \in Users /\ r.slug \in Slugs /\ r.stage = "announce" /\ Claim(r)
      /\ r.slug \in ledger[r.user] /\ announced[r.user][r.slug] = 0
  BY DEF SInv, LooseType, Announce, Placed, Submitting, Claim, ClaimsExclusive
<1>2. announced' = [announced EXCEPT ![r.user][r.slug] = 1] /\ Become(s, q)
      /\ UNCHANGED <<progress, ledger, lost>>
  BY <1>1 DEF Announce, LooseType
<1>3. q \in LooseRequest /\ Placed(q) /\ ~Claim(q)
  BY <1>1 DEF Placed, Submitting, Claim, LooseRequest
<1> HIDE DEF q
<1>4. req' \in [Slots -> LooseRequest] /\ req'[s] = q /\ \A t \in Slots \ {s} : req'[t] = req[t]
  BY <1>1, <1>2, <1>3 DEF LooseType, Become
<1>5. LooseType'
  BY <1>1, <1>2, <1>4 DEF LooseType
<1>6. \A t \in Slots : Placed(req[t])'
  BY <1>2, <1>3, <1>4 DEF SInv, Placed
<1>7. ClaimsExclusive'
  <2>1. \A t \in Slots \ {s} : Claim(req[t]) =>
          /\ req[t].user \in Users /\ req[t].slug \in Slugs
          /\ req[t].user # r.user \/ req[t].slug # r.slug
    BY <1>1 DEF SInv, ClaimsExclusive, Claim, Placed, Submitting
  <2>2. \A t \in Slots \ {s} : Claim(req[t]) =>
          announced'[req[t].user][req[t].slug] = announced[req[t].user][req[t].slug]
    BY <1>1, <1>2, <2>1 DEF LooseType
  <2> QED BY <1>2, <1>3, <1>4, <2>2 DEF SInv, ClaimsExclusive
<1>8. Announced'
  BY <1>1, <1>2 DEF SInv, Announced, LooseType
<1>9. LedgerBacksProgress'
  BY <1>2 DEF SInv, LedgerBacksProgress
<1>10. NoAwardForgotten'
  BY <1>1, <1>2, <1>4 DEF SInv, NoAwardForgotten
<1> QED BY <1>5, <1>6, <1>7, <1>8, <1>9, <1>10 DEF SInv

LEMMA NextKeepsSInv == SInv /\ [Next]_vars => SInv'
<1> SUFFICES ASSUME SInv, [Next]_vars PROVE SInv'
  OBVIOUS
<1>1. ASSUME NEW s \in Slots, Call(s) \/ Progress(s) \/ Abort(s) PROVE SInv'
  BY <1>1, CallKeepsSInv, ReadingKeepsSInv, CountAttemptKeepsSInv, AwardKeepsSInv,
     CompleteKeepsSInv, MarkKeepsSInv, AnnounceKeepsSInv DEF Progress
<1>2. CASE Restart
  <2>1. \A s \in Slots : req'[s] = Idle
    BY <1>2 DEF Restart
  <2>2. LooseType'
    BY <1>2, IdleIsLoose DEF Restart, SInv, LooseType
  <2>3. \A s \in Slots : Placed(req[s])'
    BY <2>1 DEF Idle, Placed, Submitting
  <2>4. ClaimsExclusive'
    BY <2>1, IdleIsLoose DEF ClaimsExclusive
  <2>5. Announced' /\ LedgerBacksProgress'
    BY <1>2 DEF Restart, SInv, Announced, LedgerBacksProgress
  <2>6. NoAwardForgotten'
    BY <1>2 DEF Restart, CutOff, SInv, NoAwardForgotten
  <2> QED BY <2>2, <2>3, <2>4, <2>5, <2>6 DEF SInv
<1>3. CASE UNCHANGED vars
  BY <1>3 DEF vars, SInv, LooseType, Placed, ClaimsExclusive, Claim, Announced,
              LedgerBacksProgress, NoAwardForgotten
<1> QED BY <1>1, <1>2, <1>3 DEF Next

LEMMA ScoringInvariance == Spec => []SInv
BY InitSInv, NextKeepsSInv, PTL DEF Spec

(* The progress row never shows more than the ledger has.                  *)
THEOREM ProgressIsBacked == Spec => []LedgerBacksProgress
<1>1. SInv => LedgerBacksProgress
  BY DEF SInv
<1> QED BY <1>1, ScoringInvariance, PTL

(* Only a fault between insert and update parts an award from its row.     *)
THEOREM AwardsAreRecorded == Spec => []NoAwardForgotten
<1>1. SInv => NoAwardForgotten
  BY DEF SInv
<1> QED BY <1>1, ScoringInvariance, PTL

-----------------------------------------------------------------------------

LEMMA NextScores == SInv /\ [Next]_vars => [Book!Next]_<<ledger, announced>>
<1> SUFFICES ASSUME SInv, [Next]_vars, ~UNCHANGED <<ledger, announced>> PROVE Book!Next
  OBVIOUS
<1>1. PICK s \in Slots : Award(s) \/ Announce(s)
  BY DEF Next, vars, Call, Submit, GetProgress, Progress, CheckEnvironment, CountAttempt,
         Complete, Mark, Total, Verdict, ReadRows, ReadSum, Reply, Abort, Restart
<1>2. req[s] \in LooseRequest /\ Placed(req[s]) /\ LooseType
  BY DEF SInv, LooseType
<1>3. CASE Award(s)
  <2>1. PICK u \in Users, c \in Slugs : u = req[s].user /\ c = req[s].slug
    BY <1>2, <1>3 DEF Award, Placed, Submitting
  <2>2. c \notin ledger[u] /\ ledger' = [ledger EXCEPT ![u] = @ \cup {c}] /\ UNCHANGED announced
    BY <1>3, <2>1 DEF Award
  <2> QED BY <2>2 DEF Book!Next, Book!Award
<1>4. CASE Announce(s)
  <2>1. PICK u \in Users, c \in Slugs : u = req[s].user /\ c = req[s].slug
    BY <1>2, <1>4 DEF Announce, Placed, Submitting
  <2>2. c \in ledger[u] /\ announced[u][c] = 0
    BY <1>2, <1>4, <2>1 DEF Announce, SInv, ClaimsExclusive, Claim, Placed
  <2>3. announced' = [announced EXCEPT ![u][c] = 1] /\ UNCHANGED ledger
    BY <1>2, <1>4, <2>1, <2>2 DEF Announce, LooseType
  <2> QED BY <2>2, <2>3 DEF Book!Next, Book!Announce
<1> QED BY <1>1, <1>3, <1>4

(* Racing, failing and retried submissions score at most once and announce *)
(* the award at most once, after the ledger has it.                        *)
THEOREM ScoringImplementsScoreBook == Spec => ImplementsScoreBook
<1>1. Init => Book!Init
  BY DEF Init, Book!Init
<1> QED BY <1>1, NextScores, ScoringInvariance, PTL
        DEF Spec, ImplementsScoreBook, Book!Spec, Book!bookVars

-----------------------------------------------------------------------------
(* Of some subsets of a finite set, one has no other within it: what the   *)
(* lemmas below need of induction.                                         *)
LEMMA SmallestSet ==
  ASSUME NEW S, IsFiniteSet(S), NEW F \in SUBSET (SUBSET S), F # {}
  PROVE  \E s \in F : \A t \in F : t \subseteq s => t = s
<1>1. IsWellFoundedOn(StrictSubsetOrdering(S), SUBSET S)
  BY FS_StrictSubsetOrderingWellFounded, FS_FiniteSubsetsOfFinite
<1>2. \E s \in F : \A t \in F : ~(<<t, s>> \in StrictSubsetOrdering(S))
  BY <1>1, WFMin
<1> QED BY <1>2 DEF StrictSubsetOrdering

First(s) == CHOOSE x \in s : TRUE

Sum(g, s) == IF s = {} THEN 0 ELSE Points[First(s)] + g[s \ {First(s)}]

Sums(S) == CHOOSE g : g = [s \in SUBSET S |-> Sum(g, s)]

IsSum(g, S) == \A s \in SUBSET S : g[s] = Sum(g, s)

LEMMA PointsOfIs == \A S : PointsOf(S) = Sums(S)[S]
BY DEF PointsOf, MapThenSumSet, MapThenFoldSet, Sums, Sum, First

LEMMA FirstIn == \A s : s # {} => First(s) \in s
BY DEF First

LEMMA SumUnique ==
  ASSUME NEW S, IsFiniteSet(S), NEW T, NEW g, NEW h, IsSum(g, S), IsSum(h, T)
  PROVE  \A s \in SUBSET (S \cap T) : g[s] = h[s]
<1> DEFINE F == {s \in SUBSET (S \cap T) : g[s] # h[s]}
<1> SUFFICES ASSUME F # {} PROVE FALSE
  OBVIOUS
<1>1. PICK s \in F : \A t \in F : t \subseteq s => t = s
  <2>1. F \in SUBSET (SUBSET S)
    OBVIOUS
  <2> HIDE DEF F
  <2> QED BY <2>1, SmallestSet
<1>2. s # {}
  BY DEF IsSum, Sum
<1>3. First(s) \in s
  BY <1>2, FirstIn
<1>4. g[s \ {First(s)}] = h[s \ {First(s)}]
  BY <1>1, <1>3
<1> QED BY <1>2, <1>4 DEF IsSum, Sum

LEMMA SumExists ==
  ASSUME NEW S, IsFiniteSet(S)
  PROVE  IsSum(Sums(S), S)
<1> DEFINE Def(s) == Sums(s) = [t \in SUBSET s |-> Sum(Sums(s), t)]
           F == {s \in SUBSET S : ~Def(s)}
<1>1. F = {}
  <2> SUFFICES ASSUME F # {} PROVE FALSE
    OBVIOUS
  <2>1. PICK s \in F : \A t \in F : t \subseteq s => t = s
    <3>1. F \in SUBSET (SUBSET S)
      OBVIOUS
    <3> HIDE DEF F
    <3> QED BY <3>1, SmallestSet
  <2>2. \A t \in SUBSET s : t # s => Def(t) /\ IsSum(Sums(t), t)
    <3>1. \A t \in SUBSET s : t # s => Def(t)
      BY <2>1
    <3> QED BY <3>1 DEF IsSum
  <2> DEFINE Part(t) == Sums(t \ {First(t)})[t \ {First(t)}]
             g == [t \in SUBSET s |-> IF t = {} THEN 0 ELSE Points[First(t)] + Part(t)]
  <2>3. ASSUME NEW t \in SUBSET s, t # {}
        PROVE  g[t \ {First(t)}] = Part(t)
    <3> DEFINE u == t \ {First(t)}
               v == u \ {First(u)}
    <3>1. u \in SUBSET s /\ u # s /\ IsFiniteSet(u)
      BY <2>3, FirstIn, FS_Subset
    <3>2. IsSum(Sums(u), u)
      BY <2>2, <3>1
    <3>3. CASE u = {}
      BY <3>1, <3>2, <3>3 DEF IsSum, Sum
    <3>4. CASE u # {}
      <4>1. v \in SUBSET s /\ v # s /\ v \subseteq u
        BY <3>1
      <4>2. IsSum(Sums(v), v)
        BY <2>2, <4>1
      <4>3. Sums(u)[v] = Sums(v)[v]
        BY <3>1, <3>2, <4>1, <4>2, SumUnique
      <4>4. Sums(u)[u] = Points[First(u)] + Sums(u)[v]
        BY <3>2, <3>4 DEF IsSum, Sum
      <4>5. g[u] = Points[First(u)] + Sums(v)[v]
        BY <3>1, <3>4
      <4> QED BY <4>3, <4>4, <4>5
    <3> QED BY <3>3, <3>4
  <2>4. g = [t \in SUBSET s |-> Sum(g, t)]
    <3>1. ASSUME NEW t \in SUBSET s PROVE g[t] = Sum(g, t)
      BY <2>3 DEF Sum
    <3> HIDE DEF g
    <3>2. g = [t \in SUBSET s |-> g[t]]
      BY DEF g
    <3> QED BY <3>1, <3>2
  <2> HIDE DEF g
  <2>5. Def(s)
    BY <2>4 DEF Sums
  <2> QED BY <2>5
<1>2. Def(S)
  BY <1>1
<1> QED BY <1>2 DEF IsSum

(* The points of a set are those of any of its challenges and of the rest. *)
LEMMA PointsOfUnfolds ==
  ASSUME NEW S, IsFiniteSet(S)
  PROVE  PointsOf(S) = IF S = {} THEN 0 ELSE Points[First(S)] + PointsOf(S \ {First(S)})
<1> DEFINE T == S \ {First(S)}
<1>1. IsSum(Sums(S), S)
  BY SumExists
<1>2. CASE S = {}
  BY <1>1, <1>2, PointsOfIs DEF IsSum, Sum
<1>3. CASE S # {}
  <2>1. IsFiniteSet(T) /\ T \subseteq S
    BY FS_RemoveElement
  <2>2. IsSum(Sums(T), T)
    BY <2>1, SumExists
  <2>3. Sums(S)[T] = Sums(T)[T]
    BY <1>1, <2>1, <2>2, SumUnique
  <2>4. Sums(S)[S] = Points[First(S)] + Sums(S)[T]
    BY <1>1, <1>3 DEF IsSum, Sum
  <2> QED BY <1>3, <2>3, <2>4, PointsOfIs
<1> QED BY <1>2, <1>3

LEMMA SlugsFinite == \A S \in SUBSET Slugs : IsFiniteSet(S)
BY ScoringAssumption, FS_Subset

LEMMA PointsOfType == \A S \in SUBSET Slugs : PointsOf(S) \in Nat
<1> DEFINE F == {s \in SUBSET Slugs : PointsOf(s) \notin Nat}
<1> SUFFICES ASSUME F # {} PROVE FALSE
  OBVIOUS
<1>1. PICK s \in F : \A t \in F : t \subseteq s => t = s
  <2>1. F \in SUBSET (SUBSET Slugs)
    OBVIOUS
  <2> HIDE DEF F
  <2> QED BY <2>1, SmallestSet, ScoringAssumption
<1>2. s # {} /\ PointsOf(s) = Points[First(s)] + PointsOf(s \ {First(s)})
  <2>1. PointsOf(s) = IF s = {} THEN 0 ELSE Points[First(s)] + PointsOf(s \ {First(s)})
    BY SlugsFinite, PointsOfUnfolds
  <2>2. PointsOf(s) \notin Nat
    OBVIOUS
  <2> QED BY <2>1, <2>2
<1>3. First(s) \in s
  BY <1>2, FirstIn
<1>4. PointsOf(s \ {First(s)}) \in Nat /\ Points[First(s)] \in Nat
  BY <1>1, <1>3, ScoringAssumption
<1> QED BY <1>2, <1>4

LEMMA PointsOfRemove ==
  ASSUME NEW S \in SUBSET Slugs, NEW x \in S
  PROVE  PointsOf(S) = Points[x] + PointsOf(S \ {x})
<1> DEFINE Rest(s, y) == PointsOf(s) = Points[y] + PointsOf(s \ {y})
           F == {s \in SUBSET Slugs : \E y \in s : ~Rest(s, y)}
<1> SUFFICES ASSUME F # {} PROVE FALSE
  OBVIOUS
<1>1. PICK s \in F : \A t \in F : t \subseteq s => t = s
  <2>1. F \in SUBSET (SUBSET Slugs)
    OBVIOUS
  <2> HIDE DEF F
  <2> QED BY <2>1, SmallestSet, ScoringAssumption
<1>2. PICK z \in s : ~Rest(s, z)
  OBVIOUS
<1> DEFINE f == First(s)
<1>3. f \in s /\ Rest(s, f)
  BY <1>2, SlugsFinite, PointsOfUnfolds, FirstIn
<1>4. f # z
  BY <1>2, <1>3
<1>5. Rest(s \ {f}, z) /\ Rest(s \ {z}, f)
  <2>1. \A t \in SUBSET Slugs : t \subseteq s /\ t # s => \A y \in t : Rest(t, y)
    BY <1>1
  <2>2. s \in SUBSET Slugs /\ f \in s \ {z} /\ z \in s \ {f}
    BY <1>3, <1>4
  <2> HIDE DEF F, f, Rest
  <2> QED BY <2>1, <2>2
<1>6. (s \ {f}) \ {z} = (s \ {z}) \ {f}
  OBVIOUS
<1>7. PointsOf((s \ {f}) \ {z}) \in Nat /\ Points[f] \in Nat /\ Points[z] \in Nat
  BY <1>3, PointsOfType, ScoringAssumption
<1> DEFINE both == PointsOf((s \ {f}) \ {z})
<1>8. PointsOf(s \ {f}) = Points[z] + both /\ PointsOf(s \ {z}) = Points[f] + both
  BY <1>5, <1>6
<1>9. PointsOf(s) = Points[f] + PointsOf(s \ {f})
  BY <1>3
<1>10. PointsOf(s) # Points[z] + PointsOf(s \ {z}) /\ both \in Nat
  BY <1>2, <1>7
<1>11. \A i, j, k \in Nat : i + (j + k) = j + (i + k)
  OBVIOUS
<1>12. Points[f] + (Points[z] + both) = Points[z] + (Points[f] + both)
  BY <1>7, <1>10, <1>11
<1> HIDE DEF f, both
<1> QED BY <1>8, <1>9, <1>10, <1>12

LEMMA PointsOfMonotonic ==
  ASSUME NEW T \in SUBSET Slugs, NEW S \in SUBSET T
  PROVE  PointsOf(S) <= PointsOf(T)
<1> DEFINE F == {t \in SUBSET Slugs : \E s \in SUBSET t : ~(PointsOf(s) <= PointsOf(t))}
<1> SUFFICES ASSUME F # {} PROVE FALSE
  OBVIOUS
<1>1. PICK t \in F : \A u \in F : u \subseteq t => u = t
  <2>1. F \in SUBSET (SUBSET Slugs)
    OBVIOUS
  <2> HIDE DEF F
  <2> QED BY <2>1, SmallestSet, ScoringAssumption
<1>2. PICK s \in SUBSET t : ~(PointsOf(s) <= PointsOf(t))
  OBVIOUS
<1>3. PointsOf(s) \in Nat /\ PointsOf(t) \in Nat
  BY PointsOfType
<1>4. PICK x \in t : x \notin s
  BY <1>2, <1>3
<1>5. PointsOf(s) <= PointsOf(t \ {x})
  BY <1>1, <1>4
<1>6. PointsOf(t) = Points[x] + PointsOf(t \ {x})
  BY PointsOfRemove
<1>7. Points[x] \in Nat /\ PointsOf(t \ {x}) \in Nat
  BY PointsOfType, ScoringAssumption
<1> QED BY <1>2, <1>3, <1>5, <1>6, <1>7

-----------------------------------------------------------------------------
(* What an answer owes its user: the challenges scored before the call,    *)
(* and the one it was for if it was solved.                                *)
Owed(r) == r.since \cup (IF r.correct THEN {r.slug} ELSE {})

SolvedIn(rows) == {c \in Slugs : rows[c].solved}

(* What a request has to show in the ledger by each of its stages: the     *)
(* ledger it came to, the solve it answers for and the rows it has read.   *)
(* The sums it was given stay between what it owes and the ledger.         *)
Counted(r) ==
  /\ r.stage \in Waiting \cup {"done"} => r.user \in Users /\ r.since \subseteq ledger[r.user]
  /\ r.stage \in Submitting => r.op = "submit"
  /\ r.stage \in {"rows", "sum"} => ~r.correct
  /\ r.stage = "total" /\ r.correct => r.slug \in ledger[r.user]
  /\ r.stage \in {"verdict", "announce", "done"} =>
       /\ Owed(r) \subseteq ledger[r.user]
       /\ PointsOf(Owed(r)) <= r.total /\ r.total <= PointsOf(ledger[r.user])
  /\ r.stage = "sum" => SolvedIn(r.rows) \subseteq ledger[r.user]
  /\ r.stage = "done" /\ r.op = "progress" => PointsOf(SolvedIn(r.rows)) <= r.total

CInv == \A s \in Slots : Counted(req[s])

LEMMA PlacedIn ==
  ASSUME SInv, NEW s \in Slots
  PROVE  /\ req[s] \in LooseRequest /\ Placed(req[s]) /\ LooseType
         /\ req[s].total \in Nat /\ req[s].since \in SUBSET Slugs
         /\ Owed(req[s]) \in SUBSET Slugs \/ req[s].slug \notin Slugs
         /\ req[s].user \in Users => ledger[req[s].user] \in SUBSET Slugs
<1>1. req[s] \in LooseRequest /\ Placed(req[s]) /\ LooseType
  BY DEF SInv, LooseType
<1>2. Totals \subseteq Nat
  BY PointsOfType DEF Totals
<1> QED BY <1>1, <1>2 DEF LooseRequest, LooseType, Owed

(* The ledger only grows, and with it what it adds up to.                  *)
LEMMA LedgerGrows ==
  ASSUME SInv, SInv', [Next]_vars, NEW u \in Users
  PROVE  /\ ledger[u] \subseteq ledger'[u] /\ ledger'[u] \in SUBSET Slugs
         /\ PointsOf(ledger[u]) <= PointsOf(ledger'[u])
         /\ PointsOf(ledger[u]) \in Nat /\ PointsOf(ledger'[u]) \in Nat
<1>1. LooseType /\ LooseType'
  BY DEF SInv
<1>2. ledger[u] \subseteq ledger'[u]
  <2>1. CASE UNCHANGED ledger
    BY <2>1
  <2>2. CASE ~UNCHANGED ledger
    <3>1. PICK s \in Slots : Award(s)
      BY <2>2 DEF Next, vars, Call, Submit, GetProgress, Progress, CheckEnvironment, CountAttempt,
         Complete, Mark, Total, Verdict, Announce, ReadRows, ReadSum, Reply, Abort, Restart
    <3>2. ledger' = [ledger EXCEPT ![req[s].user] = @ \cup {req[s].slug}]
      BY <2>2, <3>1 DEF Award
    <3> QED BY <1>1, <3>2 DEF LooseType
  <2> QED BY <2>1, <2>2
<1>3. ledger'[u] \in SUBSET Slugs /\ ledger[u] \in SUBSET Slugs
  BY <1>1 DEF LooseType
<1> QED BY <1>2, <1>3, PointsOfMonotonic, PointsOfType

(* A request that does not move has what it had.                           *)
LEMMA CountedStays ==
  ASSUME SInv, SInv', [Next]_vars, NEW s \in Slots, Counted(req[s]), req'[s] = req[s]
  PROVE  Counted(req[s])'
<1> DEFINE r == req[s]
<1>1. r.total \in Nat
  BY PlacedIn
<1>2. CASE r.user \in Users
  <2>1. /\ ledger[r.user] \subseteq ledger'[r.user]
        /\ PointsOf(ledger[r.user]) <= PointsOf(ledger'[r.user])
        /\ PointsOf(ledger[r.user]) \in Nat /\ PointsOf(ledger'[r.user]) \in Nat
    BY <1>2, LedgerGrows
  <2> QED BY <1>1, <2>1 DEF Counted, Owed, SolvedIn
<1>3. CASE r.user \notin Users
  <2>1. r.stage \notin Waiting \cup {"done"}
    BY <1>3 DEF Counted
  <2> QED BY <2>1 DEF Counted, Waiting, Submitting
<1> QED BY <1>2, <1>3

LEMMA NewIsCounted ==
  ASSUME SInv, SInv', NEW s \in Slots, Call(s)
  PROVE  Counted(req[s])'
<1>1. \A q : Become(s, q) => req'[s] = q
  BY DEF SInv, LooseType, Become
<1>2. ASSUME NEW u \in Users, NEW c \in Slugs, NEW correct \in BOOLEAN, NEW valid \in BOOLEAN,
             Submit(s, u, c, correct, valid)
      PROVE  Counted(req[s])'
  <2> DEFINE q == [Idle EXCEPT !.stage = IF valid THEN "env" ELSE "refused", !.op = "submit",
                               !.user = u, !.slug = c, !.correct = correct, !.since = ledger[u]]
  <2>1. req'[s] = q /\ ledger' = ledger
    BY <1>1, <1>2 DEF Submit
  <2> QED BY <2>1 DEF Counted, Idle, Waiting, Submitting
<1>3. ASSUME NEW u \in Users, GetProgress(s, u)
      PROVE  Counted(req[s])'
  <2> DEFINE q == [Idle EXCEPT !.stage = "rows", !.user = u, !.since = ledger[u]]
  <2>1. req'[s] = q /\ ledger' = ledger
    BY <1>1, <1>3 DEF GetProgress
  <2> QED BY <2>1 DEF Counted, Idle, Waiting, Submitting
<1> QED BY <1>2, <1>3 DEF Call

LEMMA IdleIsCounted == ASSUME NEW s, req'[s] = Idle PROVE Counted(req[s])'
BY DEF Counted, Idle, Waiting, Submitting

(* The steps of a submission.                                              *)
LEMMA SubmissionCounted ==
  ASSUME SInv, SInv', [Next]_vars, NEW s \in Slots, Counted(req[s]),
         \/ \E open \in BOOLEAN : CheckEnvironment(s, open)
         \/ CountAttempt(s) \/ Award(s) \/ Complete(s) \/ Mark(s)
  PROVE  Counted(req[s])'
<1> DEFINE r == req[s]
<1>1. /\ r \in LooseRequest /\ Placed(r) /\ LooseType
      /\ r.stage \in Submitting /\ r.user \in Users /\ r.slug \in Slugs
  BY PlacedIn DEF CheckEnvironment, CountAttempt, Award, Complete, Mark, Submitting, Placed
<1>2. /\ r.since \subseteq ledger'[r.user] /\ r.op = "submit"
      /\ ledger[r.user] \subseteq ledger'[r.user]
  BY <1>1, LedgerGrows DEF Counted, Waiting, Submitting
<1>3. \A q : Become(s, q) => req'[s] = q
  BY <1>1 DEF LooseType, Become
<1>4. ASSUME NEW q, Become(s, q), q.user = r.user, q.since = r.since, q.op = r.op,
             q.stage \in {"attempt", "refused", "award", "complete", "mark", "total"},
             q.stage = "total" /\ q.correct => q.slug \in ledger'[q.user]
      PROVE  Counted(req[s])'
  BY <1>1, <1>2, <1>3, <1>4 DEF Counted, Waiting, Submitting
<1>5. ASSUME NEW open \in BOOLEAN, CheckEnvironment(s, open) PROVE Counted(req[s])'
  <2> DEFINE q == [r EXCEPT !.stage = IF open THEN "attempt" ELSE "refused"]
  <2>1. /\ q.user = r.user /\ q.since = r.since /\ q.op = r.op /\ q.stage \in {"attempt", "refused"}
        /\ Become(s, q)
    BY <1>1, <1>5 DEF LooseRequest, CheckEnvironment
  <2> HIDE DEF q
  <2> QED BY <2>1, <1>4
<1>6. ASSUME CountAttempt(s) PROVE Counted(req[s])'
  <2> DEFINE row == [progress[r.user][r.slug] EXCEPT !.attempts = @ + 1]
             q == [r EXCEPT !.stage = AfterAttempt(row, r.correct),
                            !.already = r.correct /\ row.solved]
  <2>1. Become(s, q) /\ q.user = r.user /\ q.since = r.since /\ q.op = r.op
        /\ q.stage = AfterAttempt(row, r.correct) /\ q.correct = r.correct /\ q.slug = r.slug
    BY <1>1, <1>6 DEF LooseRequest, CountAttempt
  <2>2. progress[r.user][r.slug] \in Row
    BY <1>1 DEF LooseType
  <2>3. row.solved = progress[r.user][r.slug].solved
    BY <2>2 DEF Row
  <2>4. row.solved => r.slug \in ledger[r.user]
    BY <1>1, <2>3 DEF SInv, LedgerBacksProgress
  <2>5. q.stage \in {"total", "award"} /\ (q.stage = "total" => ~r.correct \/ row.solved)
    BY <2>1 DEF AfterAttempt
  <2> HIDE DEF q, row
  <2> QED BY <1>2, <1>4, <2>1, <2>4, <2>5
<1>7. ASSUME Award(s) PROVE Counted(req[s])'
  <2> PICK q \in {[r EXCEPT !.stage = "complete"], [r EXCEPT !.stage = "mark", !.already = TRUE]} :
        Become(s, q)
    BY <1>7 DEF Award
  <2>1. q.user = r.user /\ q.since = r.since /\ q.op = r.op /\ q.stage \in {"complete", "mark"}
    BY <1>1 DEF LooseRequest
  <2> QED BY <2>1, <1>4
<1>8. ASSUME Complete(s) \/ Mark(s) PROVE Counted(req[s])'
  <2>1. r.slug \in ledger[r.user]
    BY <1>1, <1>8 DEF SInv, ClaimsExclusive, Claim, Complete, Mark, Placed
  <2> PICK q \in {[r EXCEPT !.stage = "total", !.gained = Points[r.slug]], [r EXCEPT !.stage = "total"]} :
        Become(s, q)
    BY <1>8 DEF Complete, Mark
  <2>2. q.user = r.user /\ q.since = r.since /\ q.op = r.op /\ q.stage = "total" /\ q.slug = r.slug
    BY <1>1 DEF LooseRequest
  <2> QED BY <1>2, <2>1, <2>2, <1>4
<1> QED BY <1>5, <1>6, <1>7, <1>8

(* The steps of an answer: the sum is taken of a ledger that has what is   *)
(* owed, and of one that has grown since the rows were read.               *)
LEMMA AnswerCounted ==
  ASSUME SInv, SInv', [Next]_vars, NEW s \in Slots, Counted(req[s]),
         Total(s) \/ Verdict(s) \/ Announce(s) \/ ReadRows(s) \/ ReadSum(s)
  PROVE  Counted(req[s])'
<1> DEFINE r == req[s]
<1>1. r \in LooseRequest /\ Placed(r) /\ LooseType /\ r.user \in Users /\ r.total \in Nat
  BY PlacedIn DEF Total, Verdict, Announce, ReadRows, ReadSum, Waiting, Counted
<1>2. ledger' = ledger /\ r.since \subseteq ledger[r.user] /\ ledger[r.user] \in SUBSET Slugs
  BY <1>1 DEF Total, Verdict, Announce, ReadRows, ReadSum, Waiting, Counted, LooseType
<1>3. \A q : Become(s, q) => req'[s] = q
  BY <1>1 DEF LooseType, Become
<1>4. PointsOf(ledger[r.user]) \in Nat
  BY <1>2, PointsOfType
<1>5. CASE Total(s)
  <2> DEFINE q == [r EXCEPT !.stage = "verdict", !.total = PointsOf(ledger[r.user])]
  <2>1. /\ req'[s] = q /\ q.stage = "verdict" /\ q.total = PointsOf(ledger[r.user])
        /\ q.user = r.user /\ q.since = r.since /\ q.op = r.op
        /\ q.correct = r.correct /\ q.slug = r.slug
    BY <1>1, <1>3, <1>5 DEF Total, LooseRequest
  <2>2. Owed(q) \subseteq ledger[r.user] /\ q.op = "submit"
    BY <1>2, <1>5, <2>1 DEF Total, Counted, Owed, Submitting
  <2>3. PointsOf(Owed(q)) <= q.total
    BY <1>2, <2>1, <2>2, PointsOfMonotonic
  <2> HIDE DEF q
  <2> QED BY <1>1, <1>2, <1>4, <2>1, <2>2, <2>3 DEF Counted, Waiting, Submitting
<1>6. CASE Verdict(s) \/ Announce(s)
  <2> PICK q \in {[r EXCEPT !.stage = x] : x \in {"announce", "done"}} : Become(s, q)
    BY <1>6 DEF Verdict, Announce
  <2>1. /\ req'[s] = q /\ q.stage \in {"announce", "done"} /\ q.total = r.total
        /\ q.user = r.user /\ q.since = r.since /\ q.op = r.op
        /\ q.correct = r.correct /\ q.slug = r.slug
    BY <1>1, <1>3 DEF LooseRequest
  <2>2. Owed(q) = Owed(r) /\ q.op = "submit"
    BY <1>6, <2>1 DEF Verdict, Announce, Counted, Owed, Submitting
  <2> QED BY <1>1, <1>2, <1>6, <2>1, <2>2 DEF Verdict, Announce, Counted, Waiting, Submitting
<1>7. CASE ReadRows(s)
  <2> DEFINE q == [r EXCEPT !.stage = "sum", !.rows = progress[r.user]]
  <2>1. /\ req'[s] = q /\ q.stage = "sum" /\ q.rows = progress[r.user]
        /\ q.user = r.user /\ q.since = r.since /\ q.correct = r.correct
    BY <1>1, <1>3, <1>7 DEF ReadRows, LooseRequest
  <2>2. SolvedIn(q.rows) \subseteq ledger[r.user]
    BY <1>1, <2>1 DEF SInv, LedgerBacksProgress, SolvedIn
  <2> HIDE DEF q
  <2> QED BY <1>1, <1>2, <1>7, <2>1, <2>2 DEF ReadRows, Counted, Waiting, Submitting
<1>8. CASE ReadSum(s)
  <2> DEFINE q == [r EXCEPT !.stage = "done", !.total = PointsOf(ledger[r.user])]
  <2>1. /\ req'[s] = q /\ q.stage = "done" /\ q.total = PointsOf(ledger[r.user])
        /\ q.user = r.user /\ q.since = r.since /\ q.correct = r.correct /\ q.rows = r.rows
    BY <1>1, <1>3, <1>8 DEF ReadSum, LooseRequest
  <2>2. Owed(q) \subseteq ledger[r.user] /\ SolvedIn(q.rows) \subseteq ledger[r.user]
    BY <1>2, <1>8, <2>1 DEF ReadSum, Counted, Owed
  <2>3. PointsOf(Owed(q)) <= q.total /\ PointsOf(SolvedIn(q.rows)) <= q.total
    BY <1>2, <2>1, <2>2, PointsOfMonotonic
  <2> HIDE DEF q
  <2> QED BY <1>1, <1>2, <1>4, <2>1, <2>2, <2>3 DEF Counted, Waiting, Submitting
<1> QED BY <1>5, <1>6, <1>7, <1>8

LEMMA CountedInductive == SInv /\ SInv' /\ CInv /\ [Next]_vars => CInv'
<1> SUFFICES ASSUME SInv, SInv', CInv, [Next]_vars, NEW t \in Slots PROVE Counted(req[t])'
  BY DEF CInv
<1>1. Counted(req[t])
  BY DEF CInv
<1>2. ASSUME NEW s \in Slots, Call(s) \/ Progress(s) \/ Abort(s) PROVE Counted(req[t])'
  <2>1. CASE t # s
    <3>1. req'[t] = req[t]
      BY <1>2, <2>1 DEF SInv, LooseType, Become, Call, Submit, GetProgress, Progress,
         CheckEnvironment, CountAttempt, Award, Complete, Mark, Total, Verdict, Announce,
         ReadRows, ReadSum, Reply, Abort
    <3> QED BY <1>1, <3>1, CountedStays
  <2>2. CASE t = s
    <3>1. CASE Reply(s) \/ Abort(s)
      <4>1. req'[s] = Idle
        BY <3>1 DEF Reply, Abort, Become, SInv, LooseType
      <4> QED BY <2>2, <4>1, IdleIsCounted
    <3> QED BY <1>1, <1>2, <2>2, <3>1, NewIsCounted, SubmissionCounted, AnswerCounted DEF Progress
  <2> QED BY <2>1, <2>2
<1>3. CASE Restart
  BY <1>3, IdleIsCounted DEF Restart
<1>4. CASE UNCHANGED vars
  BY <1>1, <1>4, CountedStays DEF vars
<1> QED BY <1>2, <1>3, <1>4 DEF Next

LEMMA InitCounted == Init => CInv
BY DEF Init, CInv, Counted, Idle, Waiting, Submitting

LEMMA CountedInvariance == Spec => []CInv
BY InitCounted, CountedInductive, ScoringInvariance, PTL DEF Spec

(* TotalIsCurrent: the total of an answer covers what was scored before    *)
(* the call and the challenge just solved, and never more than the ledger, *)
(* for any points and any number of users, calls and faults.               *)
THEOREM TotalsAreCurrent == Spec => []TotalIsCurrent
<1>1. SInv /\ CInv => TotalIsCurrent
  <2> SUFFICES ASSUME SInv, CInv, NEW s \in Slots, req[s].stage = "done"
               PROVE  /\ req[s].total <= PointsOf(ledger[req[s].user])
                      /\ req[s].total >= PointsOf(Owed(req[s]))
    BY DEF TotalIsCurrent, Owed
  <2>1. Counted(req[s])
    BY DEF CInv
  <2>2. /\ ledger[req[s].user] \in SUBSET Slugs /\ Owed(req[s]) \subseteq ledger[req[s].user]
        /\ req[s].total \in Nat
    BY <2>1, PlacedIn DEF Counted
  <2>3. PointsOf(Owed(req[s])) \in Nat
    BY <2>2, PointsOfType
  <2> QED BY <2>1, <2>2, <2>3 DEF Counted
<1> QED BY <1>1, ScoringInvariance, CountedInvariance, PTL

(* SummaryIsBacked: though its two reads are no snapshot, a summary never  *)
(* shows rows worth more than the total it comes with.                     *)
THEOREM SummariesAreBacked == Spec => []SummaryIsBacked
<1>1. SInv /\ CInv => SummaryIsBacked
  <2> SUFFICES ASSUME SInv, CInv, NEW s \in Slots, req[s].stage = "done", req[s].op = "progress"
               PROVE  req[s].total >= PointsOf(SolvedIn(req[s].rows))
    BY DEF SummaryIsBacked, SolvedIn
  <2>1. PointsOf(SolvedIn(req[s].rows)) <= req[s].total
    BY DEF CInv, Counted
  <2>2. req[s].total \in Nat /\ PointsOf(SolvedIn(req[s].rows)) \in Nat
    BY PlacedIn, PointsOfType DEF SolvedIn
  <2> QED BY <2>1, <2>2
<1> QED BY <1>1, ScoringInvariance, CountedInvariance, PTL

(* The tables, the requests with their sums, and the awards that are lost. *)
THEOREM ScoringTypeCorrect == Spec => []TypeOK
<1> DEFINE Lost == lost \subseteq Users \X Slugs
<1>1. SInv /\ Lost /\ [Next]_vars => Lost'
  <2> SUFFICES ASSUME SInv, Lost, [Next]_vars, ~UNCHANGED lost PROVE Lost'
    OBVIOUS
  <2>1. CutOff(Slots) \subseteq Users \X Slugs
    <3>1. \A s \in Slots : req[s].stage = "complete" => req[s].user \in Users /\ req[s].slug \in Slugs
      BY DEF SInv, Placed, Submitting
    <3> QED BY <3>1 DEF CutOff
  <2>2. PICK S \in SUBSET Slots : lost' = lost \cup CutOff(S)
    BY DEF Next, vars, Call, Submit, GetProgress, Progress, CheckEnvironment, CountAttempt, Award,
           Complete, Mark, Total, Verdict, Announce, ReadRows, ReadSum, Reply, Abort, Restart
  <2>3. CutOff(S) \subseteq CutOff(Slots)
    BY DEF CutOff
  <2> QED BY <2>1, <2>2, <2>3
<1>2. Init => Lost
  BY DEF Init
<1>3. SInv /\ Lost => TypeOK
  <2>1. Totals \subseteq Nat
    BY PointsOfType DEF Totals
  <2>2. LooseRequest \subseteq Request
    BY <2>1 DEF LooseRequest, Request
  <2> QED BY <2>2 DEF SInv, LooseType, TypeOK
<1> HIDE DEF Lost
<1> QED BY <1>1, <1>2, <1>3, ScoringInvariance, PTL DEF Spec
=============================================================================
