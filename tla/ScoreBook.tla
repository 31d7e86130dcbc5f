----------------------------- MODULE ScoreBook ------------------------------
(***************************************************************************)
(* What docs/SCORING.md promises about scores: the ledger is append-only,  *)
(* a user scores a challenge once, and an award is announced at most once  *)
(* and only after the ledger has it.  Scoring should implement this.       *)
(***************************************************************************)
EXTENDS Naturals

CONSTANTS Users, Slugs

VARIABLES
  ledger,       \* ledger[u]: the challenges u has a ScoreEvent for
  announced     \* announced[u][c]: CHALLENGE_SCORE_AWARDED audit rows

bookVars == <<ledger, announced>>

Init ==
  /\ ledger = [u \in Users |-> {}]
  /\ announced = [u \in Users |-> [c \in Slugs |-> 0]]

Award(u, c) ==
  /\ c \notin ledger[u]
  /\ ledger' = [ledger EXCEPT ![u] = @ \cup {c}]
  /\ UNCHANGED announced

Announce(u, c) ==
  /\ c \in ledger[u] /\ announced[u][c] = 0
  /\ announced' = [announced EXCEPT ![u][c] = 1]
  /\ UNCHANGED ledger

Next == \E u \in Users, c \in Slugs : Award(u, c) \/ Announce(u, c)

Spec == Init /\ [][Next]_bookVars
=============================================================================
