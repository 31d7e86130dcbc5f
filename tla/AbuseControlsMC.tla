--------------------------- MODULE AbuseControlsMC ---------------------------
(***************************************************************************)
(* Four instances of AbuseControls in one run:                             *)
(*   limits   two users behind one ip, over a window and into the next     *)
(*   lone     one user alone on the ip, with time for commands to hang     *)
(*            past the headroom and past a whole window                    *)
(*   signals  observations of one signal, with the same time               *)
(*   faults   one user and one signal in a single window while commands    *)
(*            fail, replies are lost and instances go down                 *)
(***************************************************************************)
EXTENDS AbuseControls, TLC

CONSTANTS alice, bob, here, login

VARIABLE profile    \* chosen once

MCInit == Init /\ profile \in {"limits", "lone", "signals", "faults"}

(* Bounds: who sends, what is sent and for how long.                       *)
OnlyAlice == \A s \in Slots : req'[s].user # bob
OnlyGuarded == struck' = {} /\ \A s \in Slots : req'[s].checks # <<login>>

MCNext ==
  /\ Next
  /\ UNCHANGED profile
  /\ CASE profile = "limits" -> OnlyGuarded /\ now' <= Window
       [] profile = "lone" -> OnlyGuarded /\ OnlyAlice
       [] profile = "signals" -> struck' = {} /\ \A s \in Slots : req'[s].user = Nobody
       [] profile = "faults" -> OnlyAlice /\ now' < Window

MCSpec == MCInit /\ [][MCNext]_<<vars, profile>>

(* Slots are interchangeable.                                              *)
Symmetry == Permutations(Slots)
=============================================================================
