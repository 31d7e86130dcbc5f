-------------------------- MODULE EnvironmentRacesMC --------------------------
(***************************************************************************)
(* Two instances of EnvironmentService in one run: racing requests of one  *)
(* user under faults and a running clock, and racing requests of a user    *)
(* and an ADMIN, with neither.                                             *)
(***************************************************************************)
EXTENDS EnvironmentServiceMC

VARIABLE profile    \* "faults" or "users", chosen once

MCInit == Init /\ profile \in {"faults", "users"}

MCNext ==
  /\ UNCHANGED profile
  /\ \/ profile = "faults" /\ Next /\ \A s \in Slots : req'[s].actor \in {alice, System}
     \/ profile = "users" /\ \E s \in Slots : Call(s) \/ Progress(s)

MCSpec == MCInit /\ [][MCNext]_<<vars, profile>>
=============================================================================
