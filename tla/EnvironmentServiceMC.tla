------------------------ MODULE EnvironmentServiceMC ------------------------
(***************************************************************************)
(* Small instances of EnvironmentService for TLC.                          *)
(***************************************************************************)
EXTENDS EnvironmentService, TLC

CONSTANTS alice, bob, root     \* users

(* Slots are interchangeable: no action and no safety property names one.  *)
Symmetry == Permutations(Slots)

(* Ids are interchangeable too, but symmetry does not go with liveness:    *)
(* one row is always minted before the others instead.                     *)
First == CHOOSE e \in EnvIds : TRUE

InOrder == (\E e \in EnvIds : Exists(envs'[e])) => Exists(envs'[First])

MCFairSpec ==
  Init /\ [][Next /\ InOrder]_vars /\ \A s \in Slots : WF_vars(Progress(s) /\ InOrder)
=============================================================================
