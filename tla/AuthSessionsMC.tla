--------------------------- MODULE AuthSessionsMC ---------------------------
(***************************************************************************)
(* A small instance of AuthSessions for TLC.                               *)
(***************************************************************************)
EXTENDS AuthSessions, TLC

CONSTANTS alice, bob

(* Slots, sessions and users are interchangeable.                          *)
Symmetry == Permutations(Slots) \cup Permutations(Sessions) \cup Permutations(Users)
=============================================================================
