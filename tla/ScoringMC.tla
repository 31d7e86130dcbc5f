----------------------------- MODULE ScoringMC ------------------------------
(***************************************************************************)
(* Small instances of Scoring for TLC.                                     *)
(***************************************************************************)
EXTENDS Scoring, TLC

CONSTANTS xss, sqli      \* challenges

(* Points that tell every subset of the challenges apart, zero included.   *)
OneWorth == [c \in Slugs |-> 100]

TwoWorth == (xss :> 100) @@ (sqli :> 250)
=============================================================================
