------------------------ MODULE EnvironmentLifecycle ------------------------
(***************************************************************************)
(* What the control plane promises about an environment row: its status    *)
(* only ever moves along the edges of the table in                         *)
(* domain/environmentStateMachine.ts, and a row is never removed.          *)
(* EnvironmentService is the detailed specification that should implement  *)
(* this one.                                                               *)
(***************************************************************************)
CONSTANT EnvIds          \* primary keys a row can be created under

VARIABLE status          \* [EnvIds -> Statuses \cup {"NONE"}], "NONE": no row

Statuses == {"REQUESTED", "PROVISIONING", "READY", "ACTIVE", "TIMEOUT",
             "RESETTING", "DESTROYING", "DESTROYED", "FAILED"}

(* Statuses that hold a slot of MAX_ACTIVE_ENVIRONMENTS.                   *)
LiveStatuses == {"REQUESTED", "PROVISIONING", "READY", "ACTIVE", "RESETTING"}

Transitions ==
  [REQUESTED    |-> {"PROVISIONING", "TIMEOUT", "DESTROYING", "FAILED"},
   PROVISIONING |-> {"READY", "TIMEOUT", "DESTROYING", "FAILED"},
   READY        |-> {"ACTIVE", "RESETTING", "TIMEOUT", "DESTROYING", "FAILED"},
   ACTIVE       |-> {"READY", "TIMEOUT", "RESETTING", "DESTROYING", "FAILED"},
   TIMEOUT      |-> {"RESETTING", "DESTROYING", "FAILED"},
   RESETTING    |-> {"READY", "ACTIVE", "TIMEOUT", "DESTROYING", "FAILED"},
   DESTROYING   |-> {"DESTROYED", "FAILED"},
   FAILED       |-> {"DESTROYING", "DESTROYED"},
   DESTROYED    |-> {}]

CanTransition(from, to) == to \in Transitions[from]

IsTerminal(s) == Transitions[s] = {}

-----------------------------------------------------------------------------

Init == status = [e \in EnvIds |-> "NONE"]

(* A row enters the table as REQUESTED and in no other status.             *)
Create(e) ==
  /\ status[e] = "NONE"
  /\ status' = [status EXCEPT ![e] = "REQUESTED"]

(* A row in the table takes an edge of the transition table.               *)
Move(e, to) ==
  /\ status[e] \in Statuses
  /\ CanTransition(status[e], to)
  /\ status' = [status EXCEPT ![e] = to]

Next == \E e \in EnvIds : Create(e) \/ \E to \in Statuses : Move(e, to)

Spec == Init /\ [][Next]_status
=============================================================================
