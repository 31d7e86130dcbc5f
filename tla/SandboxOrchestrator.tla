-------------------------- MODULE SandboxOrchestrator --------------------------
(***************************************************************************)
(* orchestration/sandboxOrchestrator.ts: provision, start, stop, reset and *)
(* destroy of a sandbox, over a runtime that may refuse a call, answer it  *)
(* late or never answer, and the cache of provisions by idempotency key.   *)
(*                                                                         *)
(* A call is a slot, an action is one continuation of it: between two of   *)
(* them the call waits for an audit write (emit) or for the race of the    *)
(* runtime against the deadline.  The deadline ends the wait and not the   *)
(* operation, which stays behind in `late` and may still take effect.      *)
(***************************************************************************)
EXTENDS Integers, FiniteSets

CONSTANTS
  Envs,     \* environment records
  Keys,     \* idempotency keys, trimmed
  NoKey,    \* no key was sent
  Slots     \* calls in flight at once

ASSUME KeyAssumption == NoKey \notin Keys

ASSUME EnvsAssumption == Envs # {}

VARIABLES
  configured,   \* runtime.configured, fixed when the orchestrator is made
  provisioned,  \* the Map of successful provisions: SUBSET (Envs \X Keys)
  sandboxes,    \* the runtime: environments with a sandbox, started or stopped
  call,         \* [Slots -> Call]
  late,         \* operations that outlived their deadline: SUBSET (Lasting \X Envs)
  born,         \* history: environments the runtime has provisioned
  crossed       \* history: environments of which a destroy and a provision overlapped

vars == <<configured, provisioned, sandboxes, call, late, born, crossed>>

-----------------------------------------------------------------------------
(* Calls.  Stages:                                                         *)
(*   idle     no call                                                      *)
(*   request  the *_REQUESTED event is being written                       *)
(*   start    SANDBOX_PROVISION_STARTED is being written                   *)
(*   runtime  the runtime races the deadline                               *)
(*   report   the event of the outcome is being written                    *)
(*   done     answered                                                     *)
(* `answer` is the HTTP status the call has come to, 0 while undecided.    *)
Ops == {"provision", "start", "stop", "reset", "destroy"}

(* The operations that make a difference when they come late.              *)
Lasting == {"provision", "destroy"}

Call == [stage : {"idle", "request", "start", "runtime", "report", "done"},
         op : Ops, env : Envs, key : Keys \cup {NoKey}, permitted : BOOLEAN,
         result : {"pending", "ok", "refused"},
         answer : {0, 200, 422, 500, 502, 503, 504}]

New(op, e, k, permitted) ==
  [stage |-> "request", op |-> op, env |-> e, key |-> k, permitted |-> permitted,
   result |-> "pending", answer |-> 0]

NoCall == [New("start", CHOOSE e \in Envs : TRUE, NoKey, TRUE) EXCEPT !.stage = "idle"]

Become(s, c) == call' = [call EXCEPT ![s] = c]

Report(c, answer) == [c EXCEPT !.stage = "report", !.answer = answer]

Done(c, answer) == [c EXCEPT !.stage = "done", !.answer = answer]

Init ==
  /\ configured \in BOOLEAN
  /\ provisioned = {}
  /\ sandboxes = {}
  /\ call = [s \in Slots |-> NoCall]
  /\ late = {}
  /\ born = {}
  /\ crossed = {}

-----------------------------------------------------------------------------
(* A call arrives and writes its first event.  Only provision takes a key  *)
(* and a proposed policy; `permitted` is the verdict of                    *)
(* resolveSandboxPolicy on it (see SandboxPolicy).                         *)
Arrive(s, op, e, k, permitted) ==
  /\ call[s].stage = "idle"
  /\ op = "provision" \/ (k = NoKey /\ permitted)
  /\ Become(s, New(op, e, k, permitted))
  /\ UNCHANGED <<provisioned, sandboxes, late, born>>

(* describeSandbox: the policy of the proposal, with no event and no call. *)
Describe(s, e, permitted) ==
  /\ call[s].stage = "idle"
  /\ Become(s, Done([New("start", e, NoKey, permitted) EXCEPT !.result = "ok"],
                    IF permitted THEN 200 ELSE 422))
  /\ UNCHANGED <<provisioned, sandboxes, late, born>>

(* After SANDBOX_PROVISION_REQUESTED: the cache, the policy, the runtime.  *)
Provision(s) ==
  LET c == call[s] IN
  /\ c.stage = "request" /\ c.op = "provision"
  /\ Become(s,
       IF <<c.env, c.key>> \in provisioned
         THEN Done(c, 200)
       ELSE IF ~c.permitted THEN Report(c, 422)
       ELSE IF ~configured THEN Report(c, 503)
       ELSE [c EXCEPT !.stage = "start"])
  /\ UNCHANGED <<provisioned, sandboxes, late, born>>

(* After SANDBOX_PROVISION_STARTED: runtime.provision is called.           *)
Invoke(s) ==
  /\ call[s].stage = "start"
  /\ Become(s, [call[s] EXCEPT !.stage = "runtime"])
  /\ UNCHANGED <<provisioned, sandboxes, late, born>>

(* After SANDBOX_START_REQUESTED or SANDBOX_RESET_REQUESTED.               *)
StartOrReset(s) ==
  LET c == call[s] IN
  /\ c.stage = "request" /\ c.op \in {"start", "reset"}
  /\ Become(s, IF configured THEN [c EXCEPT !.stage = "runtime"] ELSE Report(c, 503))
  /\ UNCHANGED <<provisioned, sandboxes, late, born>>

(* Wrong: destroy leaves the cache to the runtime's answer.                *)
TearDownKeepingCache(s) ==
  LET c == call[s] IN
  /\ c.stage = "request" /\ c.op \in {"stop", "destroy"}
  /\ Become(s, IF configured THEN [c EXCEPT !.stage = "runtime"] ELSE Report(c, 200))
  /\ UNCHANGED <<provisioned, sandboxes, late, born>>

(* After SANDBOX_STOP_REQUESTED or SANDBOX_DESTROY_REQUESTED: destroy      *)
(* forgets the provisions of its environment before it calls the runtime;  *)
(* without a runtime both are no-ops that succeed.                         *)
TearDown(s) ==
  LET c == call[s] IN
  /\ c.stage = "request" /\ c.op \in {"stop", "destroy"}
  /\ provisioned' = IF c.op = "destroy" THEN {p \in provisioned : p[1] # c.env}
                                        ELSE provisioned
  /\ Become(s, IF configured THEN [c EXCEPT !.stage = "runtime"] ELSE Report(c, 200))
  /\ UNCHANGED <<sandboxes, late, born>>

-----------------------------------------------------------------------------
(* The runtime.                                                            *)

(* What an operation does to the sandbox of e; start, stop and reset leave *)
(* it in existence, and nothing here tells more apart.                     *)
Effect(op, e) ==
  /\ sandboxes' = CASE op = "provision" -> sandboxes \cup {e}
                    [] op = "destroy" -> sandboxes \ {e}
                    [] OTHER -> sandboxes
  /\ born' = IF op = "provision" THEN born \cup {e} ELSE born

(* The runtime carries the operation out: ok is on its way.                *)
Apply(s) ==
  LET c == call[s] IN
  /\ c.stage = "runtime" /\ c.result = "pending"
  /\ Effect(c.op, c.env)
  /\ Become(s, [c EXCEPT !.result = "ok"])
  /\ UNCHANGED <<provisioned, late>>

Refuse(s) ==
  /\ call[s].stage = "runtime" /\ call[s].result = "pending"
  /\ Become(s, [call[s] EXCEPT !.result = "refused"])
  /\ UNCHANGED <<provisioned, sandboxes, late, born>>

(* An operation nobody waits for any more takes effect.                    *)
ApplyLate(op, e) ==
  /\ <<op, e>> \in late
  /\ Effect(op, e)
  /\ late' = late \ {<<op, e>>}
  /\ UNCHANGED <<provisioned, call>>

(* Wrong: any answer of the runtime is taken for success.                  *)
VerdictUnread(c) == IF c.result = "pending" THEN 502 ELSE 200

(* stop and destroy do not look at the result.                             *)
Verdict(c) == IF c.result = "ok" \/ c.op \in {"stop", "destroy"} THEN 200 ELSE 502

(* withDeadline resolves with the result of the runtime ...                *)
Settle(s) ==
  /\ call[s].stage = "runtime" /\ call[s].result # "pending"
  /\ Become(s, Report(call[s], Verdict(call[s])))
  /\ UNCHANGED <<provisioned, sandboxes, late, born>>

(* The wait for c ends and its operation goes on.                          *)
Abandon(c) == late \cup ({<<c.op, c.env>>} \cap (Lasting \X Envs))

(* Wrong: reset is awaited without a deadline.                             *)
DeadlineButReset(s) ==
  LET c == call[s] IN
  /\ c.stage = "runtime" /\ c.op # "reset"
  /\ Become(s, Report(c, 504))
  /\ late' = IF c.result = "pending" THEN Abandon(c) ELSE late
  /\ UNCHANGED <<provisioned, sandboxes, born>>

(* ... or with TIMEOUT, also when the answer is on its way.                *)
Deadline(s) ==
  LET c == call[s] IN
  /\ c.stage = "runtime"
  /\ Become(s, Report(c, 504))
  /\ late' = IF c.result = "pending" THEN Abandon(c) ELSE late
  /\ UNCHANGED <<provisioned, sandboxes, born>>

-----------------------------------------------------------------------------
(* The event of the outcome is written.  A provision that succeeded under  *)
(* a key is remembered only now, after the await.                          *)
Answer(s) ==
  LET c == call[s] IN
  /\ c.stage = "report"
  /\ provisioned' = IF c.op = "provision" /\ c.answer = 200 /\ c.key # NoKey
                    THEN provisioned \cup {<<c.env, c.key>>} ELSE provisioned
  /\ Become(s, Done(c, c.answer))
  /\ UNCHANGED <<sandboxes, late, born>>

(* An audit write rejects, and the call with it.                           *)
AuditFails(s) ==
  /\ call[s].stage \in {"request", "start", "report"}
  /\ Become(s, Done(call[s], 500))
  /\ UNCHANGED <<provisioned, sandboxes, late, born>>

Leave(s) ==
  /\ call[s].stage = "done"
  /\ Become(s, NoCall)
  /\ UNCHANGED <<provisioned, sandboxes, late, born>>

(* A destroy of e meets a provision of e, each in flight or left behind.   *)
Pending(op, e) ==
  \/ \E s \in Slots : call[s].op = op /\ call[s].env = e /\ call[s].stage \notin {"idle", "done"}
  \/ <<op, e>> \in late

Crossing(e) == Pending("destroy", e) /\ Pending("provision", e)

Continue(s) ==
  Provision(s) \/ Invoke(s) \/ StartOrReset(s) \/ TearDown(s) \/ Answer(s) \/ AuditFails(s)

Steps(s) ==
  \/ \E op \in Ops, e \in Envs, k \in Keys \cup {NoKey}, permitted \in BOOLEAN :
       Arrive(s, op, e, k, permitted)
  \/ \E e \in Envs, permitted \in BOOLEAN : Describe(s, e, permitted)
  \/ Continue(s)
  \/ Apply(s)
  \/ Refuse(s)
  \/ Settle(s)
  \/ Deadline(s)
  \/ Leave(s)

Watch ==
  /\ crossed' = crossed \cup {e \in Envs : Crossing(e)'}
  /\ UNCHANGED configured

Next ==
  /\ \/ \E s \in Slots : Steps(s)
     \/ \E op \in Lasting, e \in Envs : ApplyLate(op, e)
  /\ Watch

(* The event loop runs what is due, audit writes settle and timers fire.   *)
(* Nothing is asked of the runtime.                                        *)
Fairness ==
  \A s \in Slots : WF_vars(Continue(s) /\ Watch) /\ WF_vars(Deadline(s) /\ Watch)

Spec == Init /\ [][Next]_vars /\ Fairness

-----------------------------------------------------------------------------
(* The variables hold values of their types.                               *)
TypeOK ==
  /\ configured \in BOOLEAN
  /\ provisioned \subseteq Envs \X Keys
  /\ sandboxes \subseteq Envs
  /\ call \in [Slots -> Call]
  /\ late \subseteq Lasting \X Envs
  /\ born \subseteq Envs
  /\ crossed \subseteq Envs

(* No answer is made up, whatever times out, is refused, fails or comes    *)
(* late.  An environment whose provision was answered with 200, or is      *)
(* remembered, is one the runtime has provisioned, so that without a       *)
(* runtime there is none; a teardown is answered with 200 only after the   *)
(* runtime answered it, whatever it answered, or when there is none.       *)
ReadyIsEarned ==
  /\ \A p \in provisioned : p[1] \in born
  /\ \A s \in Slots : call[s].stage = "done" /\ call[s].op = "provision" /\ call[s].answer = 200
       => call[s].env \in born
  /\ born # {} => configured

TeardownIsHeard ==
  \A s \in Slots :
    call[s].op \in {"stop", "destroy"} /\ call[s].stage = "done" /\ call[s].answer = 200
      => call[s].result # "pending" \/ ~configured

AnswersAreEarned == ReadyIsEarned /\ TeardownIsHeard

(* A remembered provision of a sandbox that is gone exists only where a    *)
(* destroy overlapped a provision of that environment: in a sequence of    *)
(* calls, in any order, with failures, destroy leaves nothing stale.       *)
OnlyCrossingsLeaveStale ==
  \A p \in provisioned : p[1] \notin sandboxes => p[1] \in crossed

(* Every call is answered, though the runtime may never answer: the        *)
(* deadline of each operation sees to it.                                  *)
EveryCallReturns ==
  \A s \in Slots : call[s].stage = "request" ~> call[s].stage = "done"
=============================================================================
