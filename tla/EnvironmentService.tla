------------------------- MODULE EnvironmentService -------------------------
(***************************************************************************)
(* services/environmentService.ts over the Environment table.              *)
(*                                                                         *)
(* Every handler of the service reads a row, suspends at an await, decides *)
(* on the copy it read, suspends again, and then updates the row by its id *)
(* without looking at it again.  Between two awaits nothing else of the    *)
(* process runs, so an action is one continuation (the code from one await *)
(* to the next) or one statement of the database; a request is a slot that *)
(* moves through the stages below, and slots interleave freely.            *)
(*                                                                         *)
(* Awaits on the audit log and the session store change no row and read    *)
(* none: they add no action, only a place where Abort can strike.          *)
(*                                                                         *)
(* A definition marked "Wrong:" is a slip the next definition could hold;  *)
(* the specification never uses it.  It shows that a property can fail.    *)
(***************************************************************************)
EXTENDS Integers, FiniteSets

CONSTANTS
  Users,        \* ids of users with a session
  Admins,       \* the users whose roles include ADMIN
  System,       \* the actor of housekeeping calls, no user
  Keys,         \* Idempotency-Key header values
  NoKey,        \* no header was sent
  EnvIds,       \* primary keys of environment rows
  NoId,         \* no row
  Slots,        \* requests in flight at once
  MaxActive,    \* policy.maxActive
  MaxTotal,     \* policy.maxTotal
  Ttl,          \* policy.ttlMinutes, in clock ticks
  MaxLifetime,  \* policy.maxLifetimeMinutes, in clock ticks
  IdemTtl,      \* lifetime of an idempotency entry, in clock ticks
  MaxNow,       \* bound: the clock stops here
  Faults        \* TRUE: awaits may reject and the process may restart

(* loadEnv refuses a policy outside these bounds (config/env.ts).          *)
ASSUME PolicyAssumption ==
  /\ MaxActive \in Nat \ {0} /\ MaxTotal \in Nat \ {0} /\ MaxActive <= MaxTotal
  /\ Ttl \in Nat \ {0} /\ MaxLifetime \in Nat \ {0} /\ Ttl <= MaxLifetime
  /\ IdemTtl \in Nat \ {0}
  /\ MaxNow \in Nat

ASSUME NameAssumption ==
  /\ Admins \subseteq Users /\ System \notin Users
  /\ NoKey \notin Keys /\ NoId \notin EnvIds
  /\ Faults \in BOOLEAN

VARIABLES
  envs,         \* the table: [EnvIds -> Row]
  idem,         \* the idempotency map of this process
  now,          \* the clock
  req           \* [Slots -> Request], the requests in flight

vars == <<envs, idem, now, req>>

Lifecycle == INSTANCE EnvironmentLifecycle
  WITH status <- [e \in EnvIds |-> envs[e].status]

(* Wrong: a timed-out row still counts as live.                            *)
LiveAndTimeout == Lifecycle!LiveStatuses \cup {"TIMEOUT"}

Live == Lifecycle!LiveStatuses
Statuses == Lifecycle!Statuses

-----------------------------------------------------------------------------
(* Rows.  startedAt and destroyedAt matter only as null or not; mintedWith *)
(* is a history field, the key of the request that created the row.        *)

Row == [status : Statuses \cup {"NONE"}, user : Users \cup {System},
        createdAt : Nat, lastActivityAt : Nat, expiresAt : Nat,
        started : BOOLEAN, destroyed : BOOLEAN, mintedWith : Keys \cup {NoKey}]

NoRow == [status |-> "NONE", user |-> System,
          createdAt |-> 0, lastActivityAt |-> 0, expiresAt |-> 0,
          started |-> FALSE, destroyed |-> FALSE, mintedWith |-> NoKey]

Nothing == [e \in EnvIds |-> NoRow]

Exists(row) == row.status # "NONE"

Min2(a, b) == IF a <= b THEN a ELSE b

CappedExpiry(at, createdAt) == Min2(at + Ttl, createdAt + MaxLifetime)

IsExpired(row, at) == row.expiresAt <= at

Retained(rows, u) ==
  {e \in EnvIds : rows[e].user = u /\ Exists(rows[e]) /\ rows[e].status # "DESTROYED"}

LiveOf(rows, u) == {e \in EnvIds : rows[e].user = u /\ rows[e].status \in Live}

-----------------------------------------------------------------------------
(* Requests.  Stages:                                                      *)
(*   idle     no request                                                   *)
(*   find     findById, or the sweep's findExpired, is at the database     *)
(*   list     listByUser is at the database                                *)
(*   decide   the rows read are in hand, the handler has not resumed       *)
(*   insert   the handler's create is at the database                      *)
(*   minted   create has returned, the handler has not resumed             *)
(*   runtime  a call of the runtime provider is pending                    *)
(*   write    an update with status `to` has been asked of transition()    *)
(*   slide    the update of touchEnvironment is at the database            *)
(*   done     the row in `held` is the answer                              *)
(*   refused  a 404 or a 409 is the answer                                 *)
(*   illegal  InvalidEnvironmentTransitionError escapes: a 500             *)

RowOps == {"get", "start", "touch", "reset", "stop", "destroy"}
UserOps == RowOps \cup {"create", "list"}
SystemOps == {"timeout", "fail", "sweep"}

Stages == {"idle", "find", "list", "decide", "insert", "minted", "runtime",
           "write", "slide", "done", "refused", "illegal"}

Request == [stage : Stages, op : UserOps \cup SystemOps,
            actor : Users \cup {System}, key : Keys \cup {NoKey},
            env : EnvIds \cup {NoId}, held : [EnvIds -> Row],
            at : Nat, to : Statuses]

Idle == [stage |-> "idle", op |-> "get", actor |-> System, key |-> NoKey,
         env |-> NoId, held |-> Nothing, at |-> 0, to |-> "REQUESTED"]

IdemEntry == [id : EnvIds \cup {NoId}, expiresAt : Nat]

NoEntry == [id |-> NoId, expiresAt |-> 0]

NoEntries == [u \in Users |-> [k \in Keys |-> NoEntry]]

Init ==
  /\ envs = Nothing
  /\ idem = NoEntries
  /\ now = 0
  /\ req = [s \in Slots |-> Idle]

-----------------------------------------------------------------------------
(* Arrival of a call: the code that runs before the first await.           *)

(* Request s moves on to r; the other requests wait.                       *)
Become(s, r) == req' = [req EXCEPT ![s] = r]

Accept(s, r) == req[s].stage = "idle" /\ Become(s, r)

(* Bound: a create is only sent while a primary key is left for it.        *)
KeysLeft ==
  Cardinality({s \in Slots : req[s].op = "create" /\ req[s].stage \in {"find", "list", "decide", "insert"}})
    < Cardinality({e \in EnvIds : ~Exists(envs[e])})

(* This process has an unexpired entry for the key.                        *)
Remembered(u, k) == k \in Keys /\ idem[u][k].id # NoId /\ idem[u][k].expiresAt > now

(* requestEnvironment with a key that is remembered.                       *)
ReplayCreate(s, u, k) ==
  /\ Remembered(u, k)
  /\ Accept(s, [Idle EXCEPT !.stage = "find", !.op = "create", !.actor = u,
                            !.key = k, !.env = idem[u][k].id])
  /\ UNCHANGED <<envs, idem, now>>

(* requestEnvironment otherwise: get drops an expired entry, the target is *)
(* validated, and only a valid one reaches the database.                   *)
FreshCreate(s, u, k, validTarget) ==
  /\ ~Remembered(u, k)
  /\ Accept(s, [Idle EXCEPT !.stage = IF validTarget THEN "list" ELSE "refused",
                            !.op = "create", !.actor = u, !.key = k])
  /\ idem' = IF k \in Keys THEN [idem EXCEPT ![u][k] = NoEntry] ELSE idem
  /\ UNCHANGED <<envs, now>>

(* Any other call of a user: the row is read through loadOwned.            *)
CallRow(s, u, op, e) ==
  /\ Accept(s, [Idle EXCEPT !.stage = "find", !.op = op, !.actor = u, !.env = e])
  /\ UNCHANGED <<envs, idem, now>>

CallList(s, u) ==
  /\ Accept(s, [Idle EXCEPT !.stage = "list", !.op = "list", !.actor = u])
  /\ UNCHANGED <<envs, idem, now>>

(* timeoutEnvironment and failEnvironment.                                 *)
CallSystem(s, op, e) ==
  /\ Accept(s, [Idle EXCEPT !.stage = "find", !.op = op, !.env = e])
  /\ UNCHANGED <<envs, idem, now>>

(* cleanupExpiredEnvironments: the cutoff is the clock at the call.        *)
CallSweep(s) ==
  /\ Accept(s, [Idle EXCEPT !.stage = "find", !.op = "sweep", !.at = now])
  /\ UNCHANGED <<envs, idem, now>>

-----------------------------------------------------------------------------
(* Statements of the database.                                             *)

(* Wrong: a row that expires at the cutoff itself is left out.             *)
WantedTooLate(r, e) ==
  CASE r.stage = "list" -> Exists(envs[e]) /\ envs[e].user = r.actor
    [] r.op = "sweep"   -> envs[e].status \in Live /\ envs[e].expiresAt < r.at
    [] OTHER            -> e = r.env

Wanted(r, e) ==
  CASE r.stage = "list" -> Exists(envs[e]) /\ envs[e].user = r.actor
    [] r.op = "sweep"   -> envs[e].status \in Live /\ IsExpired(envs[e], r.at)
    [] OTHER            -> e = r.env

(* findById, listByUser and findExpired: the rows are copied.              *)
Read(s) ==
  /\ req[s].stage \in {"find", "list"}
  /\ Become(s, [req[s] EXCEPT !.stage = "decide",
       !.held = [e \in EnvIds |-> IF Wanted(req[s], e) THEN envs[e] ELSE NoRow]])
  /\ UNCHANGED <<envs, idem, now>>

(* repos.environments.create: the database picks the key and createdAt.    *)
Insert(s, e) ==
  LET row == [status |-> "REQUESTED", user |-> req[s].actor, createdAt |-> now,
              lastActivityAt |-> req[s].at,
              expiresAt |-> CappedExpiry(req[s].at, req[s].at),
              started |-> FALSE, destroyed |-> FALSE, mintedWith |-> req[s].key]
  IN /\ req[s].stage = "insert" /\ ~Exists(envs[e])
     /\ envs' = [envs EXCEPT ![e] = row]
     /\ Become(s, [req[s] EXCEPT !.stage = "minted", !.at = 0,
                                 !.env = e, !.held = [Nothing EXCEPT ![e] = row]])
     /\ UNCHANGED <<idem, now>>

(* Which updates slide the idle window: activation and the end of a reset. *)
Slides(op, to) == to = "ACTIVE" \/ (op = "reset" /\ to = "READY")

(* Wrong: the lifetime is counted from the activity, not the creation.     *)
SlidFromActivity(row, at, createdAt) ==
  [row EXCEPT !.lastActivityAt = at, !.expiresAt = CappedExpiry(at, at)]

(* Wrong: the row expires at its activity, the TTL is forgotten.           *)
SlidWithoutTtl(row, at, createdAt) ==
  [row EXCEPT !.lastActivityAt = at, !.expiresAt = Min2(at, createdAt + MaxLifetime)]

(* Wrong: activity makes the row ACTIVE.                                   *)
SlidActive(row, at, createdAt) ==
  [row EXCEPT !.status = "ACTIVE", !.lastActivityAt = at,
              !.expiresAt = CappedExpiry(at, createdAt)]

(* The idle window restarts at `at`.                                       *)
Slid(row, at, createdAt) ==
  [row EXCEPT !.lastActivityAt = at, !.expiresAt = CappedExpiry(at, createdAt)]

(* startedAt is set by an activation and cleared by a reset and a stop.    *)
StartedAfter(started, op, to) ==
  to = "ACTIVE" \/ (started /\ ~(to = "READY" /\ op \in {"reset", "stop"}))

Patched(row, op, to, at, createdAt) ==
  [(IF Slides(op, to) THEN Slid(row, at, createdAt) ELSE row) EXCEPT
     !.status = to,
     !.started = StartedAfter(@, op, to),
     !.destroyed = @ \/ to = "DESTROYED"]

(* The status an operation ends with.                                      *)
Goal == [start |-> "ACTIVE", reset |-> "READY", stop |-> "READY",
         destroy |-> "DESTROYED", timeout |-> "TIMEOUT", fail |-> "FAILED",
         sweep |-> "TIMEOUT"]

(* Wrong: the sweep never leaves the first row of its list.                *)
RestUnshortened(r) == r.held

(* What is left of a list after the row at hand.                           *)
Rest(r) == [r.held EXCEPT ![r.env] = NoRow]

(* transition(env, to, patch): the table is consulted for the copy's       *)
(* status, then the row is updated by id.  The updated row is what the     *)
(* handler goes on with; the sweep goes on with the rest of its list.      *)
Transition(s) ==
  LET r == req[s]
      row == Patched(envs[r.env], r.op, r.to, r.at, r.held[r.env].createdAt)
  IN /\ r.stage = "write"
     /\ Lifecycle!CanTransition(r.held[r.env].status, r.to)
     /\ envs' = [envs EXCEPT ![r.env] = row]
     /\ Become(s, [r EXCEPT
          !.stage = IF r.to = Goal[r.op] /\ (r.op = "sweep" => Rest(r) = Nothing)
                    THEN "done" ELSE "runtime",
          !.at = IF r.op = "sweep" THEN @ ELSE 0,
          !.held = IF r.op = "sweep" THEN Rest(r) ELSE [@ EXCEPT ![r.env] = row]])
     /\ UNCHANGED <<idem, now>>

(* assertTransition throws InvalidEnvironmentTransitionError.              *)
IllegalTransition(s) ==
  /\ req[s].stage = "write"
  /\ ~Lifecycle!CanTransition(req[s].held[req[s].env].status, req[s].to)
  /\ Become(s, [req[s] EXCEPT !.stage = "illegal"])
  /\ UNCHANGED <<envs, idem, now>>

(* Wrong: the whole copy is written back, its status with it.              *)
SlideWholeCopy(s) ==
  LET r == req[s]
      row == Slid(r.held[r.env], r.at, r.held[r.env].createdAt)
  IN /\ r.stage = "slide"
     /\ envs' = [envs EXCEPT ![r.env] = row]
     /\ Become(s, [r EXCEPT !.stage = "done", !.at = 0,
                            !.held = [@ EXCEPT ![r.env] = row]])
     /\ UNCHANGED <<idem, now>>

(* The update of touchEnvironment, the one that carries no status.         *)
Slide(s) ==
  LET r == req[s]
      row == Slid(envs[r.env], r.at, r.held[r.env].createdAt)
  IN /\ r.stage = "slide"
     /\ envs' = [envs EXCEPT ![r.env] = row]
     /\ Become(s, [r EXCEPT !.stage = "done", !.at = 0,
                            !.held = [@ EXCEPT ![r.env] = row]])
     /\ UNCHANGED <<idem, now>>

-----------------------------------------------------------------------------
(* Continuations: what a handler does with the rows it read.               *)

Resume(s, stage) ==
  /\ Become(s, [req[s] EXCEPT !.stage = stage])
  /\ UNCHANGED <<envs, idem, now>>

Refuse(s) ==
  /\ Become(s, [req[s] EXCEPT !.stage = "refused", !.held = Nothing])
  /\ UNCHANGED <<envs, idem, now>>

(* The handler asks transition() for status `to`.                          *)
Ask(s, to) ==
  /\ Become(s, [req[s] EXCEPT !.stage = "write", !.to = to])
  /\ UNCHANGED <<envs, idem, now>>

Deciding(s, op) == req[s].stage = "decide" /\ req[s].op = op

Loaded(s) == req[s].held[req[s].env]

(* Wrong: any row that exists is let through.                              *)
OwnedByAnyone(s) == req[s].env # NoId /\ Exists(Loaded(s))

(* loadOwned lets the row through.                                         *)
Owned(s) ==
  /\ req[s].env # NoId /\ Exists(Loaded(s))
  /\ Loaded(s).user = req[s].actor \/ req[s].actor \in Admins

DecideUnowned(s) ==
  /\ req[s].stage = "decide" /\ req[s].op \in RowOps
  /\ ~Owned(s)
  /\ Refuse(s)

DecideGet(s) == Deciding(s, "get") /\ Owned(s) /\ Resume(s, "done")

DecideList(s) == Deciding(s, "list") /\ Resume(s, "done")

(* Wrong: a remembered row that was destroyed since is made anew.          *)
ReplayableUnlessDestroyed(s) ==
  Exists(Loaded(s)) /\ Loaded(s).user = req[s].actor /\ Loaded(s).status # "DESTROYED"

Replayable(s) == Exists(Loaded(s)) /\ Loaded(s).user = req[s].actor

(* requestEnvironment after findById of the remembered row.                *)
DecideReplay(s) ==
  /\ Deciding(s, "create") /\ req[s].env # NoId
  /\ \/ Replayable(s) /\ Resume(s, "done")
     \/ /\ ~Replayable(s)
        /\ Become(s, [req[s] EXCEPT !.stage = "list", !.env = NoId, !.held = Nothing])
        /\ UNCHANGED <<envs, idem, now>>

(* Wrong: one row more than MAX_TOTAL_ENVIRONMENTS is let in.              *)
FullTooLate(rows, u) ==
  Cardinality(LiveOf(rows, u)) >= MaxActive \/ Cardinality(Retained(rows, u)) > MaxTotal

(* The list of a user's rows reaches one of the two limits.                *)
Full(rows, u) ==
  Cardinality(LiveOf(rows, u)) >= MaxActive \/ Cardinality(Retained(rows, u)) >= MaxTotal

(* requestEnvironment after listByUser: both limits, on the list.          *)
DecideCreate(s) ==
  LET full == Full(req[s].held, req[s].actor)
  IN /\ Deciding(s, "create") /\ req[s].env = NoId
     /\ \/ full /\ Refuse(s)
        \/ /\ ~full
           /\ Become(s, [req[s] EXCEPT !.stage = "insert", !.at = now, !.held = Nothing])
           /\ UNCHANGED <<envs, idem, now>>

(* activateEnvironment.  FAILED falls through to runtime.start.            *)
DecideStart(s) ==
  LET row == Loaded(s)
      open == ~IsExpired(row, now) /\ row.status \notin {"ACTIVE", "DESTROYED", "DESTROYING"}
  IN /\ Deciding(s, "start") /\ Owned(s)
     /\ \/ row.status = "ACTIVE" /\ Resume(s, "done")
        \/ row.status \in {"DESTROYED", "DESTROYING"} /\ Refuse(s)
        \/ row.status \notin {"ACTIVE", "DESTROYED", "DESTROYING"} /\ ~open /\ Refuse(s)
        \/ open /\ row.status = "REQUESTED" /\ Ask(s, "PROVISIONING")
        \/ open /\ row.status \in {"TIMEOUT", "RESETTING"} /\ Refuse(s)
        \/ open /\ row.status \in {"PROVISIONING", "READY", "FAILED"} /\ Resume(s, "runtime")

DecideTouch(s) ==
  LET open == Loaded(s).status \in Live /\ ~IsExpired(Loaded(s), now)
  IN /\ Deciding(s, "touch") /\ Owned(s)
     /\ \/ ~open /\ Refuse(s)
        \/ /\ open
           /\ Become(s, [req[s] EXCEPT !.stage = "slide", !.at = now])
           /\ UNCHANGED <<envs, idem, now>>

DecideReset(s) ==
  LET open == Loaded(s).status \in {"READY", "ACTIVE", "TIMEOUT"}
  IN /\ Deciding(s, "reset") /\ Owned(s)
     /\ \/ ~open /\ Refuse(s)
        \/ open /\ Ask(s, "RESETTING")

DecideStop(s) ==
  LET st == Loaded(s).status
  IN /\ Deciding(s, "stop") /\ Owned(s)
     /\ \/ st = "READY" /\ Resume(s, "done")
        \/ st \notin {"READY", "ACTIVE"} /\ Refuse(s)
        \/ st = "ACTIVE" /\ Resume(s, "runtime")

(* Wrong: a teardown that was cut short is taken for done.                 *)
DecideDestroyHalfDone(s) ==
  LET st == Loaded(s).status
  IN /\ Deciding(s, "destroy") /\ Owned(s)
     /\ \/ st \in {"DESTROYED", "DESTROYING"} /\ Resume(s, "done")
        \/ st \notin {"DESTROYED", "DESTROYING"} /\ Ask(s, "DESTROYING")

DecideDestroy(s) ==
  LET st == Loaded(s).status
  IN /\ Deciding(s, "destroy") /\ Owned(s)
     /\ \/ st = "DESTROYED" /\ Resume(s, "done")
        \/ st = "DESTROYING" /\ Resume(s, "runtime")
        \/ st \notin {"DESTROYED", "DESTROYING"} /\ Ask(s, "DESTROYING")

(* timeoutEnvironment: null for no row, the row itself if not live.        *)
DecideTimeout(s) ==
  /\ Deciding(s, "timeout")
  /\ \/ Loaded(s).status \notin Live /\ Resume(s, "done")
     \/ Loaded(s).status \in Live /\ Resume(s, "runtime")

DecideFail(s) ==
  LET over == ~Exists(Loaded(s)) \/ Loaded(s).status \in {"FAILED", "DESTROYED"}
  IN /\ Deciding(s, "fail")
     /\ \/ over /\ Resume(s, "done")
        \/ ~over /\ Ask(s, "FAILED")

DecideSweep(s) ==
  /\ Deciding(s, "sweep")
  /\ \/ req[s].held = Nothing /\ Resume(s, "done")
     \/ req[s].held # Nothing /\ Resume(s, "runtime")

(* The runtime provider has answered: now() is sampled and the next status *)
(* asked for.  The sweep takes up any row of its list that is left.        *)
RuntimeReturns(s, e) ==
  LET r == req[s]
      to == IF r.op = "start" /\ r.held[e].status = "PROVISIONING" THEN "READY"
            ELSE Goal[r.op]
  IN /\ r.stage = "runtime" /\ Exists(r.held[e])
     /\ Become(s, [r EXCEPT !.stage = "write", !.env = e, !.to = to,
                            !.at = IF r.op = "sweep" THEN @ ELSE now])
     /\ UNCHANGED <<envs, idem, now>>

(* requestEnvironment after the create: remember the key, then answer.     *)
Minted(s) ==
  LET r == req[s]
  IN /\ r.stage = "minted"
     /\ idem' = IF r.key \in Keys
                THEN [idem EXCEPT ![r.actor][r.key] = [id |-> r.env, expiresAt |-> now + IdemTtl]]
                ELSE idem
     /\ Become(s, [r EXCEPT !.stage = "done"])
     /\ UNCHANGED <<envs, now>>

Answered == {"done", "refused", "illegal"}

Reply(s) ==
  /\ req[s].stage \in Answered
  /\ Become(s, Idle)
  /\ UNCHANGED <<envs, idem, now>>

-----------------------------------------------------------------------------
(* Faults and the clock.                                                   *)

Awaiting == {"find", "list", "insert", "minted", "runtime", "write", "slide"}

(* An await rejects (a lost connection, a failed audit write): the handler *)
(* ends in a 500 and what it already wrote stays.  At `minted` the row is  *)
(* in the table and the answer of the insert was lost.                     *)
Abort(s) ==
  /\ Faults
  /\ req[s].stage \in Awaiting
  /\ Become(s, Idle)
  /\ UNCHANGED <<envs, idem, now>>

(* The process restarts: requests in flight and the idempotency map go.    *)
Restart ==
  /\ Faults
  /\ req' = [s \in Slots |-> Idle]
  /\ idem' = NoEntries
  /\ UNCHANGED <<envs, now>>

Tick == now < MaxNow /\ now' = now + 1 /\ UNCHANGED <<envs, idem, req>>

-----------------------------------------------------------------------------

Call(s) ==
  \/ \E u \in Users :
       \/ \E k \in Keys \cup {NoKey} :
            KeysLeft /\ (ReplayCreate(s, u, k) \/ \E valid \in BOOLEAN : FreshCreate(s, u, k, valid))
       \/ \E op \in RowOps, e \in EnvIds : CallRow(s, u, op, e)
       \/ CallList(s, u)
  \/ \E op \in {"timeout", "fail"}, e \in EnvIds : CallSystem(s, op, e)
  \/ CallSweep(s)

Decide(s) ==
  \/ DecideUnowned(s) \/ DecideGet(s)  \/ DecideList(s)  \/ DecideReplay(s)
  \/ DecideCreate(s)  \/ DecideStart(s) \/ DecideTouch(s) \/ DecideReset(s)
  \/ DecideStop(s) \/ DecideDestroy(s) \/ DecideTimeout(s) \/ DecideFail(s)
  \/ DecideSweep(s)

(* What a request does once it has arrived.                                *)
Progress(s) ==
  \/ Read(s) \/ Decide(s) \/ (\E e \in EnvIds : RuntimeReturns(s, e))
  \/ Transition(s) \/ IllegalTransition(s) \/ Slide(s)
  \/ (\E e \in EnvIds : Insert(s, e)) \/ Minted(s) \/ Reply(s)

Next == (\E s \in Slots : Call(s) \/ Progress(s) \/ Abort(s)) \/ Restart \/ Tick

Spec == Init /\ [][Next]_vars

(* The event loop resumes a handler whose await has settled, and the       *)
(* driver and the runtime provider settle every call.  Nothing says when   *)
(* the next request arrives, and no scheduler runs the sweep.              *)
FairSpec == Spec /\ \A s \in Slots : WF_vars(Progress(s))

-----------------------------------------------------------------------------
(* Type invariant of the table, the idempotency map and the requests.      *)
TypeOK ==
  /\ envs \in [EnvIds -> Row]
  /\ idem \in [Users -> [Keys -> IdemEntry]]
  /\ now \in Nat
  /\ req \in [Slots -> Request]

(*-------------------------------------------------------------------------*)
(* Properties that hold however requests interleave, fail and restart.     *)
(*-------------------------------------------------------------------------*)

(* The expiry of a row is always its last activity plus the TTL, clamped   *)
(* to createdAt + MAX_ENVIRONMENT_LIFETIME_MINUTES: no sequence of         *)
(* creations, activations, resets and touches, however late or stale their *)
(* updates are, extends a row past its absolute lifetime (cappedExpiry).   *)
SlidingWindow ==
  \A e \in EnvIds : Exists(envs[e]) =>
    envs[e].expiresAt = CappedExpiry(envs[e].lastActivityAt, envs[e].createdAt)

(* Past its ownership check a request of a user holds no row that belongs  *)
(* to somebody else, unless the user is an ADMIN; the owner is the one the *)
(* table names now, not the one of the copy (loadOwned, listByUser and the *)
(* owner check of the idempotent replay).                                  *)
Isolation ==
  \A s \in Slots, e \in EnvIds :
    /\ req[s].op \in UserOps
    /\ req[s].stage \notin {"idle", "find", "list", "decide"}
    /\ Exists(req[s].held[e])
    => envs[e].user = req[s].actor \/ req[s].actor \in Admins

(* Of all operations from all statuses only a start of a FAILED            *)
(* environment lets InvalidEnvironmentTransitionError escape: every other  *)
(* handler's own guard refuses first what the table forbids.               *)
OnlyFailedStartEscapes ==
  \A s \in Slots : req[s].stage = "illegal" =>
    req[s].op = "start" /\ Loaded(s).status = "FAILED"

(* Every copy of e that can still lead to a status update was read after e *)
(* was DESTROYED.                                                          *)
Settled(e) ==
  /\ envs[e].status = "DESTROYED"
  /\ \A s \in Slots :
       req[s].stage \in {"decide", "runtime", "write"} /\ Exists(req[s].held[e])
         => req[s].held[e].status = "DESTROYED"

(* Once a row is DESTROYED and the requests that read it earlier are over, *)
(* no request brings it back: DESTROYED is terminal for everyone who sees  *)
(* it.                                                                     *)
SettledIsFinal == [][\A e \in EnvIds : Settled(e) => Settled(e)']_vars

(* Every call that arrives is answered, the sweep included, whatever state *)
(* earlier calls and their failures left the rows in.                      *)
EveryCallAnswered ==
  \A s \in Slots : req[s].stage # "idle" ~> req[s].stage = "idle"

(*-------------------------------------------------------------------------*)
(* Properties that hold when requests do not overlap (one slot), also      *)
(* across rejected awaits and restarts.                                    *)
(*-------------------------------------------------------------------------*)

(* The service implements the life cycle: each step of it creates a row    *)
(* as REQUESTED, takes one edge of the transition table, or changes no     *)
(* status.                                                                 *)
ImplementsLifecycle == Lifecycle!Spec

(* No user retains more than MAX_TOTAL_ENVIRONMENTS rows.                  *)
RetainedBound == \A u \in Users : Cardinality(Retained(envs, u)) <= MaxTotal

(* The answer of a call is the row as the table has it, and a call that    *)
(* succeeds has brought the row to the status it stands for; so a destroy  *)
(* succeeds from whatever status a failed call left behind.                *)
AnswerIsTheRow ==
  \A s \in Slots, e \in EnvIds :
    req[s].stage = "done" /\ Exists(req[s].held[e]) =>
      /\ req[s].held[e] = envs[e]
      /\ req[s].op \in {"start", "reset", "stop", "destroy"} => envs[e].status = Goal[req[s].op]

(* Activity only moves the expiry of a row forward, a reset included.      *)
ExpiryOnlySlidesForward ==
  [][\A e \in EnvIds : Exists(envs[e]) => envs'[e].expiresAt >= envs[e].expiresAt]_vars

(* A sweep that runs to its end leaves no live row that had expired at its *)
(* cutoff, rows that a failed call left half way included.                 *)
SweepReclaims ==
  \A s \in Slots, e \in EnvIds :
    req[s].op = "sweep" /\ req[s].stage = "done" =>
      ~(envs[e].status \in Live /\ IsExpired(envs[e], req[s].at))

(* While the process remembers a key of a user, no create of the user with *)
(* that key adds a row, whatever became of the remembered row since: the   *)
(* retry is answered with it.                                              *)
RememberedKeyMintsNothing ==
  [][\A e \in EnvIds, u \in Users, k \in Keys :
       /\ ~Exists(envs[e]) /\ Exists(envs'[e])
       /\ envs'[e].user = u /\ envs'[e].mintedWith = k
       => idem[u][k].id = NoId \/ idem[u][k].expiresAt <= now]_vars

(*-------------------------------------------------------------------------*)
(* What the repository says of the service and the code does not keep.     *)
(*-------------------------------------------------------------------------*)

(* ENVIRONMENTS.md: `DESTROYED` is terminal.                               *)
DestroyedIsTerminal ==
  [][\A e \in EnvIds : envs[e].status = "DESTROYED" => envs'[e].status = "DESTROYED"]_vars

(* ENVIRONMENTS.md: MAX_ACTIVE_ENVIRONMENTS limits concurrently-live       *)
(* environments.                                                           *)
ActiveBound == \A u \in Users : Cardinality(LiveOf(envs, u)) <= MaxActive
=============================================================================
