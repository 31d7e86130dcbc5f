---------------------- MODULE EnvironmentServiceProofs ----------------------
(***************************************************************************)
(* Theorems about EnvironmentService, for every number of users, rows,     *)
(* keys and concurrent requests, and every policy loadEnv accepts.         *)
(*                                                                         *)
(* The inductive invariant IInv relates each request to the table: what a  *)
(* request can hold at each stage (WellStaged), that a copy agrees with    *)
(* its row in everything no update changes (Copies), and that the row may  *)
(* be held by this actor (Allowed).  One lemma (SlotStep) reduces a step   *)
(* of one request to facts about its new local state, so an action is      *)
(* proved once for all of IInv.  A second invariant, AllLawful, ties what  *)
(* a request is about to write to what its handler found in its copy.      *)
(***************************************************************************)
EXTENDS EnvironmentService, TLAPS

(* The rows a query returns are the ones its caller asked for.             *)
Fits(r) ==
  \A e \in EnvIds : Exists(r.held[e]) =>
    CASE r.env = NoId /\ r.op \in {"list", "create"} -> r.held[e].user = r.actor
      [] r.op = "sweep" -> r.held[e].status \in Live
      [] OTHER -> e = r.env

(* What the stage of a request says about it, at clock reading t.          *)
WellStaged(r, t) ==
  /\ r.stage # "idle" /\ r.op \in RowOps \cup {"timeout", "fail"} => r.env \in EnvIds
  /\ r.stage \in {"runtime", "write"} => r.op \in DOMAIN Goal
  /\ r.stage \in {"write", "slide"} => r.env \in EnvIds /\ Exists(r.held[r.env])
  /\ r.stage \in {"runtime", "write"} =>
       \A e \in EnvIds : Exists(r.held[e]) => r.held[e].status # "DESTROYED"
  /\ r.at <= t
  /\ r.op = "list" => r.stage # "find" /\ r.env = NoId
  /\ r.stage = "list" => r.op \in {"list", "create"} /\ r.env = NoId
  /\ r.stage = "decide" => Fits(r)
  /\ r.stage \in {"insert", "minted"} => r.op = "create"
  /\ r.stage = "write" /\ r.to = "DESTROYED" => r.op = "destroy"

(* A copy in hand is of a row of table rows, with its owner and its birth. *)
Copies(r, rows) ==
  \A e \in EnvIds : Exists(r.held[e]) =>
    /\ Exists(rows[e])
    /\ r.held[e].user = rows[e].user
    /\ r.held[e].createdAt = rows[e].createdAt

(* The rows in hand are ones the actor may see.                            *)
Allowed(r, rows) ==
  r.op \in UserOps /\ r.stage \notin {"idle", "find", "list", "decide"} =>
    \A e \in EnvIds : Exists(r.held[e]) => rows[e].user = r.actor \/ r.actor \in Admins

Good(r, rows, t) == WellStaged(r, t) /\ Copies(r, rows) /\ Allowed(r, rows)

InWindow(row) ==
  Exists(row) => row.expiresAt = CappedExpiry(row.lastActivityAt, row.createdAt)

(* The inductive invariant.                                                *)
IInv ==
  /\ TypeOK
  /\ \A s \in Slots : Good(req[s], envs, now)
  /\ \A e \in EnvIds : InWindow(envs[e])

(* No update of the table removes a row or changes its owner or birth.     *)
KeepsIdentity(old, new) ==
  \A e \in EnvIds : Exists(old[e]) =>
    /\ Exists(new[e])
    /\ new[e].user = old[e].user
    /\ new[e].createdAt = old[e].createdAt

-----------------------------------------------------------------------------
(* The values the model is built from.                                     *)

LEMMA NoRowType == NoRow \in Row /\ ~Exists(NoRow)
BY NameAssumption DEF NoRow, Row, Exists, Statuses, Lifecycle!Statuses

LEMMA IdleType == Idle \in Request /\ Nothing \in [EnvIds -> Row]
BY NoRowType, NameAssumption
DEF Idle, Request, Stages, UserOps, RowOps, SystemOps, Nothing, Statuses, Lifecycle!Statuses

LEMMA CappedExpiryType ==
  ASSUME NEW at \in Nat, NEW createdAt \in Nat
  PROVE  CappedExpiry(at, createdAt) \in Nat
BY PolicyAssumption DEF CappedExpiry, Min2

LEMMA NothingIsEmpty == \A e \in EnvIds : ~Exists(Nothing[e])
BY NoRowType DEF Nothing

LEMMA StatusNames ==
  /\ {"REQUESTED", "PROVISIONING", "READY", "ACTIVE", "TIMEOUT", "RESETTING",
      "DESTROYING", "DESTROYED", "FAILED"} = Statuses
  /\ Live \subseteq Statuses /\ "NONE" \notin Statuses
  /\ "DESTROYED" \notin Live
  /\ \A op \in DOMAIN Goal : Goal[op] \in Statuses
BY DEF Statuses, Live, Lifecycle!Statuses, Lifecycle!LiveStatuses, Goal

(* An update by id leaves a row a row, the same one, in its window.        *)
LEMMA PatchedRow ==
  ASSUME NEW row \in Row, NEW op, NEW to \in Statuses, NEW at \in Nat, Exists(row), InWindow(row)
  PROVE  LET new == Patched(row, op, to, at, row.createdAt)
         IN  /\ new \in Row /\ Exists(new) /\ InWindow(new)
             /\ new.user = row.user /\ new.createdAt = row.createdAt /\ new.status = to
<1> PICK new : new = Patched(row, op, to, at, row.createdAt)
  OBVIOUS
<1>1. CappedExpiry(at, row.createdAt) \in Nat
  BY CappedExpiryType DEF Row
<1>2. new \in Row
  <2>1. CASE Slides(op, to)
    BY <1>1, <2>1 DEF Patched, StartedAfter, Slid, Row
  <2>2. CASE ~Slides(op, to)
    BY <2>2 DEF Patched, StartedAfter, Row
  <2> QED BY <2>1, <2>2
<1>3. new.user = row.user /\ new.createdAt = row.createdAt /\ new.status = to
  BY DEF Patched, Slid, Row
<1>4. Exists(new)
  BY <1>3, StatusNames DEF Exists
<1>5. InWindow(new)
  BY DEF Patched, Slid, Row, InWindow
<1> QED BY <1>2, <1>3, <1>4, <1>5

(* The expiry of a new row, computed before the database stamps the row,   *)
(* is the one its window asks for: this needs TTL <= MAX_LIFETIME.         *)
LEMMA NewRowInWindow ==
  ASSUME NEW at \in Nat, NEW createdAt \in Nat, at <= createdAt
  PROVE  CappedExpiry(at, at) = CappedExpiry(at, createdAt)
BY PolicyAssumption DEF CappedExpiry, Min2

-----------------------------------------------------------------------------
(* A step of request s that leaves it in state q and the clock alone.      *)
LEMMA SlotStep ==
  ASSUME IInv, NEW s \in Slots, NEW q \in Request, Become(s, q),
         envs' \in [EnvIds -> Row], idem' \in [Users -> [Keys -> IdemEntry]], now' = now,
         KeepsIdentity(envs, envs'), \A e \in EnvIds : InWindow(envs'[e]),
         Good(q, envs', now)
  PROVE  IInv'
<1>1. TypeOK'
  BY DEF IInv, TypeOK, Become
<1>2. ASSUME NEW t \in Slots PROVE Good(req'[t], envs', now')
  <2>1. CASE t = s
    BY <2>1 DEF IInv, TypeOK, Become
  <2>2. CASE t # s
    <3>1. req'[t] = req[t] /\ req[t] \in Request /\ Good(req[t], envs, now)
      BY <2>2 DEF IInv, TypeOK, Become
    <3>2. Copies(req[t], envs')
      BY <3>1 DEF Good, Copies, KeepsIdentity
    <3>3. Allowed(req[t], envs')
      BY <3>1 DEF Good, Copies, Allowed, KeepsIdentity
    <3> QED BY <3>1, <3>2, <3>3 DEF Good
  <2> QED BY <2>1, <2>2
<1> QED BY <1>1, <1>2 DEF IInv

(* ... when it also leaves the table and the idempotency map alone.        *)
LEMMA LocalStep ==
  ASSUME IInv, NEW s \in Slots, NEW q \in Request, Become(s, q),
         UNCHANGED <<envs, idem, now>>, Good(q, envs, now)
  PROVE  IInv'
BY SlotStep DEF IInv, TypeOK, KeepsIdentity

LEMMA IdleIsGood == ASSUME NEW rows, NEW t \in Nat PROVE Good(Idle, rows, t)
BY NothingIsEmpty DEF Idle, Good, WellStaged, Copies, Allowed

LEMMA InitIInv == Init => IInv
BY IdleType, IdleIsGood, NothingIsEmpty, NameAssumption
DEF Init, IInv, TypeOK, NoEntries, NoEntry, IdemEntry, InWindow

-----------------------------------------------------------------------------
(* The actions.                                                            *)

LEMMA CallKeepsIInv ==
  ASSUME IInv, NEW s \in Slots, Call(s)
  PROVE  IInv'
<1> DEFINE Fresh(q) == q \in Request /\ q.stage # "idle" /\ q.held = Nothing /\ q.at <= now
                       /\ q.stage \in {"find", "list", "refused"}
                       /\ (q.stage = "list" => q.op \in {"list", "create"} /\ q.env = NoId)
                       /\ (q.op = "list" => q.stage # "find" /\ q.env = NoId)
                       /\ (q.op \in RowOps \cup {"timeout", "fail"} => q.env \in EnvIds)
<1>1. ASSUME NEW q, Fresh(q) PROVE Good(q, envs, now)
  BY <1>1, NothingIsEmpty DEF Good, WellStaged, Copies, Allowed
<1>2. ASSUME NEW q, Fresh(q), Become(s, q), UNCHANGED <<envs, idem, now>> PROVE IInv'
  BY <1>1, <1>2, LocalStep
<1>3. 0 <= now /\ now \in Nat
  BY DEF IInv, TypeOK
<1>4. ASSUME NEW u \in Users, NEW k \in Keys \cup {NoKey}, ReplayCreate(s, u, k)
      PROVE  IInv'
  <2> DEFINE q == [Idle EXCEPT !.stage = "find", !.op = "create", !.actor = u,
                               !.key = k, !.env = idem[u][k].id]
  <2>1. idem[u][k].id \in EnvIds \cup {NoId}
    BY <1>4 DEF ReplayCreate, Remembered, IInv, TypeOK, IdemEntry
  <2>2. q \in Request
    BY IdleType, <2>1 DEF Request, Stages, UserOps
  <2>3. Fresh(q)
    BY <2>2, <1>3 DEF Idle, RowOps
  <2> QED BY <2>3, <1>2, <1>4 DEF ReplayCreate, Accept
<1>5. ASSUME NEW u \in Users, NEW k \in Keys \cup {NoKey}, NEW v \in BOOLEAN,
             FreshCreate(s, u, k, v)
      PROVE  IInv'
  <2> DEFINE q == [Idle EXCEPT !.stage = IF v THEN "list" ELSE "refused",
                               !.op = "create", !.actor = u, !.key = k]
  <2>1. q \in Request
    <3>1. (IF v THEN "list" ELSE "refused") \in Stages /\ "create" \in UserOps
      BY DEF Stages, UserOps
    <3> QED BY <3>1, IdleType DEF Request
  <2>2. Good(q, envs, now)
    <3>1. q.held = Nothing /\ q.at = 0 /\ q.op = "create" /\ q.env = NoId
          /\ q.stage \in {"list", "refused"}
      BY DEF Idle
    <3>2. Fresh(q)
      BY <2>1, <3>1, <1>3 DEF RowOps
    <3> QED BY <3>2, <1>1
  <2>3. idem' \in [Users -> [Keys -> IdemEntry]]
    BY <1>5 DEF FreshCreate, IInv, TypeOK, NoEntry, IdemEntry
  <2> HIDE DEF q
  <2> QED BY <2>1, <2>2, <2>3, <1>5, SlotStep
          DEF q, FreshCreate, Accept, IInv, TypeOK, KeepsIdentity
<1>6. ASSUME NEW u \in Users, NEW op \in RowOps, NEW e \in EnvIds, CallRow(s, u, op, e)
      PROVE  IInv'
  <2> DEFINE q == [Idle EXCEPT !.stage = "find", !.op = op, !.actor = u, !.env = e]
  <2>1. q \in Request
    BY IdleType DEF Request, Stages, UserOps
  <2> QED BY <2>1, <1>2, <1>3, <1>6 DEF Idle, CallRow, Accept, RowOps
<1>7. ASSUME NEW u \in Users, CallList(s, u)
      PROVE  IInv'
  <2> DEFINE q == [Idle EXCEPT !.stage = "list", !.op = "list", !.actor = u]
  <2>1. q \in Request
    BY IdleType DEF Request, Stages, UserOps
  <2> QED BY <2>1, <1>2, <1>3, <1>7 DEF Idle, CallList, Accept, RowOps
<1>8. ASSUME NEW op \in {"timeout", "fail"}, NEW e \in EnvIds, CallSystem(s, op, e)
      PROVE  IInv'
  <2> DEFINE q == [Idle EXCEPT !.stage = "find", !.op = op, !.env = e]
  <2>1. q \in Request
    BY IdleType DEF Request, Stages, SystemOps
  <2> QED BY <2>1, <1>2, <1>3, <1>8 DEF Idle, CallSystem, Accept
<1>9. ASSUME CallSweep(s)
      PROVE  IInv'
  <2> DEFINE q == [Idle EXCEPT !.stage = "find", !.op = "sweep", !.at = now]
  <2>1. q \in Request
    BY IdleType, <1>3 DEF Request, Stages, SystemOps
  <2>2. q.stage = "find" /\ q.held = Nothing /\ q.at = now /\ q.op = "sweep"
    BY DEF Idle
  <2>3. Fresh(q)
    BY <2>1, <2>2, <1>3 DEF RowOps
  <2> QED BY <2>3, <1>2, <1>9 DEF CallSweep, Accept
<1> QED BY <1>4, <1>5, <1>6, <1>7, <1>8, <1>9 DEF Call

LEMMA ReadKeepsIInv ==
  ASSUME IInv, NEW s \in Slots, Read(s)
  PROVE  IInv'
<1> DEFINE r == req[s]
           got == [e \in EnvIds |-> IF Wanted(r, e) THEN envs[e] ELSE NoRow]
           q == [r EXCEPT !.stage = "decide", !.held = got]
<1>1. r \in Request /\ Good(r, envs, now) /\ envs \in [EnvIds -> Row]
  BY DEF IInv, TypeOK
<1>2. got \in [EnvIds -> Row]
  BY <1>1, NoRowType
<1>3. q \in Request
  BY <1>1, <1>2 DEF Request, Stages
<1>4. \A e \in EnvIds : Exists(got[e]) => got[e] = envs[e]
  BY NoRowType
<1>5. r.stage \in {"find", "list"}
  BY DEF Read
<1>6. \A e \in EnvIds : Exists(got[e]) => Wanted(r, e)
  BY NoRowType
<1> HIDE DEF got
<1>7. /\ q.stage = "decide" /\ q.held = got /\ q.op = r.op /\ q.env = r.env
      /\ q.actor = r.actor /\ q.at = r.at
  BY <1>1 DEF Request
<1>8. Fits(q)
  BY <1>1, <1>4, <1>5, <1>6, <1>7, NameAssumption DEF Fits, Good, WellStaged, Wanted
<1>9. Good(q, envs, now)
  BY <1>1, <1>4, <1>5, <1>7, <1>8 DEF Good, WellStaged, Copies, Allowed
<1> QED BY <1>3, <1>9, LocalStep DEF Read, got

(* A continuation keeps what it holds and goes on to stage st, or drops    *)
(* everything.                                                             *)
LEMMA ContinueIsGood ==
  ASSUME NEW r \in Request, NEW rows, NEW t \in Nat, Good(r, rows, t),
         NEW st \in Stages, NEW at \in Nat, at <= t, NEW to \in Statuses,
         r.stage # "idle",
         st \in {"done", "runtime", "write", "slide"},
         st \in {"runtime", "write"} => r.op \in DOMAIN Goal
           /\ \A e \in EnvIds : Exists(r.held[e]) => r.held[e].status # "DESTROYED",
         st \in {"write", "slide"} => r.env \in EnvIds /\ Exists(r.held[r.env]),
         st = "write" => to # "DESTROYED",
         r.op \in UserOps =>
           \A e \in EnvIds : Exists(r.held[e]) => rows[e].user = r.actor \/ r.actor \in Admins
  PROVE  LET q == [r EXCEPT !.stage = st, !.at = at, !.to = to]
         IN  q \in Request /\ Good(q, rows, t)
<1> DEFINE q == [r EXCEPT !.stage = st, !.at = at, !.to = to]
<1>1. q \in Request
  BY DEF Request
<1>2. /\ q.stage = st /\ q.at = at /\ q.held = r.held /\ q.op = r.op
      /\ q.env = r.env /\ q.actor = r.actor /\ q.to = to
  BY DEF Request
<1>3. Good(q, rows, t)
  BY <1>2 DEF Good, WellStaged, Copies, Allowed
<1> QED BY <1>1, <1>3

LEMMA DropIsGood ==
  ASSUME NEW r \in Request, NEW rows, NEW t \in Nat, Good(r, rows, t),
         NEW st \in Stages, st \in {"refused", "list", "insert"}, NEW at \in Nat, at <= t,
         NEW env \in EnvIds \cup {NoId}, r.op \in RowOps \cup {"timeout", "fail"} => env \in EnvIds,
         r.op = "list" => env = NoId,
         st = "list" => r.op \in {"list", "create"} /\ env = NoId,
         st = "insert" => r.op = "create"
  PROVE  LET q == [r EXCEPT !.stage = st, !.at = at, !.env = env, !.held = Nothing]
         IN  q \in Request /\ Good(q, rows, t)
<1> DEFINE q == [r EXCEPT !.stage = st, !.at = at, !.env = env, !.held = Nothing]
<1>1. q \in Request
  BY IdleType DEF Request
<1>2. q.stage = st /\ q.at = at /\ q.held = Nothing /\ q.op = r.op /\ q.env = env
  BY DEF Request
<1>3. Good(q, rows, t)
  BY <1>2, NothingIsEmpty DEF Good, WellStaged, Copies, Allowed
<1> QED BY <1>1, <1>3

LEMMA DecideKeepsIInv ==
  ASSUME IInv, NEW s \in Slots, Decide(s)
  PROVE  IInv'
<1> DEFINE r == req[s]
<1>1. r \in Request /\ Good(r, envs, now) /\ now \in Nat /\ r.at \in Nat /\ r.at <= now
      /\ r.to \in Statuses /\ r.env \in EnvIds \cup {NoId} /\ now <= now
  BY DEF IInv, TypeOK, Request, Good, WellStaged
<1>2. r.stage = "decide"
  BY DEF Decide, DecideUnowned, DecideGet, DecideList, DecideReplay, DecideCreate, DecideStart,
         DecideTouch, DecideReset, DecideStop, DecideDestroy, DecideTimeout, DecideFail,
         DecideSweep, Deciding
<1> DEFINE Mine == r.op \in UserOps =>
             \A e \in EnvIds : Exists(r.held[e]) => envs[e].user = r.actor \/ r.actor \in Admins
           Alive == \A e \in EnvIds : Exists(r.held[e]) => r.held[e].status # "DESTROYED"
(* The three ways a continuation ends.                                     *)
<1>3. ASSUME Refuse(s) PROVE IInv'
  <2>1. LET q == [r EXCEPT !.stage = "refused", !.at = r.at, !.env = r.env, !.held = Nothing]
        IN  q \in Request /\ Good(q, envs, now)
    <3>1. /\ r.op \in RowOps \cup {"timeout", "fail"} => r.env \in EnvIds
          /\ r.op = "list" => r.env = NoId
      BY <1>1, <1>2 DEF Good, WellStaged
    <3>2. "refused" \in Stages
      BY DEF Stages
    <3> QED BY <1>1, <3>1, <3>2, DropIsGood
  <2>2. [r EXCEPT !.stage = "refused", !.at = r.at, !.env = r.env, !.held = Nothing]
          = [r EXCEPT !.stage = "refused", !.held = Nothing]
    BY <1>1 DEF Request
  <2> QED BY <2>1, <2>2, <1>3, LocalStep DEF Refuse
<1>4. ASSUME Resume(s, "done"), Mine PROVE IInv'
  <2>1. LET q == [r EXCEPT !.stage = "done", !.at = r.at, !.to = r.to]
        IN  q \in Request /\ Good(q, envs, now)
    <3>1. "done" \in Stages /\ r.stage # "idle"
      BY <1>2 DEF Stages
    <3> QED BY <1>1, <1>4, <3>1, ContinueIsGood
  <2>2. [r EXCEPT !.stage = "done", !.at = r.at, !.to = r.to] = [r EXCEPT !.stage = "done"]
    BY <1>1 DEF Request
  <2> QED BY <2>1, <2>2, <1>4, LocalStep DEF Resume
<1>5. ASSUME Resume(s, "runtime"), Mine, Alive, r.op \in DOMAIN Goal PROVE IInv'
  <2>1. LET q == [r EXCEPT !.stage = "runtime", !.at = r.at, !.to = r.to]
        IN  q \in Request /\ Good(q, envs, now)
    <3>1. "runtime" \in Stages /\ r.stage # "idle"
      BY <1>2 DEF Stages
    <3> QED BY <1>1, <1>5, <3>1, ContinueIsGood
  <2>2. [r EXCEPT !.stage = "runtime", !.at = r.at, !.to = r.to] = [r EXCEPT !.stage = "runtime"]
    BY <1>1 DEF Request
  <2> QED BY <2>1, <2>2, <1>5, LocalStep DEF Resume
<1>6. ASSUME NEW to \in Statuses, to # "DESTROYED", Ask(s, to), Mine, Alive, r.op \in DOMAIN Goal,
             r.env \in EnvIds, Exists(r.held[r.env])
      PROVE  IInv'
  <2>1. LET q == [r EXCEPT !.stage = "write", !.at = r.at, !.to = to]
        IN  q \in Request /\ Good(q, envs, now)
    BY <1>1, <1>2, <1>6, ContinueIsGood DEF Stages
  <2>2. [r EXCEPT !.stage = "write", !.at = r.at, !.to = to] = [r EXCEPT !.stage = "write", !.to = to]
    BY <1>1 DEF Request
  <2> QED BY <2>1, <2>2, <1>6, LocalStep DEF Ask
(* Who is past the ownership check holds rows of its own.                  *)
<1>7. Owned(s) /\ r.op \in RowOps => Mine /\ r.env \in EnvIds /\ Exists(r.held[r.env])
  <2> SUFFICES ASSUME Owned(s), r.op \in RowOps
               PROVE  Mine /\ r.env \in EnvIds /\ Exists(r.held[r.env])
    OBVIOUS
  <2>1. r.env \in EnvIds /\ Exists(r.held[r.env])
        /\ (r.held[r.env].user = r.actor \/ r.actor \in Admins)
    BY <1>1 DEF Owned, Loaded
  <2>2. \A e \in EnvIds : Exists(r.held[e]) => e = r.env
    BY <1>1, <1>2, <2>1 DEF Good, WellStaged, Fits, RowOps
  <2> QED BY <1>1, <2>1, <2>2 DEF Good, Copies
<1>8. r.op \in RowOps \cup {"timeout", "fail"} /\ Loaded(s).status # "DESTROYED"
        => Alive /\ r.env \in EnvIds
  BY <1>1, <1>2 DEF Loaded, Good, WellStaged, Fits, RowOps
<1>9. r.op \in {"timeout", "fail", "sweep"} => Mine
  BY DEF UserOps, RowOps
<1>10. {"start", "reset", "stop", "destroy", "timeout", "fail", "sweep"} = DOMAIN Goal
  BY DEF Goal
<1>11. CASE DecideUnowned(s)
  BY <1>11, <1>3 DEF DecideUnowned
<1>12. CASE DecideGet(s)
  BY <1>12, <1>4, <1>7 DEF DecideGet, Deciding, RowOps
<1>13. CASE DecideList(s)
  <2>1. r.op = "list" /\ Resume(s, "done")
    BY <1>13 DEF DecideList, Deciding
  <2>2. Mine
    BY <2>1, <1>1, <1>2 DEF Good, WellStaged, Fits, Copies
  <2> QED BY <2>1, <2>2, <1>4
<1>14. CASE DecideReplay(s)
  <2>1. r.op = "create" /\ r.env # NoId
    BY <1>14 DEF DecideReplay, Deciding
  <2>2. CASE Exists(Loaded(s)) /\ Loaded(s).user = r.actor /\ Resume(s, "done")
    <3>1. Mine
      BY <2>1, <2>2, <1>1, <1>2 DEF Good, WellStaged, Fits, Copies, Loaded
    <3> QED BY <3>1, <2>2, <1>4
  <2>3. CASE Become(s, [r EXCEPT !.stage = "list", !.env = NoId, !.held = Nothing])
             /\ UNCHANGED <<envs, idem, now>>
    <3>1. LET q == [r EXCEPT !.stage = "list", !.at = r.at, !.env = NoId, !.held = Nothing]
          IN  q \in Request /\ Good(q, envs, now)
      <4>1. r.op \notin RowOps \cup {"timeout", "fail"} /\ "list" \in Stages
        BY <2>1 DEF RowOps, Stages
      <4> QED BY <1>1, <2>1, <4>1, DropIsGood
    <3>2. [r EXCEPT !.stage = "list", !.at = r.at, !.env = NoId, !.held = Nothing]
            = [r EXCEPT !.stage = "list", !.env = NoId, !.held = Nothing]
      BY <1>1 DEF Request
    <3> QED BY <3>1, <3>2, <2>3, LocalStep
  <2> QED BY <2>2, <2>3, <1>14 DEF DecideReplay, Replayable
<1>15. CASE DecideCreate(s)
  <2>1. r.op = "create" /\ r.env = NoId
    BY <1>15 DEF DecideCreate, Deciding
  <2>2. CASE Become(s, [r EXCEPT !.stage = "insert", !.at = now, !.held = Nothing])
             /\ UNCHANGED <<envs, idem, now>>
    <3>1. LET q == [r EXCEPT !.stage = "insert", !.at = now, !.env = r.env, !.held = Nothing]
          IN  q \in Request /\ Good(q, envs, now)
      <4>1. r.op \notin RowOps \cup {"timeout", "fail"} /\ "insert" \in Stages
        BY <2>1 DEF RowOps, Stages
      <4> QED BY <1>1, <2>1, <4>1, DropIsGood
    <3>2. [r EXCEPT !.stage = "insert", !.at = now, !.env = r.env, !.held = Nothing]
            = [r EXCEPT !.stage = "insert", !.at = now, !.held = Nothing]
      BY <1>1 DEF Request
    <3> QED BY <3>1, <3>2, <2>2, LocalStep
  <2> QED BY <2>2, <1>3, <1>15 DEF DecideCreate
<1>16. CASE DecideStart(s)
  <2>1. r.op = "start" /\ Mine /\ r.env \in EnvIds /\ Exists(r.held[r.env])
    BY <1>16, <1>7 DEF DecideStart, Deciding, RowOps
  <2> QED BY <2>1, <1>3, <1>4, <1>5, <1>6, <1>8, <1>10, <1>16, StatusNames
          DEF DecideStart, RowOps
<1>17. CASE DecideTouch(s)
  <2>1. r.op = "touch" /\ Mine /\ r.env \in EnvIds /\ Exists(r.held[r.env])
    BY <1>17, <1>7 DEF DecideTouch, Deciding, RowOps
  <2>2. CASE Become(s, [r EXCEPT !.stage = "slide", !.at = now]) /\ UNCHANGED <<envs, idem, now>>
    <3>1. LET q == [r EXCEPT !.stage = "slide", !.at = now, !.to = r.to]
          IN  q \in Request /\ Good(q, envs, now)
      BY <1>1, <1>2, <2>1, ContinueIsGood DEF Stages
    <3>2. [r EXCEPT !.stage = "slide", !.at = now, !.to = r.to]
            = [r EXCEPT !.stage = "slide", !.at = now]
      BY <1>1 DEF Request
    <3> QED BY <3>1, <3>2, <2>2, LocalStep
  <2> QED BY <2>2, <1>3, <1>17 DEF DecideTouch
<1>18. CASE DecideReset(s)
  <2>1. r.op = "reset" /\ Mine /\ r.env \in EnvIds /\ Exists(r.held[r.env])
    BY <1>18, <1>7 DEF DecideReset, Deciding, RowOps
  <2> QED BY <2>1, <1>3, <1>6, <1>8, <1>10, <1>18, StatusNames DEF DecideReset, RowOps
<1>19. CASE DecideStop(s)
  <2>1. r.op = "stop" /\ Mine /\ r.env \in EnvIds
    BY <1>19, <1>7 DEF DecideStop, Deciding, RowOps
  <2> QED BY <2>1, <1>3, <1>4, <1>5, <1>8, <1>10, <1>19 DEF DecideStop, RowOps
<1>20. CASE DecideDestroy(s)
  <2>1. r.op = "destroy" /\ Mine /\ r.env \in EnvIds /\ Exists(r.held[r.env])
    BY <1>20, <1>7 DEF DecideDestroy, Deciding, RowOps
  <2> QED BY <2>1, <1>4, <1>5, <1>6, <1>8, <1>10, <1>20, StatusNames DEF DecideDestroy, RowOps
<1>21. CASE DecideTimeout(s)
  <2>1. r.op = "timeout" /\ Mine
    BY <1>21, <1>9 DEF DecideTimeout, Deciding
  <2> QED BY <2>1, <1>4, <1>5, <1>8, <1>10, <1>21, StatusNames DEF DecideTimeout
<1>22. CASE DecideFail(s)
  <2>1. r.op = "fail" /\ Mine
    BY <1>22, <1>9 DEF DecideFail, Deciding
  <2> QED BY <2>1, <1>4, <1>6, <1>8, <1>10, <1>22, StatusNames DEF DecideFail, Loaded
<1>23. CASE DecideSweep(s)
  <2>1. r.op = "sweep" /\ Mine
    BY <1>23, <1>9 DEF DecideSweep, Deciding
  <2>2. Alive
    BY <2>1, <1>1, <1>2, StatusNames DEF Good, WellStaged, Fits
  <2> QED BY <2>1, <2>2, <1>4, <1>5, <1>10, <1>23 DEF DecideSweep
<1> QED BY <1>11, <1>12, <1>13, <1>14, <1>15, <1>16, <1>17, <1>18, <1>19, <1>20, <1>21,
           <1>22, <1>23 DEF Decide

LEMMA RuntimeReturnsKeepsIInv ==
  ASSUME IInv, NEW s \in Slots, NEW e \in EnvIds, RuntimeReturns(s, e)
  PROVE  IInv'
<1> DEFINE r == req[s]
           to == IF r.op = "start" /\ r.held[e].status = "PROVISIONING" THEN "READY"
                 ELSE Goal[r.op]
           at == IF r.op = "sweep" THEN r.at ELSE now
           q == [r EXCEPT !.stage = "write", !.env = e, !.to = to, !.at = at]
<1>1. /\ r \in Request /\ Good(r, envs, now) /\ now \in Nat
      /\ r.stage = "runtime" /\ Exists(r.held[e]) /\ at \in Nat /\ at <= now
  BY DEF IInv, TypeOK, RuntimeReturns, Request, Good, WellStaged
<1>2. r.op \in DOMAIN Goal /\ to \in Statuses /\ (to = "DESTROYED" => r.op = "destroy")
  BY <1>1, StatusNames DEF Good, WellStaged, Goal
<1> HIDE DEF to, at
<1>3. q \in Request
  BY <1>1, <1>2 DEF Request, Stages
<1>4. /\ q.stage = "write" /\ q.env = e /\ q.at = at /\ q.op = r.op
      /\ q.held = r.held /\ q.actor = r.actor /\ q.to = to
  BY <1>1 DEF Request
<1>5. Good(q, envs, now)
  BY <1>1, <1>2, <1>4 DEF Good, WellStaged, Copies, Allowed, Goal
<1>6. Become(s, q) /\ UNCHANGED <<envs, idem, now>>
  BY DEF RuntimeReturns, to, at
<1> QED BY <1>3, <1>5, <1>6, LocalStep

(* The update behind transition(): the row keeps its identity and window.  *)
LEMMA TransitionKeepsIInv ==
  ASSUME IInv, NEW s \in Slots, Transition(s)
  PROVE  IInv'
<1> DEFINE r == req[s]
           id == r.env
           row == Patched(envs[id], r.op, r.to, r.at, r.held[id].createdAt)
           rest == Rest(r)
           st == IF r.to = Goal[r.op] /\ (r.op = "sweep" => rest = Nothing) THEN "done" ELSE "runtime"
           at == IF r.op = "sweep" THEN r.at ELSE 0
           held == IF r.op = "sweep" THEN rest ELSE [r.held EXCEPT ![id] = row]
           q == [r EXCEPT !.stage = st, !.at = at, !.held = held]
<1>1. /\ r \in Request /\ Good(r, envs, now) /\ now \in Nat /\ envs \in [EnvIds -> Row]
      /\ r.stage = "write" /\ r.to \in Statuses /\ r.at \in Nat /\ r.held \in [EnvIds -> Row]
      /\ \A e \in EnvIds : InWindow(envs[e])
  BY DEF IInv, TypeOK, Transition, Request
<1>2. /\ id \in EnvIds /\ Exists(r.held[id]) /\ Exists(envs[id])
      /\ r.held[id].createdAt = envs[id].createdAt /\ r.held[id].user = envs[id].user
      /\ r.op \in DOMAIN Goal /\ r.at <= now
      /\ \A e \in EnvIds : Exists(r.held[e]) => r.held[e].status # "DESTROYED"
  BY <1>1 DEF Good, WellStaged, Copies
<1>3. /\ row \in Row /\ Exists(row) /\ InWindow(row)
      /\ row.user = envs[id].user /\ row.createdAt = envs[id].createdAt /\ row.status = r.to
  <2>1. row = Patched(envs[id], r.op, r.to, r.at, envs[id].createdAt)
    BY <1>2
  <2>2. envs[id] \in Row /\ InWindow(envs[id])
    BY <1>1, <1>2
  <2>3. Exists(envs[id]) /\ r.to \in Statuses /\ r.at \in Nat
    BY <1>1, <1>2
  <2>4. PICK old \in Row, to \in Statuses, time \in Nat : old = envs[id] /\ to = r.to /\ time = r.at
    BY <2>2, <2>3
  <2>5. PICK op : op = r.op
    OBVIOUS
  <2>6. Exists(old) /\ InWindow(old)
    BY <2>2, <2>3, <2>4
  <2>7. PICK new : new = Patched(old, op, to, time, old.createdAt)
    OBVIOUS
  <2>8. /\ new \in Row /\ Exists(new) /\ InWindow(new)
        /\ new.user = old.user /\ new.createdAt = old.createdAt /\ new.status = to
    BY <2>6, <2>7, PatchedRow
  <2>9. row = new
    BY <2>1, <2>4, <2>5, <2>7
  <2> HIDE DEF row
  <2> QED BY <2>4, <2>8, <2>9
<1>4. envs' = [envs EXCEPT ![id] = row] /\ Become(s, q) /\ idem' = idem /\ now' = now
  BY DEF Transition, Rest
<1> HIDE DEF row
<1>5. /\ envs' \in [EnvIds -> Row] /\ KeepsIdentity(envs, envs')
      /\ \A e \in EnvIds : InWindow(envs'[e])
  BY <1>1, <1>2, <1>3, <1>4 DEF KeepsIdentity
<1>6. held \in [EnvIds -> Row] /\ at \in Nat /\ at <= now
  BY <1>1, <1>2, <1>3, NoRowType DEF Rest
<1>7. /\ \A e \in EnvIds \ {id} : held[e] = r.held[e] /\ envs'[e] = envs[e]
      /\ envs'[id] = row
      /\ held[id] = IF r.op = "sweep" THEN NoRow ELSE row
  BY <1>1, <1>2, <1>4 DEF Rest
<1>8. st \in {"done", "runtime"}
      /\ (st = "runtime" /\ r.op # "sweep" => r.to # "DESTROYED")
  <2>1. ASSUME r.op # "sweep", r.to = "DESTROYED" PROVE st = "done"
    (* Only a destroy ever asks for DESTROYED, and it is what it ends with. *)
    <3>1. r.op = "destroy"
      BY <2>1, <1>1 DEF Good, WellStaged
    <3> QED BY <3>1, <2>1 DEF Goal
  <2> QED BY <2>1
<1> HIDE DEF st, at, held
<1>9. q \in Request
  BY <1>1, <1>6, <1>8 DEF Request, Stages
<1>10. q.stage = st /\ q.at = at /\ q.held = held /\ q.op = r.op /\ q.env = id /\ q.actor = r.actor
  <2>1. r \in Request
    BY <1>1
  <2> QED BY <2>1 DEF Request
<1>11. WellStaged(q, now)
  BY <1>1, <1>2, <1>3, <1>6, <1>7, <1>8, <1>10, NoRowType DEF Good, WellStaged
<1>12. Copies(q, envs') /\ Allowed(q, envs')
  BY <1>1, <1>2, <1>3, <1>7, <1>10, NoRowType DEF Good, Copies, Allowed
<1> QED BY <1>4, <1>5, <1>9, <1>11, <1>12, SlotStep DEF Good, IInv, TypeOK

LEMMA IllegalTransitionKeepsIInv ==
  ASSUME IInv, NEW s \in Slots, IllegalTransition(s)
  PROVE  IInv'
<1> DEFINE r == req[s]
           q == [r EXCEPT !.stage = "illegal"]
<1>1. r \in Request /\ Good(r, envs, now) /\ r.stage = "write"
  BY DEF IInv, TypeOK, IllegalTransition
<1>2. q \in Request
  BY <1>1 DEF Request, Stages
<1>3. /\ q.stage = "illegal" /\ q.at = r.at /\ q.op = r.op /\ q.env = r.env
      /\ q.held = r.held /\ q.actor = r.actor
  BY <1>1 DEF Request
<1>4. Good(q, envs, now)
  BY <1>1, <1>3 DEF Good, WellStaged, Copies, Allowed
<1> QED BY <1>2, <1>4, LocalStep DEF IllegalTransition

(* The update of a touch slides the window of the row it finds by id.      *)
LEMMA SlideKeepsIInv ==
  ASSUME IInv, NEW s \in Slots, Slide(s)
  PROVE  IInv'
<1> DEFINE r == req[s]
           id == r.env
           row == Slid(envs[id], r.at, r.held[id].createdAt)
           held == [r.held EXCEPT ![id] = row]
           q == [r EXCEPT !.stage = "done", !.at = 0, !.held = held]
<1>1. /\ r \in Request /\ Good(r, envs, now) /\ now \in Nat /\ envs \in [EnvIds -> Row]
      /\ r.stage = "slide" /\ r.at \in Nat /\ r.held \in [EnvIds -> Row]
      /\ \A e \in EnvIds : InWindow(envs[e])
  BY DEF IInv, TypeOK, Slide, Request
<1>2. /\ id \in EnvIds /\ Exists(envs[id]) /\ envs[id] \in Row
      /\ r.held[id].createdAt = envs[id].createdAt
      /\ r.op \in RowOps \cup {"timeout", "fail"} => id \in EnvIds
  BY <1>1 DEF Good, WellStaged, Copies
<1>3. CappedExpiry(r.at, r.held[id].createdAt) \in Nat
  BY <1>1, <1>2, CappedExpiryType DEF Row
<1>4. /\ row \in Row /\ Exists(row) /\ InWindow(row)
      /\ row.user = envs[id].user /\ row.createdAt = envs[id].createdAt
  BY <1>1, <1>2, <1>3 DEF Slid, Row, Exists, InWindow
<1>5. envs' = [envs EXCEPT ![id] = row] /\ Become(s, q) /\ idem' = idem /\ now' = now
  BY DEF Slide
<1> HIDE DEF row
<1>6. /\ envs' \in [EnvIds -> Row] /\ KeepsIdentity(envs, envs')
      /\ \A e \in EnvIds : InWindow(envs'[e])
  BY <1>1, <1>2, <1>4, <1>5 DEF KeepsIdentity
<1>7. held \in [EnvIds -> Row]
  BY <1>1, <1>2, <1>4
<1>8. \A e \in EnvIds :
        \/ held[e] = r.held[e] /\ envs'[e] = envs[e]
        \/ e = id /\ held[e] = row /\ envs'[e] = row
  BY <1>1, <1>2, <1>5
<1> HIDE DEF held
<1>9. q \in Request
  BY <1>1, <1>7 DEF Request, Stages
<1>10. q.stage = "done" /\ q.at = 0 /\ q.held = held /\ q.op = r.op /\ q.env = id /\ q.actor = r.actor
  BY <1>1 DEF Request
<1>11. WellStaged(q, now)
  BY <1>1, <1>2, <1>10 DEF Good, WellStaged
<1>12. Copies(q, envs')
  BY <1>1, <1>2, <1>4, <1>8, <1>10 DEF Good, Copies
<1>13. Allowed(q, envs')
  <2>1. r.op \in UserOps => envs[id].user = r.actor \/ r.actor \in Admins
    BY <1>1, <1>2 DEF Good, Allowed, WellStaged
  <2> QED BY <1>1, <1>2, <1>4, <1>8, <1>10, <2>1 DEF Good, Allowed
<1> QED BY <1>5, <1>6, <1>9, <1>11, <1>12, <1>13, SlotStep DEF Good, IInv, TypeOK

LEMMA InsertKeepsIInv ==
  ASSUME IInv, NEW s \in Slots, NEW e \in EnvIds, Insert(s, e)
  PROVE  IInv'
<1> DEFINE r == req[s]
           row == [status |-> "REQUESTED", user |-> r.actor, createdAt |-> now,
                   lastActivityAt |-> r.at, expiresAt |-> CappedExpiry(r.at, r.at),
                   started |-> FALSE, destroyed |-> FALSE, mintedWith |-> r.key]
           held == [Nothing EXCEPT ![e] = row]
           q == [r EXCEPT !.stage = "minted", !.at = 0, !.env = e, !.held = held]
<1>1. /\ r \in Request /\ Good(r, envs, now) /\ now \in Nat /\ envs \in [EnvIds -> Row]
      /\ r.stage = "insert" /\ r.at \in Nat /\ r.at <= now /\ r.actor \in Users \cup {System}
      /\ r.key \in Keys \cup {NoKey} /\ ~Exists(envs[e])
      /\ \A f \in EnvIds : InWindow(envs[f])
  BY DEF IInv, TypeOK, Insert, Request, Good, WellStaged
<1>2. CappedExpiry(r.at, r.at) \in Nat /\ CappedExpiry(r.at, r.at) = CappedExpiry(r.at, now)
  BY <1>1, CappedExpiryType, NewRowInWindow
<1>3. row \in Row /\ Exists(row) /\ InWindow(row) /\ row.user = r.actor
  BY <1>1, <1>2, StatusNames DEF Row, Exists, InWindow
<1>4. envs' = [envs EXCEPT ![e] = row] /\ Become(s, q) /\ idem' = idem /\ now' = now
  BY DEF Insert
<1> HIDE DEF row
<1>5. /\ envs' \in [EnvIds -> Row] /\ KeepsIdentity(envs, envs')
      /\ \A f \in EnvIds : InWindow(envs'[f])
  BY <1>1, <1>3, <1>4 DEF KeepsIdentity
<1>6. held \in [EnvIds -> Row]
  BY <1>3, IdleType
<1>7. \A f \in EnvIds : Exists(held[f]) => f = e /\ held[f] = row /\ envs'[f] = row
  BY <1>1, <1>4, NothingIsEmpty, IdleType
<1> HIDE DEF held
<1>8. q \in Request
  BY <1>1, <1>6 DEF Request, Stages
<1>9. q.stage = "minted" /\ q.at = 0 /\ q.held = held /\ q.op = r.op /\ q.env = e /\ q.actor = r.actor
  BY <1>1 DEF Request
<1>10. r.op = "create"
  BY <1>1 DEF Good, WellStaged
<1>11. WellStaged(q, now)
  BY <1>1, <1>9, <1>10 DEF WellStaged, RowOps
<1>12. Copies(q, envs') /\ Allowed(q, envs')
  BY <1>3, <1>7, <1>9 DEF Copies, Allowed
<1> QED BY <1>4, <1>5, <1>8, <1>11, <1>12, SlotStep DEF Good, IInv, TypeOK

LEMMA MintedKeepsIInv ==
  ASSUME IInv, NEW s \in Slots, Minted(s)
  PROVE  IInv'
<1> DEFINE r == req[s]
           q == [r EXCEPT !.stage = "done"]
<1>1. /\ r \in Request /\ Good(r, envs, now) /\ r.stage = "minted"
      /\ r.env \in EnvIds \cup {NoId} /\ now \in Nat
  BY DEF IInv, TypeOK, Minted, Request
<1>2. q \in Request
  BY <1>1 DEF Request, Stages
<1>3. /\ q.stage = "done" /\ q.at = r.at /\ q.op = r.op /\ q.env = r.env
      /\ q.held = r.held /\ q.actor = r.actor
  BY <1>1 DEF Request
<1>4. Good(q, envs, now)
  BY <1>1, <1>3 DEF Good, WellStaged, Copies, Allowed
<1>5. idem' \in [Users -> [Keys -> IdemEntry]]
  <2>1. [id |-> r.env, expiresAt |-> now + IdemTtl] \in IdemEntry
    BY <1>1, PolicyAssumption DEF IdemEntry
  <2> QED BY <2>1 DEF IInv, TypeOK, Minted
<1> QED BY <1>2, <1>4, <1>5, SlotStep DEF Minted, IInv, TypeOK, KeepsIdentity

LEMMA EndKeepsIInv ==
  ASSUME IInv, NEW s \in Slots, Reply(s) \/ Abort(s)
  PROVE  IInv'
<1>1. Become(s, Idle) /\ UNCHANGED <<envs, idem, now>>
  BY DEF Reply, Abort
<1> QED BY <1>1, IdleType, IdleIsGood, LocalStep DEF IInv, TypeOK

LEMMA RestartKeepsIInv == IInv /\ Restart => IInv'
BY IdleType, IdleIsGood DEF Restart, IInv, TypeOK, NoEntries, NoEntry, IdemEntry

LEMMA TickKeepsIInv == IInv /\ Tick => IInv'
<1> SUFFICES ASSUME IInv, Tick PROVE IInv'
  OBVIOUS
<1>1. now' \in Nat /\ now <= now' /\ envs' = envs /\ req' = req /\ idem' = idem
  BY DEF Tick, IInv, TypeOK
<1>2. ASSUME NEW s \in Slots PROVE Good(req[s], envs, now')
  <2>1. Good(req[s], envs, now) /\ req[s].at \in Nat /\ now \in Nat
    BY DEF IInv, TypeOK, Request
  <2> QED BY <1>1, <2>1 DEF Good, WellStaged
<1> QED BY <1>1, <1>2 DEF IInv, TypeOK

LEMMA NextKeepsIInv == IInv /\ [Next]_vars => IInv'
<1> SUFFICES ASSUME IInv, [Next]_vars PROVE IInv'
  OBVIOUS
<1>1. ASSUME NEW s \in Slots, Call(s) \/ Progress(s) \/ Abort(s) PROVE IInv'
  BY <1>1, CallKeepsIInv, ReadKeepsIInv, DecideKeepsIInv, RuntimeReturnsKeepsIInv,
     TransitionKeepsIInv, IllegalTransitionKeepsIInv, SlideKeepsIInv, InsertKeepsIInv,
     MintedKeepsIInv, EndKeepsIInv DEF Progress
<1>2. ASSUME UNCHANGED vars PROVE IInv'
  BY <1>2 DEF vars, IInv, TypeOK
<1> QED BY <1>1, <1>2, RestartKeepsIInv, TickKeepsIInv DEF Next

-----------------------------------------------------------------------------
(* The theorems.                                                           *)

(* IInv holds of every behaviour of the service.                           *)
THEOREM Invariance == Spec => []IInv
BY InitIInv, NextKeepsIInv, PTL DEF Spec

(* The table, the idempotency map and the requests have their types.       *)
THEOREM TypeCorrect == Spec => []TypeOK
<1>1. IInv => TypeOK
  BY DEF IInv
<1> QED BY <1>1, Invariance, PTL

(* No interleaving of creations, activations, resets and touches gives a   *)
(* row an expiry other than its idle window clamped to its lifetime.       *)
THEOREM WindowCorrect == Spec => []SlidingWindow
<1>1. IInv => SlidingWindow
  BY DEF IInv, SlidingWindow, InWindow
<1> QED BY <1>1, Invariance, PTL

(* No request of a user gets past loadOwned with a row of somebody else.   *)
THEOREM IsolationHolds == Spec => []Isolation
<1>1. IInv => Isolation
  BY DEF IInv, Good, Allowed, Isolation
<1> QED BY <1>1, Invariance, PTL

-----------------------------------------------------------------------------
(* DESTROYED is final once the requests that read it earlier are over.     *)

(* A continuation changes no row and keeps its copies or drops them.       *)
LEMMA DecideShape ==
  ASSUME TypeOK, NEW s \in Slots, Decide(s)
  PROVE  /\ UNCHANGED <<envs, idem, now>>
         /\ req[s].stage = "decide"
         /\ \A t \in Slots \ {s} : req'[t] = req[t]
         /\ req'[s].held = req[s].held \/ req'[s].held = Nothing
<1>1. req \in [Slots -> Request] /\ req[s] \in Request
  BY DEF TypeOK
<1> DEFINE Shape == /\ UNCHANGED <<envs, idem, now>>
                    /\ \A t \in Slots \ {s} : req'[t] = req[t]
                    /\ req'[s].held = req[s].held \/ req'[s].held = Nothing
<1>2. ASSUME NEW st, Resume(s, st) PROVE Shape
  BY <1>1, <1>2 DEF Resume, Become, Request
<1>3. ASSUME Refuse(s) PROVE Shape
  BY <1>1, <1>3 DEF Refuse, Become, Request
<1>4. ASSUME NEW to, Ask(s, to) PROVE Shape
  BY <1>1, <1>4 DEF Ask, Become, Request
<1>5. ASSUME DecideReplay(s) PROVE Shape
  BY <1>1, <1>2, <1>5 DEF DecideReplay, Become, Request
<1>6. ASSUME DecideCreate(s) PROVE Shape
  BY <1>1, <1>3, <1>6 DEF DecideCreate, Become, Request
<1>7. ASSUME DecideTouch(s) PROVE Shape
  BY <1>1, <1>3, <1>7 DEF DecideTouch, Become, Request
<1> HIDE DEF Shape
<1>8. Shape
  BY <1>2, <1>3, <1>4, <1>5, <1>6, <1>7
  DEF Decide, DecideUnowned, DecideGet, DecideList, DecideStart, DecideReset, DecideStop,
      DecideDestroy, DecideTimeout, DecideFail, DecideSweep
<1>9. req[s].stage = "decide"
  BY DEF Decide, DecideUnowned, DecideGet, DecideList, DecideReplay, DecideCreate, DecideStart,
         DecideTouch, DecideReset, DecideStop, DecideDestroy, DecideTimeout, DecideFail,
         DecideSweep, Deciding
<1> QED BY <1>8, <1>9 DEF Shape

(* A call that has just arrived has read nothing.                          *)
LEMMA CallShape ==
  ASSUME TypeOK, NEW s \in Slots, Call(s)
  PROVE  /\ UNCHANGED <<envs, now>>
         /\ \A t \in Slots \ {s} : req'[t] = req[t]
         /\ req'[s].held = Nothing
<1> DEFINE Shape == /\ UNCHANGED <<envs, now>>
                    /\ \A t \in Slots \ {s} : req'[t] = req[t]
                    /\ req'[s].held = Nothing
<1>1. ASSUME NEW q, q.held = Nothing, Accept(s, q), UNCHANGED <<envs, now>> PROVE Shape
  BY <1>1 DEF Accept, Become, TypeOK
<1> HIDE DEF Shape
<1>2. ASSUME NEW u, NEW k, ReplayCreate(s, u, k) PROVE Shape
  BY <1>1, <1>2 DEF ReplayCreate, Idle
<1>3. ASSUME NEW u, NEW k, NEW v, FreshCreate(s, u, k, v) PROVE Shape
  <2> DEFINE q == [Idle EXCEPT !.stage = IF v THEN "list" ELSE "refused",
                               !.op = "create", !.actor = u, !.key = k]
  <2>1. q.held = Nothing
    BY DEF Idle
  <2>2. Accept(s, q) /\ UNCHANGED <<envs, now>>
    BY <1>3 DEF FreshCreate
  <2> HIDE DEF q
  <2> QED BY <2>1, <2>2, <1>1
<1>4. ASSUME NEW u, NEW op, NEW e, CallRow(s, u, op, e) PROVE Shape
  BY <1>1, <1>4 DEF CallRow, Idle
<1>5. ASSUME NEW u, CallList(s, u) PROVE Shape
  BY <1>1, <1>5 DEF CallList, Idle
<1>6. ASSUME NEW op, NEW e, CallSystem(s, op, e) PROVE Shape
  BY <1>1, <1>6 DEF CallSystem, Idle
<1>7. ASSUME CallSweep(s) PROVE Shape
  BY <1>1, <1>7 DEF CallSweep, Idle
<1>8. Shape
  BY <1>2, <1>3, <1>4, <1>5, <1>6, <1>7 DEF Call
<1> QED BY <1>8 DEF Shape

(* The copy of row e in r, if it can still be written back, is DESTROYED.  *)
Past(r, e) ==
  r.stage \in {"decide", "runtime", "write"} /\ Exists(r.held[e]) => r.held[e].status = "DESTROYED"

LEMMA SettledStep ==
  ASSUME IInv, NEW e \in EnvIds, Settled(e), [Next]_vars
  PROVE  Settled(e)'
<1>1. /\ TypeOK /\ req \in [Slots -> Request] /\ envs \in [EnvIds -> Row]
      /\ envs[e].status = "DESTROYED" /\ \A t \in Slots : Past(req[t], e)
  BY DEF IInv, TypeOK, Settled, Past
<1>2. SUFFICES envs'[e].status = "DESTROYED" /\ \A t \in Slots : Past(req'[t], e)
  BY DEF Settled, Past
<1>3. ASSUME NEW s \in Slots, Call(s) \/ Decide(s) \/ Reply(s) \/ Abort(s)
      PROVE  envs'[e].status = "DESTROYED" /\ \A t \in Slots : Past(req'[t], e)
  <2>1. /\ envs' = envs /\ \A t \in Slots \ {s} : req'[t] = req[t]
        /\ req'[s].held = Nothing \/ (req'[s].held = req[s].held /\ req[s].stage = "decide")
    BY <1>1, <1>3, CallShape, DecideShape DEF Reply, Abort, Become, Idle
  <2>2. Past(req'[s], e)
    BY <1>1, <2>1, NothingIsEmpty DEF Past
  <2> QED BY <1>1, <2>1, <2>2
<1>4. ASSUME NEW s \in Slots, Read(s)
      PROVE  envs'[e].status = "DESTROYED" /\ \A t \in Slots : Past(req'[t], e)
  <2>1. /\ envs' = envs /\ \A t \in Slots \ {s} : req'[t] = req[t]
        /\ req'[s].held[e] = envs[e] \/ req'[s].held[e] = NoRow
    BY <1>1, <1>4 DEF Read, Become, Request
  <2> QED BY <1>1, <2>1, NoRowType DEF Past
<1>5. ASSUME NEW s \in Slots, NEW f \in EnvIds, RuntimeReturns(s, f)
      PROVE  envs'[e].status = "DESTROYED" /\ \A t \in Slots : Past(req'[t], e)
  <2>1. /\ envs' = envs /\ \A t \in Slots \ {s} : req'[t] = req[t]
        /\ req'[s].held = req[s].held /\ req[s].stage = "runtime"
    BY <1>1, <1>5 DEF RuntimeReturns, Become, Request
  <2> QED BY <1>1, <2>1 DEF Past
<1>6. ASSUME NEW s \in Slots, Transition(s)
      PROVE  envs'[e].status = "DESTROYED" /\ \A t \in Slots : Past(req'[t], e)
  <2> DEFINE r == req[s]
  <2>1. r \in Request /\ r.stage = "write" /\ WellStaged(r, now)
    BY <1>1, <1>6 DEF Transition, IInv, Good
  <2>2. r.env \in EnvIds /\ r.env # e
    BY <1>1, <2>1 DEF WellStaged, Past
  <2>3. /\ envs'[e] = envs[e] /\ \A t \in Slots \ {s} : req'[t] = req[t]
        /\ req'[s].held[e] = r.held[e]
    BY <1>1, <1>6, <2>1, <2>2 DEF Transition, Rest, Become, Request
  <2> QED BY <1>1, <2>1, <2>3 DEF Past
<1>7. ASSUME NEW s \in Slots, Slide(s)
      PROVE  envs'[e].status = "DESTROYED" /\ \A t \in Slots : Past(req'[t], e)
  <2>1. /\ envs'[e].status = envs[e].status /\ \A t \in Slots \ {s} : req'[t] = req[t]
        /\ req'[s].stage = "done"
    BY <1>1, <1>7 DEF Slide, Slid, Become, Request, Row
  <2> QED BY <1>1, <2>1 DEF Past
<1>8. ASSUME NEW s \in Slots, NEW f \in EnvIds, Insert(s, f)
      PROVE  envs'[e].status = "DESTROYED" /\ \A t \in Slots : Past(req'[t], e)
  <2>1. f # e
    BY <1>1, <1>8 DEF Insert, Exists
  <2>2. /\ envs'[e] = envs[e] /\ \A t \in Slots \ {s} : req'[t] = req[t]
        /\ req'[s].stage = "minted"
    BY <1>1, <1>8, <2>1 DEF Insert, Become, Request
  <2> QED BY <1>1, <2>2 DEF Past
<1>9. ASSUME NEW s \in Slots, Minted(s) \/ IllegalTransition(s)
      PROVE  envs'[e].status = "DESTROYED" /\ \A t \in Slots : Past(req'[t], e)
  <2>1. /\ envs' = envs /\ \A t \in Slots \ {s} : req'[t] = req[t]
        /\ req'[s].stage \in {"done", "illegal"}
    BY <1>1, <1>9 DEF Minted, IllegalTransition, Become, Request
  <2> QED BY <1>1, <2>1 DEF Past
<1>10. ASSUME Restart \/ Tick \/ UNCHANGED vars
       PROVE  envs'[e].status = "DESTROYED" /\ \A t \in Slots : Past(req'[t], e)
  BY <1>1, <1>10, NothingIsEmpty DEF Restart, Tick, vars, Past, Idle
<1> QED BY <1>3, <1>4, <1>5, <1>6, <1>7, <1>8, <1>9, <1>10 DEF Next, Progress

(* No request that reads a row after it was destroyed brings it back.      *)
THEOREM DestroyedIsFinal == Spec => SettledIsFinal
<1>1. IInv /\ [Next]_vars => [\A e \in EnvIds : Settled(e) => Settled(e)']_vars
  BY SettledStep
<1> QED BY <1>1, Invariance, PTL DEF Spec, SettledIsFinal

-----------------------------------------------------------------------------
(* Only a start of a FAILED environment escapes with a 500.                *)

(* The statuses of a row while a call of the runtime is pending for it.    *)
Pending ==
  [start |-> {"PROVISIONING", "READY", "FAILED"}, reset |-> {"RESETTING"}, stop |-> {"ACTIVE"},
   destroy |-> {"DESTROYING"}, timeout |-> Live, fail |-> {}, sweep |-> Live]

(* What a request asks of transition() follows from what its own handler   *)
(* found in its copy, so no other request can make it illegal.             *)
Lawful(r) ==
  /\ r.stage \in {"runtime", "write"} /\ r.op # "sweep" =>
       \A e \in EnvIds : Exists(r.held[e]) => e = r.env
  /\ r.stage = "runtime" \/ (r.stage = "write" /\ r.op = "sweep") =>
       \A e \in EnvIds : Exists(r.held[e]) => r.held[e].status \in Pending[r.op]
  /\ r.stage = "write" =>
       /\ r.to = Goal[r.op] \/ (r.op # "sweep" /\ r.to \in Pending[r.op])
       /\ \/ Lifecycle!CanTransition(r.held[r.env].status, r.to)
          \/ r.op = "start" /\ r.held[r.env].status = "FAILED"
  /\ r.stage = "illegal" => r.op = "start" /\ r.held[r.env].status = "FAILED"

AllLawful == \A s \in Slots : Lawful(req[s])

LEMMA QuietIsLawful ==
  ASSUME NEW q, q.stage \notin {"runtime", "write", "illegal"}
  PROVE  Lawful(q)
BY DEF Lawful

(* A request that moves on lawfully leaves the others as they are.         *)
LEMMA LawfulStep ==
  ASSUME TypeOK, AllLawful, NEW s \in Slots, NEW q, Become(s, q), Lawful(q)
  PROVE  AllLawful'
BY DEF TypeOK, AllLawful, Become

LEMMA CallIsLawful ==
  ASSUME TypeOK, AllLawful, NEW s \in Slots, Call(s)
  PROVE  AllLawful'
<1>1. ASSUME NEW q, Accept(s, q), q.stage \in {"find", "list", "refused"} PROVE AllLawful'
  BY <1>1, QuietIsLawful, LawfulStep DEF Accept
<1>2. ASSUME NEW u, NEW k, ReplayCreate(s, u, k) PROVE AllLawful'
  BY <1>1, <1>2 DEF ReplayCreate, Idle
<1>3. ASSUME NEW u, NEW k, NEW v, FreshCreate(s, u, k, v) PROVE AllLawful'
  <2> DEFINE q == [Idle EXCEPT !.stage = IF v THEN "list" ELSE "refused",
                               !.op = "create", !.actor = u, !.key = k]
  <2>1. q.stage \in {"list", "refused"}
    BY DEF Idle
  <2>2. Accept(s, q)
    BY <1>3 DEF FreshCreate
  <2> HIDE DEF q
  <2> QED BY <2>1, <2>2, <1>1
<1>4. ASSUME NEW u, NEW op, NEW e, CallRow(s, u, op, e) PROVE AllLawful'
  BY <1>1, <1>4 DEF CallRow, Idle
<1>5. ASSUME NEW u, CallList(s, u) PROVE AllLawful'
  BY <1>1, <1>5 DEF CallList, Idle
<1>6. ASSUME NEW op, NEW e, CallSystem(s, op, e) PROVE AllLawful'
  BY <1>1, <1>6 DEF CallSystem, Idle
<1>7. ASSUME CallSweep(s) PROVE AllLawful'
  BY <1>1, <1>7 DEF CallSweep, Idle
<1> QED BY <1>2, <1>3, <1>4, <1>5, <1>6, <1>7 DEF Call

(* The guards of the handlers are the rows of the transition table.        *)
LEMMA TableRows ==
  /\ \A from \in Live : Lifecycle!CanTransition(from, "TIMEOUT")
  /\ \A from \in {"READY", "ACTIVE", "TIMEOUT"} : Lifecycle!CanTransition(from, "RESETTING")
  /\ \A from \in Statuses \ {"DESTROYED", "DESTROYING"} : Lifecycle!CanTransition(from, "DESTROYING")
  /\ \A from \in Statuses \ {"DESTROYED", "FAILED"} : Lifecycle!CanTransition(from, "FAILED")
  /\ Lifecycle!CanTransition("REQUESTED", "PROVISIONING")
  /\ Lifecycle!CanTransition("PROVISIONING", "READY")
  /\ Lifecycle!CanTransition("READY", "ACTIVE")
  /\ Lifecycle!CanTransition("RESETTING", "READY")
  /\ Lifecycle!CanTransition("ACTIVE", "READY")
  /\ Lifecycle!CanTransition("DESTROYING", "DESTROYED")
BY DEF Lifecycle!CanTransition, Lifecycle!Transitions, Live, Lifecycle!LiveStatuses,
       Statuses, Lifecycle!Statuses

LEMMA DecideIsLawful ==
  ASSUME IInv, AllLawful, NEW s \in Slots, Decide(s)
  PROVE  AllLawful'
<1> DEFINE r == req[s]
<1>1. r \in Request /\ Good(r, envs, now) /\ TypeOK /\ r.held \in [EnvIds -> Row]
  BY DEF IInv, TypeOK, Request
<1>2. r.stage = "decide"
  BY DEF Decide, DecideUnowned, DecideGet, DecideList, DecideReplay, DecideCreate, DecideStart,
         DecideTouch, DecideReset, DecideStop, DecideDestroy, DecideTimeout, DecideFail,
         DecideSweep, Deciding
<1>3. /\ r.op \in RowOps \cup {"timeout", "fail"} =>
           r.env \in EnvIds /\ \A e \in EnvIds : Exists(r.held[e]) => e = r.env
      /\ r.op = "sweep" => \A e \in EnvIds : Exists(r.held[e]) => r.held[e].status \in Live
  BY <1>1, <1>2 DEF Good, WellStaged, Fits, RowOps
<1>4. ASSUME NEW q, Become(s, q), q.stage \in {"done", "refused", "list", "insert", "slide"}
      PROVE  AllLawful'
  BY <1>1, <1>4, QuietIsLawful, LawfulStep
<1>5. ASSUME Resume(s, "done") \/ Refuse(s) PROVE AllLawful'
  BY <1>1, <1>4, <1>5 DEF Resume, Refuse, Request
<1>6. ASSUME Resume(s, "runtime"), r.op \in DOMAIN Goal,
             \A e \in EnvIds : Exists(r.held[e]) => r.held[e].status \in Pending[r.op]
      PROVE  AllLawful'
  <2> PICK q : q = [r EXCEPT !.stage = "runtime"]
    OBVIOUS
  <2>1. q.stage = "runtime" /\ q.op = r.op /\ q.env = r.env /\ q.held = r.held
    BY <1>1 DEF Request
  <2>2. r.op \in RowOps \cup {"timeout", "fail", "sweep"}
    BY <1>6 DEF Goal, RowOps
  <2>3. Lawful(q)
    BY <1>3, <1>6, <2>1, <2>2 DEF Lawful
  <2> QED BY <1>1, <1>6, <2>3, LawfulStep DEF Resume
<1>7. ASSUME NEW to, Ask(s, to), r.op \in (RowOps \cup {"fail"}) \cap DOMAIN Goal,
             to = Goal[r.op] \/ to \in Pending[r.op],
             Lifecycle!CanTransition(Loaded(s).status, to)
      PROVE  AllLawful'
  <2> PICK q : q = [r EXCEPT !.stage = "write", !.to = to]
    OBVIOUS
  <2>1. q.stage = "write" /\ q.op = r.op /\ q.env = r.env /\ q.held = r.held /\ q.to = to
    BY <1>1 DEF Request
  <2>2. Lawful(q)
    BY <1>3, <1>7, <2>1 DEF Lawful, RowOps, Loaded
  <2> QED BY <1>1, <1>7, <2>2, LawfulStep DEF Ask
<1>8. /\ {"start", "reset", "stop", "destroy", "timeout", "fail", "sweep"} = DOMAIN Goal
      /\ {"start", "reset", "stop", "destroy"} \subseteq RowOps
  BY DEF Goal, RowOps
<1>9. r.op \in RowOps \cup {"timeout", "fail"} =>
        \A e \in EnvIds : Exists(r.held[e]) => r.held[e] = Loaded(s) /\ Loaded(s) \in Row
  BY <1>1, <1>3 DEF Loaded
<1>10. Owned(s) => Exists(Loaded(s)) /\ r.env \in EnvIds
  BY <1>1 DEF Owned, Request
<1>11. CASE DecideUnowned(s) \/ DecideGet(s) \/ DecideList(s)
  BY <1>5, <1>11 DEF DecideUnowned, DecideGet, DecideList
<1>12. CASE DecideReplay(s)
  <2>1. CASE Become(s, [r EXCEPT !.stage = "list", !.env = NoId, !.held = Nothing])
    BY <1>1, <1>4, <2>1 DEF Request
  <2> QED BY <1>5, <1>12, <2>1 DEF DecideReplay
<1>13. CASE DecideCreate(s)
  <2>1. CASE Become(s, [r EXCEPT !.stage = "insert", !.at = now, !.held = Nothing])
    BY <1>1, <1>4, <2>1 DEF Request
  <2> QED BY <1>5, <1>13, <2>1 DEF DecideCreate
<1>14. CASE DecideStart(s)
  <2>1. r.op = "start" /\ Owned(s)
    BY <1>14 DEF DecideStart, Deciding
  <2>2. CASE Ask(s, "PROVISIONING") /\ Loaded(s).status = "REQUESTED"
    BY <2>1, <2>2, <1>7, <1>8, TableRows DEF Pending
  <2>3. CASE Resume(s, "runtime") /\ Loaded(s).status \in {"PROVISIONING", "READY", "FAILED"}
    BY <2>1, <2>3, <1>6, <1>8, <1>9 DEF Pending
  <2> QED BY <2>2, <2>3, <1>5, <1>14 DEF DecideStart
<1>15. CASE DecideTouch(s)
  <2>1. CASE Become(s, [r EXCEPT !.stage = "slide", !.at = now])
    BY <1>1, <1>4, <2>1 DEF Request
  <2> QED BY <1>5, <1>15, <2>1 DEF DecideTouch
<1>16. CASE DecideReset(s)
  <2>1. r.op = "reset"
    BY <1>16 DEF DecideReset, Deciding
  <2>2. CASE Ask(s, "RESETTING") /\ Loaded(s).status \in {"READY", "ACTIVE", "TIMEOUT"}
    BY <2>1, <2>2, <1>7, <1>8, TableRows DEF Pending
  <2> QED BY <2>2, <1>5, <1>16 DEF DecideReset
<1>17. CASE DecideStop(s)
  <2>1. r.op = "stop"
    BY <1>17 DEF DecideStop, Deciding
  <2>2. CASE Resume(s, "runtime") /\ Loaded(s).status = "ACTIVE"
    BY <2>1, <2>2, <1>6, <1>8, <1>9 DEF Pending
  <2> QED BY <2>2, <1>5, <1>17 DEF DecideStop
<1>18. CASE DecideDestroy(s)
  <2>1. r.op = "destroy" /\ Owned(s)
    BY <1>18 DEF DecideDestroy, Deciding
  <2>2. CASE Resume(s, "runtime") /\ Loaded(s).status = "DESTROYING"
    BY <2>1, <2>2, <1>6, <1>8, <1>9 DEF Pending
  <2>3. CASE Ask(s, "DESTROYING") /\ Loaded(s).status \notin {"DESTROYED", "DESTROYING"}
    <3>1. Loaded(s).status \in Statuses
      BY <2>1, <1>1, <1>10 DEF Loaded, Exists, Row
    <3> QED BY <2>1, <2>3, <3>1, <1>7, <1>8, TableRows DEF Pending
  <2> QED BY <2>2, <2>3, <1>5, <1>18 DEF DecideDestroy
<1>19. CASE DecideTimeout(s)
  <2>1. r.op = "timeout"
    BY <1>19 DEF DecideTimeout, Deciding
  <2>2. CASE Resume(s, "runtime") /\ Loaded(s).status \in Live
    BY <2>1, <2>2, <1>6, <1>8, <1>9 DEF Pending
  <2> QED BY <2>2, <1>5, <1>19 DEF DecideTimeout
<1>20. CASE DecideFail(s)
  <2>1. r.op = "fail"
    BY <1>20 DEF DecideFail, Deciding
  <2>2. CASE Ask(s, "FAILED") /\ Exists(Loaded(s)) /\ Loaded(s).status \notin {"FAILED", "DESTROYED"}
    <3>1. Loaded(s).status \in Statuses
      BY <2>1, <2>2, <1>1, <1>3 DEF Loaded, Exists, Row
    <3>2. Goal["fail"] = "FAILED"
      BY DEF Goal
    <3> QED BY <2>1, <2>2, <3>1, <3>2, <1>7, <1>8, TableRows
  <2> QED BY <2>2, <1>5, <1>20 DEF DecideFail
<1>21. CASE DecideSweep(s)
  <2>1. r.op = "sweep"
    BY <1>21 DEF DecideSweep, Deciding
  <2>2. CASE Resume(s, "runtime")
    BY <2>1, <2>2, <1>3, <1>6, <1>8 DEF Pending
  <2> QED BY <2>2, <1>5, <1>21 DEF DecideSweep
<1> QED BY <1>11, <1>12, <1>13, <1>14, <1>15, <1>16, <1>17, <1>18, <1>19, <1>20, <1>21 DEF Decide

LEMMA RuntimeReturnsIsLawful ==
  ASSUME IInv, AllLawful, NEW s \in Slots, NEW e \in EnvIds, RuntimeReturns(s, e)
  PROVE  AllLawful'
<1> DEFINE r == req[s]
           to == IF r.op = "start" /\ r.held[e].status = "PROVISIONING" THEN "READY"
                 ELSE Goal[r.op]
           q == [r EXCEPT !.stage = "write", !.env = e, !.to = to,
                          !.at = IF r.op = "sweep" THEN @ ELSE now]
<1>1. /\ r \in Request /\ TypeOK /\ Lawful(r) /\ r.stage = "runtime" /\ Exists(r.held[e])
      /\ r.op \in DOMAIN Goal
  BY DEF IInv, TypeOK, AllLawful, RuntimeReturns, Good, WellStaged
<1>2. Become(s, q)
  BY DEF RuntimeReturns
<1>3. /\ r.held[e].status \in Pending[r.op] /\ (r.op # "sweep" => e = r.env)
      /\ \A f \in EnvIds : Exists(r.held[f]) => r.held[f].status \in Pending[r.op]
      /\ r.op # "sweep" => \A f \in EnvIds : Exists(r.held[f]) => f = r.env
  BY <1>1 DEF Lawful
<1>4. to = Goal[r.op] \/ (r.op # "sweep" /\ to \in Pending[r.op])
  BY DEF Pending
<1>5. Lifecycle!CanTransition(r.held[e].status, to) \/ (r.op = "start" /\ r.held[e].status = "FAILED")
  BY <1>1, <1>3, TableRows DEF Pending, Goal
<1>6. q.stage = "write" /\ q.op = r.op /\ q.env = e /\ q.held = r.held /\ q.to = to
  BY <1>1 DEF Request
<1> HIDE DEF q, to
<1>7. Lawful(q)
  BY <1>3, <1>4, <1>5, <1>6 DEF Lawful
<1> QED BY <1>1, <1>2, <1>7, LawfulStep

LEMMA TransitionIsLawful ==
  ASSUME IInv, AllLawful, NEW s \in Slots, Transition(s)
  PROVE  AllLawful'
<1> DEFINE r == req[s]
           row == Patched(envs[r.env], r.op, r.to, r.at, r.held[r.env].createdAt)
           held == IF r.op = "sweep" THEN Rest(r) ELSE [r.held EXCEPT ![r.env] = row]
           done == r.to = Goal[r.op] /\ (r.op = "sweep" => Rest(r) = Nothing)
           q == [r EXCEPT !.stage = IF done THEN "done" ELSE "runtime",
                          !.at = IF r.op = "sweep" THEN @ ELSE 0, !.held = held]
<1>1. /\ r \in Request /\ TypeOK /\ Lawful(r) /\ r.stage = "write" /\ r.env \in EnvIds
      /\ r.op \in DOMAIN Goal /\ r.held \in [EnvIds -> Row] /\ envs[r.env] \in Row
  BY DEF IInv, TypeOK, AllLawful, Transition, Good, WellStaged, Request
<1>2. Become(s, q)
  BY DEF Transition
<1>3. row.status = r.to
  BY <1>1 DEF Patched, Slid, Row
<1> HIDE DEF row
<1>4. /\ held \in [EnvIds -> Row \cup {row}]
      /\ \A e \in EnvIds : held[e] = IF e # r.env THEN r.held[e]
                                     ELSE IF r.op = "sweep" THEN NoRow ELSE row
  BY <1>1, NoRowType DEF Rest
<1> HIDE DEF held
<1>5. /\ q.stage = (IF done THEN "done" ELSE "runtime") /\ q.op = r.op /\ q.env = r.env
      /\ q.held = held
  BY <1>1 DEF Request
<1>6. CASE done
  <2>1. q.stage = "done"
    BY <1>5, <1>6
  <2> HIDE DEF q, done
  <2> QED BY <1>1, <1>2, <2>1, QuietIsLawful, LawfulStep
<1>7. CASE ~done /\ r.op = "sweep"
  <2>1. \A e \in EnvIds : Exists(held[e]) => r.held[e].status \in Pending[r.op] /\ held[e] = r.held[e]
    BY <1>1, <1>4, <1>7, NoRowType DEF Lawful
  <2> HIDE DEF q, done
  <2>2. Lawful(q)
    BY <1>5, <1>7, <2>1 DEF Lawful
  <2> QED BY <1>1, <1>2, <2>2, LawfulStep
<1>8. CASE ~done /\ r.op # "sweep"
  <2>1. r.to \in Pending[r.op]
    BY <1>1, <1>8 DEF Lawful
  <2>2. \A e \in EnvIds : Exists(held[e]) => e = r.env /\ held[e].status = r.to
    BY <1>1, <1>3, <1>4, <1>8 DEF Lawful
  <2> HIDE DEF q, done
  <2>3. Lawful(q)
    BY <1>5, <1>8, <2>1, <2>2 DEF Lawful
  <2> QED BY <1>1, <1>2, <2>3, LawfulStep
<1> QED BY <1>6, <1>7, <1>8

LEMMA IllegalIsLawful ==
  ASSUME IInv, AllLawful, NEW s \in Slots, IllegalTransition(s)
  PROVE  AllLawful'
<1> DEFINE r == req[s]
           q == [r EXCEPT !.stage = "illegal"]
<1>1. /\ r \in Request /\ TypeOK /\ Lawful(r) /\ r.stage = "write" /\ Become(s, q)
      /\ ~Lifecycle!CanTransition(r.held[r.env].status, r.to)
  BY DEF IInv, TypeOK, AllLawful, IllegalTransition
<1>2. q.stage = "illegal" /\ q.op = r.op /\ q.env = r.env /\ q.held = r.held
  BY <1>1 DEF Request
<1>3. Lawful(q)
  BY <1>1, <1>2 DEF Lawful
<1> QED BY <1>1, <1>3, LawfulStep

LEMMA OtherStepsAreLawful ==
  ASSUME IInv, AllLawful, NEW s \in Slots,
         \/ Read(s) \/ Slide(s) \/ (\E e \in EnvIds : Insert(s, e)) \/ Minted(s) \/ Reply(s) \/ Abort(s)
  PROVE  AllLawful'
<1>1. TypeOK /\ req[s] \in Request
  BY DEF IInv, TypeOK
<1>2. ASSUME NEW q, Become(s, q), q.stage \in {"idle", "decide", "done", "minted"} PROVE AllLawful'
  BY <1>1, <1>2, QuietIsLawful, LawfulStep
<1>3. CASE Read(s)
  BY <1>1, <1>2, <1>3 DEF Read, Request
<1>4. CASE Slide(s)
  BY <1>1, <1>2, <1>4 DEF Slide, Request
<1>5. ASSUME NEW e \in EnvIds, Insert(s, e) PROVE AllLawful'
  BY <1>1, <1>2, <1>5 DEF Insert, Request
<1>6. CASE Minted(s)
  BY <1>1, <1>2, <1>6 DEF Minted, Request
<1>7. CASE Reply(s) \/ Abort(s)
  BY <1>2, <1>7 DEF Reply, Abort, Idle
<1> QED BY <1>3, <1>4, <1>5, <1>6, <1>7

(* Whatever other requests do to a row between a handler's guard and its   *)
(* update, no request is about to write a status its copy cannot take,     *)
(* a start of a FAILED environment apart.                                  *)
THEOREM AlwaysLawful == Spec => []AllLawful
<1>1. Init => AllLawful
  BY QuietIsLawful DEF Init, AllLawful, Idle
<1>2. ASSUME IInv, AllLawful, [Next]_vars PROVE AllLawful'
  <2>1. ASSUME NEW s \in Slots, Call(s) \/ Progress(s) \/ Abort(s) PROVE AllLawful'
    BY <1>2, <2>1, CallIsLawful, DecideIsLawful, RuntimeReturnsIsLawful, TransitionIsLawful,
       IllegalIsLawful, OtherStepsAreLawful DEF IInv, Progress
  <2>2. CASE Restart
    BY <2>2, QuietIsLawful DEF Restart, AllLawful, Idle
  <2>3. CASE Tick \/ UNCHANGED vars
    BY <1>2, <2>3 DEF Tick, vars, AllLawful
  <2> QED BY <1>2, <2>1, <2>2, <2>3 DEF Next
<1> QED BY <1>1, <1>2, Invariance, PTL DEF Spec

(* Of all operations from all statuses only the start of a FAILED          *)
(* environment escapes as a 500 (activateEnvironment lets it through to    *)
(* transition).                                                            *)
THEOREM OnlyFailedStarts == Spec => []OnlyFailedStartEscapes
<1>1. AllLawful => OnlyFailedStartEscapes
  BY DEF AllLawful, Lawful, OnlyFailedStartEscapes, Loaded
<1> QED BY <1>1, AlwaysLawful, PTL
=============================================================================
