-------------------- MODULE EnvironmentRefinementProofs ---------------------
(***************************************************************************)
(* What EnvironmentService keeps when its requests do not overlap, also    *)
(* when they fail half way and the process restarts: it implements         *)
(* EnvironmentLifecycle, bounds the rows of a user, answers with the row,  *)
(* slides expiries forward, reclaims what expired and remembers its keys.  *)
(* EnvTerminal.cfg shows that the assumption is needed.                    *)
(*                                                                         *)
(* The inductive invariant SerialInv adds to IInv what only a request that *)
(* is alone can rely on: a copy is still its row (Fresh), and what the     *)
(* handler concluded from it still holds when it acts on it (Told).        *)
(***************************************************************************)
EXTENDS EnvironmentServiceProofs, FiniteSetTheorems

(* At most one request is in flight.                                       *)
OneAtATime == \A s, t \in Slots : s = t

(* A copy in hand is the row itself.                                       *)
Fresh(r, rows) == \A e \in EnvIds : Exists(r.held[e]) => r.held[e] = rows[e]

(* A mutation is answered with a row in the status it stands for.          *)
Achieved(r) ==
  /\ r.stage = "slide" => r.op = "touch"
  /\ r.stage = "done" /\ r.op \in {"start", "reset", "stop", "destroy"} =>
       \A e \in EnvIds : Exists(r.held[e]) => r.held[e].status = Goal[r.op]

(* What is about to restart an idle window is not older than the window.   *)
NotBehind(r, rows) ==
  r.stage = "slide" \/ (r.stage = "write" /\ Slides(r.op, r.to)) =>
    rows[r.env].lastActivityAt <= r.at

(* The rows a sweep has yet to reclaim are all in its list.                *)
Listed(r, rows) ==
  /\ r.op = "sweep" /\ r.stage \in {"decide", "runtime", "write", "done"} =>
       \A e \in EnvIds :
         rows[e].status \in Live /\ IsExpired(rows[e], r.at) => Exists(r.held[e])
  /\ r.op = "sweep" /\ r.stage = "done" => r.held = Nothing

(* A create counts every row of its user.                                  *)
Counted(r, rows) ==
  /\ r.op = "create" /\ r.stage = "decide" /\ r.env = NoId =>
       \A e \in EnvIds : Exists(rows[e]) /\ rows[e].user = r.actor => r.held[e] = rows[e]
  /\ r.stage = "insert" => Cardinality(Retained(rows, r.actor)) < MaxTotal

Owns(rows, e, u) == Exists(rows[e]) /\ rows[e].user = u

Forgotten(u, k, memory, t) == k \in Keys => memory[u][k].id = NoId \/ memory[u][k].expiresAt <= t

(* A create looks up the row of its key, or this process knows none.       *)
Retried(r, rows, memory, t) ==
  r.op = "create" =>
    /\ r.actor \in Users
    /\ r.stage = "find" => r.env # NoId
    /\ r.stage \in {"find", "decide"} /\ r.env # NoId => Owns(rows, r.env, r.actor)
    /\ r.stage = "decide" /\ r.env # NoId => r.held[r.env] = rows[r.env]
    /\ r.stage \in {"list", "insert"} \/ (r.stage = "decide" /\ r.env = NoId) =>
         Forgotten(r.actor, r.key, memory, t)
    /\ r.stage = "minted" => r.env \in EnvIds /\ Owns(r.held, r.env, r.actor)

Told(r, rows, memory, t) ==
  /\ Achieved(r) /\ NotBehind(r, rows) /\ Listed(r, rows)
  /\ Counted(r, rows) /\ Retried(r, rows, memory, t)

(* The table between two calls.                                            *)
Kept(rows, memory, t) ==
  /\ \A e \in EnvIds : Exists(rows[e]) => rows[e].lastActivityAt <= t
  /\ \A u \in Users : IsFiniteSet(Retained(rows, u)) /\ Cardinality(Retained(rows, u)) <= MaxTotal
  /\ \A u \in Users, k \in Keys : memory[u][k].id # NoId => Owns(rows, memory[u][k].id, u)

SerialInv ==
  /\ Kept(envs, idem, now)
  /\ \A s \in Slots : Fresh(req[s], envs) /\ Told(req[s], envs, idem, now)

StatusColumn == [e \in EnvIds |-> envs[e].status]

-----------------------------------------------------------------------------
(* The inductive invariant.                                                *)

(* A step of the only request, which leaves it in state q.                 *)
LEMMA SerialStep ==
  ASSUME OneAtATime, TypeOK, NEW s \in Slots, NEW q, Become(s, q),
         Kept(envs', idem', now'), Fresh(q, envs'), Told(q, envs', idem', now')
  PROVE  SerialInv'
<1>1. \A t \in Slots : req'[t] = q
  BY DEF OneAtATime, TypeOK, Become
<1> QED BY <1>1 DEF SerialInv

LEMMA LocalSerialStep ==
  ASSUME OneAtATime, TypeOK, SerialInv, NEW s \in Slots, NEW q, Become(s, q),
         UNCHANGED <<envs, idem, now>>, Fresh(q, envs), Told(q, envs, idem, now)
  PROVE  SerialInv'
BY SerialStep DEF SerialInv

(* A request that holds nothing and is about to read, or over.             *)
LEMMA EmptyHanded ==
  ASSUME NEW q, NEW rows, NEW memory, NEW t, q.held = Nothing,
         q.stage \in {"idle", "find", "list", "refused"}, Retried(q, rows, memory, t)
  PROVE  Fresh(q, rows) /\ Told(q, rows, memory, t)
BY NothingIsEmpty DEF Fresh, Told, Achieved, NotBehind, Listed, Counted

LEMMA CallIsSerial ==
  ASSUME OneAtATime, IInv, SerialInv, NEW s \in Slots, Call(s)
  PROVE  SerialInv'
<1>1. TypeOK /\ Kept(envs, idem, now)
  BY DEF IInv, SerialInv
<1>2. ASSUME NEW q, Accept(s, q), UNCHANGED <<envs, now>>, q.held = Nothing,
             q.stage \in {"find", "list", "refused"},
             Retried(q, envs, idem', now), Kept(envs, idem', now)
      PROVE  SerialInv'
  <2>1. Fresh(q, envs) /\ Told(q, envs, idem', now)
    BY <1>2, EmptyHanded
  <2> QED BY <1>1, <1>2, <2>1, SerialStep DEF Accept
<1>3. ASSUME NEW u \in Users, NEW k \in Keys \cup {NoKey}, ReplayCreate(s, u, k) PROVE SerialInv'
  <2> PICK q : q = [Idle EXCEPT !.stage = "find", !.op = "create", !.actor = u,
                                !.key = k, !.env = idem[u][k].id]
    OBVIOUS
  <2>1. q.held = Nothing /\ q.stage = "find" /\ q.actor = u /\ q.env = idem[u][k].id
    BY DEF Idle
  <2>2. Accept(s, q) /\ UNCHANGED <<envs, idem, now>> /\ k \in Keys /\ idem[u][k].id # NoId
    BY <1>3 DEF ReplayCreate, Remembered
  <2>3. Retried(q, envs, idem, now)
    BY <1>1, <2>1, <2>2 DEF Retried, Kept
  <2> QED BY <1>1, <1>2, <2>1, <2>2, <2>3
<1>4. ASSUME NEW u \in Users, NEW k \in Keys \cup {NoKey}, NEW v \in BOOLEAN, FreshCreate(s, u, k, v)
      PROVE  SerialInv'
  <2> PICK q : q = [Idle EXCEPT !.stage = IF v THEN "list" ELSE "refused",
                                !.op = "create", !.actor = u, !.key = k]
    OBVIOUS
  <2>1. q.held = Nothing /\ q.stage \in {"list", "refused"} /\ q.actor = u /\ q.key = k /\ q.env = NoId
    BY DEF Idle
  <2>2. /\ Accept(s, q) /\ UNCHANGED <<envs, now>>
        /\ idem' = IF k \in Keys THEN [idem EXCEPT ![u][k] = NoEntry] ELSE idem
    BY <1>4 DEF FreshCreate
  <2>3. idem \in [Users -> [Keys -> IdemEntry]]
    BY <1>1 DEF TypeOK
  <2>4. \A w \in Users, l \in Keys :
          IF w = u /\ l = k THEN idem'[w][l].id = NoId ELSE idem'[w][l] = idem[w][l]
    BY <2>2, <2>3 DEF NoEntry
  <2>5. Retried(q, envs, idem', now)
    BY <2>1, <2>4 DEF Retried, Forgotten
  <2>6. Kept(envs, idem', now)
    BY <1>1, <2>4 DEF Kept
  <2> QED BY <1>2, <2>1, <2>2, <2>5, <2>6
<1>5. ASSUME NEW q, Accept(s, q), UNCHANGED <<envs, idem, now>>, q.held = Nothing, q.op # "create",
             q.stage \in {"find", "list"}
      PROVE  SerialInv'
  BY <1>1, <1>2, <1>5 DEF Retried
<1>6. ASSUME NEW u, NEW op \in RowOps, NEW e, CallRow(s, u, op, e) PROVE SerialInv'
  BY <1>5, <1>6 DEF CallRow, Idle, RowOps
<1>7. ASSUME NEW u, CallList(s, u) PROVE SerialInv'
  BY <1>5, <1>7 DEF CallList, Idle
<1>8. ASSUME NEW op \in {"timeout", "fail"}, NEW e, CallSystem(s, op, e) PROVE SerialInv'
  BY <1>5, <1>8 DEF CallSystem, Idle
<1>9. ASSUME CallSweep(s) PROVE SerialInv'
  BY <1>5, <1>9 DEF CallSweep, Idle
<1> QED BY <1>3, <1>4, <1>6, <1>7, <1>8, <1>9 DEF Call

(* The rows read are the rows of the table, and all that were asked for.   *)
LEMMA ReadIsSerial ==
  ASSUME OneAtATime, IInv, SerialInv, NEW s \in Slots, Read(s)
  PROVE  SerialInv'
<1> DEFINE r == req[s]
<1>1. /\ TypeOK /\ r \in Request /\ Good(r, envs, now) /\ Told(r, envs, idem, now)
      /\ r.env \in EnvIds \cup {NoId} /\ r.stage \in {"find", "list"}
  BY DEF IInv, TypeOK, SerialInv, Read, Request
<1> PICK got : got = [e \in EnvIds |-> IF Wanted(r, e) THEN envs[e] ELSE NoRow]
  OBVIOUS
<1> PICK q : q = [r EXCEPT !.stage = "decide", !.held = got]
  OBVIOUS
<1>2. Become(s, q) /\ UNCHANGED <<envs, idem, now>>
  BY DEF Read
<1>3. /\ q.stage = "decide" /\ q.held = got /\ q.op = r.op /\ q.env = r.env
      /\ q.actor = r.actor /\ q.at = r.at /\ q.key = r.key
  BY <1>1 DEF Request
<1>4. \A e \in EnvIds : got[e] = IF Wanted(r, e) THEN envs[e] ELSE NoRow
  OBVIOUS
<1>5. Fresh(q, envs)
  BY <1>3, <1>4, NoRowType DEF Fresh
<1>6. Listed(q, envs)
  <2> SUFFICES ASSUME r.op = "sweep", NEW e \in EnvIds, envs[e].status \in Live, IsExpired(envs[e], r.at)
               PROVE  Exists(got[e])
    BY <1>3 DEF Listed
  <2>1. Wanted(r, e)
    BY <1>1 DEF Wanted, Good, WellStaged
  <2> QED BY <1>4, <2>1, StatusNames DEF Exists
<1>7. Counted(q, envs)
  <2> SUFFICES ASSUME r.op = "create", r.env = NoId, NEW e \in EnvIds, Exists(envs[e]), envs[e].user = r.actor
               PROVE  got[e] = envs[e]
    BY <1>3 DEF Counted
  <2>1. Wanted(r, e)
    BY <1>1 DEF Wanted, Told, Retried
  <2> QED BY <1>4, <2>1
<1>8. Retried(q, envs, idem, now)
  <2>1. ASSUME r.op = "create", r.env # NoId PROVE got[r.env] = envs[r.env]
    <3>1. r.stage = "find" /\ r.env \in EnvIds
      BY <1>1, <2>1 DEF Good, WellStaged
    <3> QED BY <1>4, <2>1, <3>1 DEF Wanted
  <2>2. ASSUME r.op = "create", r.env # NoId PROVE r.stage = "find"
    BY <1>1, <2>2 DEF Good, WellStaged
  <2>3. ASSUME r.op = "create", r.env = NoId PROVE r.stage = "list"
    BY <1>1, <2>3 DEF Told, Retried
  <2> QED BY <1>1, <1>3, <2>1, <2>2, <2>3 DEF Told, Retried
<1>9. Achieved(q) /\ NotBehind(q, envs)
  BY <1>3 DEF Achieved, NotBehind
<1> QED BY <1>1, <1>2, <1>5, <1>6, <1>7, <1>8, <1>9, LocalSerialStep DEF Told

LEMMA DecideIsSerial ==
  ASSUME OneAtATime, IInv, SerialInv, NEW s \in Slots, Decide(s)
  PROVE  SerialInv'
<1> DEFINE r == req[s]
<1>1. /\ TypeOK /\ r \in Request /\ Good(r, envs, now) /\ Told(r, envs, idem, now) /\ Fresh(r, envs)
      /\ r.env \in EnvIds \cup {NoId} /\ Kept(envs, idem, now)
  BY DEF IInv, TypeOK, SerialInv, Request
<1>2. r.stage = "decide"
  BY DEF Decide, DecideUnowned, DecideGet, DecideList, DecideReplay, DecideCreate, DecideStart,
         DecideTouch, DecideReset, DecideStop, DecideDestroy, DecideTimeout, DecideFail,
         DecideSweep, Deciding
<1>3. r.op \in RowOps \cup {"timeout", "fail"} =>
        r.env \in EnvIds /\ \A e \in EnvIds : Exists(r.held[e]) => r.held[e] = Loaded(s)
  BY <1>1, <1>2 DEF Good, WellStaged, Fits, RowOps, Loaded
<1>4. r.op = "create" => r.actor \in Users
  BY <1>1 DEF Told, Retried
<1>5. ASSUME NEW q, Become(s, q), UNCHANGED <<envs, idem, now>>, q.held = r.held, Told(q, envs, idem, now)
      PROVE  SerialInv'
  BY <1>1, <1>5, LocalSerialStep DEF Fresh
(* The ways a continuation ends.                                           *)
<1>6. ASSUME Refuse(s) PROVE SerialInv'
  <2> PICK q : q = [r EXCEPT !.stage = "refused", !.held = Nothing]
    OBVIOUS
  <2>1. q.stage = "refused" /\ q.held = Nothing /\ q.op = r.op /\ q.actor = r.actor
    BY <1>1 DEF Request
  <2>2. Retried(q, envs, idem, now)
    BY <1>4, <2>1 DEF Retried
  <2>3. Fresh(q, envs) /\ Told(q, envs, idem, now)
    BY <2>1, <2>2, EmptyHanded
  <2> QED BY <1>1, <1>6, <2>3, LocalSerialStep DEF Refuse
<1>7. ASSUME Resume(s, "done"),
             r.op \in {"start", "reset", "stop", "destroy"} => Loaded(s).status = Goal[r.op],
             r.op = "sweep" => r.held = Nothing
      PROVE  SerialInv'
  <2> PICK q : q = [r EXCEPT !.stage = "done"]
    OBVIOUS
  <2>1. /\ q.stage = "done" /\ q.held = r.held /\ q.op = r.op /\ q.actor = r.actor /\ q.at = r.at
        /\ q.to = r.to
    BY <1>1 DEF Request
  <2>2. Achieved(q) /\ NotBehind(q, envs) /\ Counted(q, envs)
    BY <1>3, <1>7, <2>1 DEF Achieved, NotBehind, Counted, RowOps
  <2>3. Listed(q, envs) /\ Retried(q, envs, idem, now)
    BY <1>1, <1>2, <1>4, <1>7, <2>1 DEF Told, Listed, Retried
  <2> QED BY <1>5, <1>7, <2>1, <2>2, <2>3 DEF Resume, Told
<1>8. ASSUME Resume(s, "runtime"), r.op # "create"
      PROVE  SerialInv'
  <2> PICK q : q = [r EXCEPT !.stage = "runtime"]
    OBVIOUS
  <2>1. q.stage = "runtime" /\ q.held = r.held /\ q.op = r.op /\ q.at = r.at
    BY <1>1 DEF Request
  <2>2. Achieved(q) /\ NotBehind(q, envs) /\ Counted(q, envs) /\ Retried(q, envs, idem, now)
    BY <1>8, <2>1 DEF Achieved, NotBehind, Counted, Retried
  <2>3. Listed(q, envs)
    BY <1>1, <1>2, <2>1 DEF Told, Listed
  <2> QED BY <1>5, <1>8, <2>1, <2>2, <2>3 DEF Resume, Told
<1>9. ASSUME NEW to, Ask(s, to), r.op \notin {"create", "sweep"}, ~Slides(r.op, to)
      PROVE  SerialInv'
  <2> PICK q : q = [r EXCEPT !.stage = "write", !.to = to]
    OBVIOUS
  <2>1. q.stage = "write" /\ q.held = r.held /\ q.op = r.op /\ q.to = to
    BY <1>1 DEF Request
  <2>2. Told(q, envs, idem, now)
    BY <1>9, <2>1 DEF Told, Achieved, NotBehind, Counted, Retried, Listed
  <2> QED BY <1>5, <1>9, <2>1, <2>2 DEF Ask
<1>10. /\ ~Slides("start", "PROVISIONING") /\ ~Slides("reset", "RESETTING")
       /\ ~Slides("destroy", "DESTROYING") /\ ~Slides("fail", "FAILED")
       /\ Goal["start"] = "ACTIVE" /\ Goal["stop"] = "READY" /\ Goal["destroy"] = "DESTROYED"
  BY DEF Slides, Goal
<1>11. CASE DecideUnowned(s)
  BY <1>6, <1>11 DEF DecideUnowned
<1>12. CASE DecideGet(s) \/ DecideList(s)
  BY <1>7, <1>12 DEF DecideGet, DecideList, Deciding
<1>13. CASE DecideReplay(s)
  <2>1. r.op = "create" /\ r.env # NoId
    BY <1>13 DEF DecideReplay, Deciding
  <2>2. Replayable(s)
    BY <1>1, <1>2, <2>1 DEF Told, Retried, Owns, Replayable, Loaded
  <2> QED BY <1>7, <1>13, <2>1, <2>2 DEF DecideReplay
<1>14. CASE DecideCreate(s)
  <2>1. r.op = "create" /\ r.env = NoId
    BY <1>14 DEF DecideCreate, Deciding
  <2>2. CASE /\ ~Full(r.held, r.actor) /\ UNCHANGED <<envs, idem, now>>
             /\ Become(s, [r EXCEPT !.stage = "insert", !.at = now, !.held = Nothing])
    <3> PICK q : q = [r EXCEPT !.stage = "insert", !.at = now, !.held = Nothing]
      OBVIOUS
    <3>1. /\ q.stage = "insert" /\ q.held = Nothing /\ q.op = r.op /\ q.actor = r.actor /\ q.env = r.env
          /\ q.key = r.key
      BY <1>1 DEF Request
    <3>2. Retained(r.held, r.actor) = Retained(envs, r.actor)
      <4>1. \A e \in EnvIds : Exists(envs[e]) /\ envs[e].user = r.actor => r.held[e] = envs[e]
        BY <1>1, <1>2, <2>1 DEF Told, Counted
      <4>2. \A e \in EnvIds : Exists(r.held[e]) => r.held[e] = envs[e]
        BY <1>1 DEF Fresh
      <4> QED BY <4>1, <4>2 DEF Retained
    <3>3. Cardinality(Retained(envs, r.actor)) < MaxTotal
      <4>1. Cardinality(Retained(envs, r.actor)) \in Nat
        BY <1>1, <1>4, <2>1, FS_CardinalityType DEF Kept
      <4>2. ~(Cardinality(Retained(r.held, r.actor)) >= MaxTotal)
        BY <2>2 DEF Full
      <4> QED BY <3>2, <4>1, <4>2, PolicyAssumption
    <3>4. Counted(q, envs) /\ Achieved(q) /\ NotBehind(q, envs) /\ Listed(q, envs)
      BY <2>1, <3>1, <3>3 DEF Counted, Achieved, NotBehind, Listed
    <3>5. Retried(q, envs, idem, now)
      BY <1>1, <1>2, <2>1, <3>1 DEF Told, Retried
    <3>6. Fresh(q, envs)
      BY <3>1, NothingIsEmpty DEF Fresh
    <3> QED BY <1>1, <2>2, <3>4, <3>5, <3>6, LocalSerialStep DEF Told
  <2> QED BY <1>6, <1>14, <2>2 DEF DecideCreate
<1>15. CASE DecideStart(s)
  BY <1>6, <1>7, <1>8, <1>9, <1>10, <1>15 DEF DecideStart, Deciding
<1>16. CASE DecideTouch(s)
  <2>1. r.op = "touch" /\ Exists(envs[r.env]) /\ r.env \in EnvIds
    <3>1. r.op = "touch" /\ Owned(s)
      BY <1>16 DEF DecideTouch, Deciding
    <3> QED BY <1>1, <3>1 DEF Owned, Loaded, Good, Copies
  <2>2. CASE Become(s, [r EXCEPT !.stage = "slide", !.at = now]) /\ UNCHANGED <<envs, idem, now>>
    <3> PICK q : q = [r EXCEPT !.stage = "slide", !.at = now]
      OBVIOUS
    <3>1. q.stage = "slide" /\ q.held = r.held /\ q.op = r.op /\ q.at = now /\ q.env = r.env
      BY <1>1 DEF Request
    <3>2. envs[r.env].lastActivityAt <= now
      BY <1>1, <2>1 DEF Kept
    <3>3. Told(q, envs, idem, now)
      BY <2>1, <3>1, <3>2 DEF Told, Achieved, NotBehind, Counted, Retried, Listed
    <3> QED BY <1>5, <2>2, <3>1, <3>3
  <2> QED BY <1>6, <1>16, <2>2 DEF DecideTouch
<1>17. CASE DecideReset(s)
  BY <1>6, <1>9, <1>10, <1>17 DEF DecideReset, Deciding
<1>18. CASE DecideStop(s)
  BY <1>6, <1>7, <1>8, <1>10, <1>18 DEF DecideStop, Deciding
<1>19. CASE DecideDestroy(s)
  BY <1>7, <1>8, <1>9, <1>10, <1>19 DEF DecideDestroy, Deciding
<1>20. CASE DecideTimeout(s)
  BY <1>7, <1>8, <1>20 DEF DecideTimeout, Deciding
<1>21. CASE DecideFail(s)
  BY <1>7, <1>9, <1>10, <1>21 DEF DecideFail, Deciding
<1>22. CASE DecideSweep(s)
  BY <1>7, <1>8, <1>22 DEF DecideSweep, Deciding
<1> QED BY <1>11, <1>12, <1>13, <1>14, <1>15, <1>16, <1>17, <1>18, <1>19, <1>20, <1>21, <1>22 DEF Decide

LEMMA RuntimeReturnsIsSerial ==
  ASSUME OneAtATime, IInv, SerialInv, NEW s \in Slots, NEW e \in EnvIds, RuntimeReturns(s, e)
  PROVE  SerialInv'
<1> DEFINE r == req[s]
<1>1. /\ TypeOK /\ r \in Request /\ Good(r, envs, now) /\ Told(r, envs, idem, now) /\ Fresh(r, envs)
      /\ r.stage = "runtime" /\ Exists(r.held[e]) /\ Kept(envs, idem, now)
  BY DEF IInv, TypeOK, SerialInv, RuntimeReturns
<1> PICK to : to = IF r.op = "start" /\ r.held[e].status = "PROVISIONING" THEN "READY" ELSE Goal[r.op]
  OBVIOUS
<1> PICK at : at = IF r.op = "sweep" THEN r.at ELSE now
  OBVIOUS
<1> PICK q : q = [r EXCEPT !.stage = "write", !.env = e, !.to = to, !.at = at]
  OBVIOUS
<1>2. Become(s, q) /\ UNCHANGED <<envs, idem, now>>
  BY DEF RuntimeReturns
<1>3. /\ q.stage = "write" /\ q.held = r.held /\ q.op = r.op /\ q.env = e /\ q.to = to /\ q.at = at
  BY <1>1 DEF Request
<1>4. r.op \in DOMAIN Goal
  BY <1>1 DEF Good, WellStaged
<1>5. NotBehind(q, envs)
  <2>1. envs[e].lastActivityAt <= now
    BY <1>1 DEF Good, Copies, Kept
  <2>2. r.op = "sweep" => ~Slides(r.op, to)
    BY DEF Slides, Goal
  <2> QED BY <1>3, <2>1, <2>2 DEF NotBehind
<1>6. Listed(q, envs)
  BY <1>1, <1>3 DEF Told, Listed
<1>7. Achieved(q) /\ Counted(q, envs) /\ Retried(q, envs, idem, now)
  BY <1>3, <1>4 DEF Achieved, Counted, Retried, Goal
<1>8. Fresh(q, envs)
  BY <1>1, <1>3 DEF Fresh
<1> QED BY <1>1, <1>2, <1>5, <1>6, <1>7, <1>8, LocalSerialStep DEF Told

(* A user's rows change only by an insert.                                 *)
LEMMA KeptByUpdate ==
  ASSUME TypeOK, NEW rows, NEW t, Kept(rows, idem, t),
         NEW new, NEW id \in EnvIds, Exists(rows[id]), Exists(new[id]),
         new[id].user = rows[id].user, new[id].lastActivityAt <= t,
         rows[id].status = "DESTROYED" => new[id].status = "DESTROYED",
         \A e \in EnvIds \ {id} : new[e] = rows[e]
  PROVE  Kept(new, idem, t)
<1>1. \A u \in Users : Retained(new, u) \subseteq Retained(rows, u)
  BY DEF Retained
<1>2. ASSUME NEW u \in Users
      PROVE  IsFiniteSet(Retained(new, u)) /\ Cardinality(Retained(new, u)) <= MaxTotal
  <2>1. IsFiniteSet(Retained(rows, u)) /\ Cardinality(Retained(rows, u)) <= MaxTotal
    BY DEF Kept
  <2>2. IsFiniteSet(Retained(new, u)) /\ Cardinality(Retained(new, u)) <= Cardinality(Retained(rows, u))
    BY <1>1, <2>1, FS_Subset
  <2>3. Cardinality(Retained(new, u)) \in Nat /\ Cardinality(Retained(rows, u)) \in Nat
    BY <2>1, <2>2, FS_CardinalityType
  <2> QED BY <2>1, <2>2, <2>3, PolicyAssumption
<1>3. \A u \in Users, k \in Keys : idem[u][k].id # NoId => Owns(new, idem[u][k].id, u)
  <2>1. \A u \in Users, k \in Keys : idem[u][k].id \in EnvIds \cup {NoId}
    BY DEF TypeOK, IdemEntry
  <2>2. \A e \in EnvIds : \A u : Owns(rows, e, u) => Owns(new, e, u)
    BY DEF Owns
  <2> QED BY <2>1, <2>2 DEF Kept
<1>4. \A e \in EnvIds : Exists(new[e]) => new[e].lastActivityAt <= t
  BY DEF Kept
<1> QED BY <1>2, <1>3, <1>4 DEF Kept

LEMMA TransitionIsSerial ==
  ASSUME OneAtATime, IInv, AllLawful, SerialInv, NEW s \in Slots, Transition(s)
  PROVE  SerialInv'
<1> DEFINE r == req[s]
<1>1. /\ TypeOK /\ r \in Request /\ Good(r, envs, now) /\ Told(r, envs, idem, now) /\ Fresh(r, envs)
      /\ Lawful(r) /\ r.stage = "write" /\ Kept(envs, idem, now) /\ envs \in [EnvIds -> Row]
      /\ r.held \in [EnvIds -> Row] /\ r.at \in Nat /\ r.at <= now /\ now \in Nat
  BY DEF IInv, TypeOK, SerialInv, Transition, AllLawful, Request, Good, WellStaged
<1>2. /\ r.env \in EnvIds /\ Exists(r.held[r.env]) /\ Exists(envs[r.env]) /\ r.op \in DOMAIN Goal
      /\ r.held[r.env] = envs[r.env] /\ envs[r.env] \in Row /\ r.to \in Statuses
  BY <1>1 DEF Good, WellStaged, Fresh, Copies, Request
<1> PICK row : row = Patched(envs[r.env], r.op, r.to, r.at, r.held[r.env].createdAt)
  OBVIOUS
<1> PICK held : held = IF r.op = "sweep" THEN Rest(r) ELSE [r.held EXCEPT ![r.env] = row]
  OBVIOUS
<1> PICK stage : stage = IF r.to = Goal[r.op] /\ (r.op = "sweep" => Rest(r) = Nothing)
                         THEN "done" ELSE "runtime"
  OBVIOUS
<1> PICK at : at = IF r.op = "sweep" THEN r.at ELSE 0
  OBVIOUS
<1> PICK q : q = [r EXCEPT !.stage = stage, !.at = at, !.held = held]
  OBVIOUS
<1>3. Become(s, q) /\ idem' = idem /\ now' = now
  BY DEF Transition
<1>4. envs' = [envs EXCEPT ![r.env] = row] /\ Lifecycle!CanTransition(envs[r.env].status, r.to)
  BY <1>2 DEF Transition
<1>5. /\ row.status = r.to /\ row.user = envs[r.env].user
      /\ row.lastActivityAt = IF Slides(r.op, r.to) THEN r.at ELSE envs[r.env].lastActivityAt
  <2>1. r.at \in Nat /\ envs[r.env] \in Row
    BY <1>1, <1>2
  <2> QED BY <2>1 DEF Patched, Slid, Row
<1>6. q.stage = stage /\ q.held = held /\ q.op = r.op /\ q.env = r.env /\ q.at = at
  BY <1>1 DEF Request
<1>7. \A e \in EnvIds : /\ envs'[e] = IF e = r.env THEN row ELSE envs[e]
                        /\ held[e] = IF e # r.env THEN r.held[e]
                                     ELSE IF r.op = "sweep" THEN NoRow ELSE row
  BY <1>1, <1>2, <1>4 DEF Rest
<1>8. Kept(envs', idem', now')
  <2>1. row.lastActivityAt <= now
    BY <1>1, <1>2, <1>5 DEF Kept
  <2>2. Exists(row)
    BY <1>2, <1>5, StatusNames DEF Exists
  <2>3. envs[r.env].status # "DESTROYED"
    BY <1>1, <1>2 DEF Good, WellStaged
  <2>4. PICK id \in EnvIds : id = r.env
    BY <1>2
  <2>5. PICK new : new = envs'
    OBVIOUS
  <2>6. /\ Exists(envs[id]) /\ Exists(new[id]) /\ new[id].user = envs[id].user
        /\ new[id].lastActivityAt <= now /\ envs[id].status # "DESTROYED"
        /\ \A e \in EnvIds \ {id} : new[e] = envs[e]
    BY <1>2, <1>5, <1>7, <2>1, <2>2, <2>3, <2>4, <2>5
  <2>7. Kept(new, idem, now)
    BY <1>1, <2>6, KeptByUpdate
  <2> QED BY <1>3, <2>5, <2>7
<1>9. Fresh(q, envs')
  <2> SUFFICES ASSUME NEW e \in EnvIds, Exists(held[e]) PROVE held[e] = envs'[e]
    BY <1>6 DEF Fresh
  <2>1. CASE e = r.env
    BY <1>7, <2>1, NoRowType
  <2>2. CASE e # r.env
    BY <1>1, <1>7, <2>2 DEF Fresh
  <2> QED BY <2>1, <2>2
<1>10. Achieved(q)
  <2>1. ASSUME r.op # "sweep", NEW e \in EnvIds, Exists(held[e]) PROVE held[e] = row
    BY <1>1, <1>7, <2>1 DEF Lawful
  <2>2. stage \in {"done", "runtime"} /\ (stage = "done" => r.to = Goal[r.op])
    OBVIOUS
  <2>3. ASSUME stage = "done", r.op # "sweep", NEW e \in EnvIds, Exists(held[e])
        PROVE  held[e].status = Goal[r.op]
    BY <1>5, <2>1, <2>2, <2>3
  <2> QED BY <1>6, <2>2, <2>3 DEF Achieved
<1>11. Listed(q, envs')
  <2> SUFFICES ASSUME r.op = "sweep" PROVE Listed(q, envs')
    BY <1>6 DEF Listed
  <2>1. r.to = "TIMEOUT" /\ at = r.at /\ held = Rest(r)
    BY <1>1 DEF Lawful, Goal
  <2>2. row.status \notin Live
    BY <1>5, <2>1 DEF Live, Lifecycle!LiveStatuses
  <2>3. \A e \in EnvIds : envs[e].status \in Live /\ IsExpired(envs[e], r.at) => Exists(r.held[e])
    BY <1>1 DEF Told, Listed
  <2>4. stage = "done" => held = Nothing
    BY <2>1
  <2> QED BY <1>6, <1>7, <2>1, <2>2, <2>3, <2>4 DEF Listed
<1>12. NotBehind(q, envs') /\ Counted(q, envs') /\ Retried(q, envs', idem', now')
  BY <1>2, <1>6 DEF NotBehind, Counted, Retried, Goal
<1> QED BY <1>1, <1>3, <1>8, <1>9, <1>10, <1>11, <1>12, SerialStep DEF Told

LEMMA SlideIsSerial ==
  ASSUME OneAtATime, IInv, SerialInv, NEW s \in Slots, Slide(s)
  PROVE  SerialInv'
<1> DEFINE r == req[s]
<1>1. /\ TypeOK /\ r \in Request /\ Good(r, envs, now) /\ Told(r, envs, idem, now) /\ Fresh(r, envs)
      /\ r.stage = "slide" /\ Kept(envs, idem, now) /\ envs \in [EnvIds -> Row]
      /\ r.held \in [EnvIds -> Row] /\ r.at \in Nat /\ r.at <= now /\ now \in Nat
  BY DEF IInv, TypeOK, SerialInv, Slide, Request, Good, WellStaged
<1>2. /\ r.env \in EnvIds /\ Exists(envs[r.env]) /\ envs[r.env] \in Row /\ r.op = "touch"
  BY <1>1 DEF Good, WellStaged, Copies, Told, Achieved
<1> PICK row : row = Slid(envs[r.env], r.at, r.held[r.env].createdAt)
  OBVIOUS
<1> PICK held : held = [r.held EXCEPT ![r.env] = row]
  OBVIOUS
<1> PICK q : q = [r EXCEPT !.stage = "done", !.at = 0, !.held = held]
  OBVIOUS
<1>3. Become(s, q) /\ idem' = idem /\ now' = now /\ envs' = [envs EXCEPT ![r.env] = row]
  BY DEF Slide
<1>4. row.status = envs[r.env].status /\ row.user = envs[r.env].user /\ row.lastActivityAt = r.at
  BY <1>2 DEF Slid, Row
<1>5. q.stage = "done" /\ q.held = held /\ q.op = "touch"
  BY <1>1, <1>2 DEF Request
<1>6. \A e \in EnvIds : /\ envs'[e] = IF e = r.env THEN row ELSE envs[e]
                        /\ held[e] = IF e = r.env THEN row ELSE r.held[e]
  BY <1>1, <1>2, <1>3
<1>7. Kept(envs', idem', now')
  <2>1. PICK id \in EnvIds : id = r.env
    BY <1>2
  <2>2. PICK new : new = envs'
    OBVIOUS
  <2>3. /\ Exists(envs[id]) /\ Exists(new[id]) /\ new[id].user = envs[id].user
        /\ new[id].lastActivityAt <= now /\ new[id].status = envs[id].status
        /\ \A e \in EnvIds \ {id} : new[e] = envs[e]
    BY <1>1, <1>2, <1>4, <1>6, <2>1, <2>2 DEF Exists
  <2>4. Kept(new, idem, now)
    BY <1>1, <2>3, KeptByUpdate
  <2> QED BY <1>3, <2>2, <2>4
<1>8. Fresh(q, envs')
  <2> SUFFICES ASSUME NEW e \in EnvIds, Exists(held[e]) PROVE held[e] = envs'[e]
    BY <1>5 DEF Fresh
  <2>1. CASE e = r.env
    BY <1>6, <2>1
  <2>2. CASE e # r.env
    BY <1>1, <1>6, <2>2 DEF Fresh
  <2> QED BY <2>1, <2>2
<1>9. Told(q, envs', idem', now')
  BY <1>5 DEF Told, Achieved, NotBehind, Listed, Counted, Retried
<1> QED BY <1>1, <1>3, <1>7, <1>8, <1>9, SerialStep

LEMMA InsertIsSerial ==
  ASSUME OneAtATime, IInv, SerialInv, NEW s \in Slots, NEW e \in EnvIds, Insert(s, e)
  PROVE  SerialInv'
<1> DEFINE r == req[s]
<1>1. /\ TypeOK /\ r \in Request /\ Good(r, envs, now) /\ Told(r, envs, idem, now)
      /\ r.stage = "insert" /\ Kept(envs, idem, now) /\ envs \in [EnvIds -> Row]
      /\ r.at \in Nat /\ r.at <= now /\ now \in Nat /\ ~Exists(envs[e])
      /\ idem \in [Users -> [Keys -> IdemEntry]]
  BY DEF IInv, TypeOK, SerialInv, Insert, Request, Good, WellStaged
<1>2. /\ r.op = "create" /\ r.actor \in Users /\ Cardinality(Retained(envs, r.actor)) < MaxTotal
  BY <1>1 DEF Good, WellStaged, Told, Retried, Counted
<1> PICK row : row = [status |-> "REQUESTED", user |-> r.actor, createdAt |-> now, lastActivityAt |-> r.at,
                      expiresAt |-> CappedExpiry(r.at, r.at), started |-> FALSE, destroyed |-> FALSE,
                      mintedWith |-> r.key]
  OBVIOUS
<1> PICK held : held = [Nothing EXCEPT ![e] = row]
  OBVIOUS
<1> PICK q : q = [r EXCEPT !.stage = "minted", !.at = 0, !.env = e, !.held = held]
  OBVIOUS
<1>3. Become(s, q) /\ idem' = idem /\ now' = now /\ envs' = [envs EXCEPT ![e] = row]
  BY DEF Insert
<1>4. Exists(row) /\ row.status # "DESTROYED" /\ row.user = r.actor /\ row.lastActivityAt = r.at
  BY DEF Exists
<1>5. q.stage = "minted" /\ q.held = held /\ q.op = "create" /\ q.env = e /\ q.actor = r.actor
  BY <1>1, <1>2 DEF Request
<1>6. \A f \in EnvIds : /\ envs'[f] = IF f = e THEN row ELSE envs[f]
                        /\ Exists(held[f]) => f = e
                        /\ held[e] = row
  BY <1>1, <1>3, IdleType, NothingIsEmpty
<1>7. Kept(envs', idem', now')
  <2>1. ASSUME NEW u \in Users
        PROVE  IsFiniteSet(Retained(envs', u)) /\ Cardinality(Retained(envs', u)) <= MaxTotal
    <3>1. IsFiniteSet(Retained(envs, u)) /\ Cardinality(Retained(envs, u)) <= MaxTotal
      BY <1>1 DEF Kept
    <3>2. CASE u # r.actor
      <4>1. Retained(envs', u) = Retained(envs, u)
        BY <1>1, <1>4, <1>6, <3>2 DEF Retained
      <4> QED BY <3>1, <4>1
    <3>3. CASE u = r.actor
      <4>1. Retained(envs', u) = Retained(envs, u) \cup {e} /\ e \notin Retained(envs, u)
        <5>1. envs'[e].user = u /\ Exists(envs'[e]) /\ envs'[e].status # "DESTROYED"
          BY <1>4, <1>6, <3>3
        <5>2. \A f \in EnvIds : f # e => envs'[f] = envs[f]
          BY <1>6
        <5>3. ~Exists(envs[e])
          BY <1>1
        <5> QED BY <5>1, <5>2, <5>3 DEF Retained
      <4>2. /\ IsFiniteSet(Retained(envs, u) \cup {e})
            /\ Cardinality(Retained(envs, u) \cup {e}) = Cardinality(Retained(envs, u)) + 1
        BY <3>1, <4>1, FS_AddElement
      <4>3. Cardinality(Retained(envs, u)) \in Nat
        BY <3>1, FS_CardinalityType
      <4> QED BY <1>2, <3>3, <4>1, <4>2, <4>3, PolicyAssumption
    <3> QED BY <3>2, <3>3
  <2>2. \A u \in Users, k \in Keys : idem[u][k].id # NoId => Owns(envs', idem[u][k].id, u)
    <3>1. \A u \in Users, k \in Keys : idem[u][k].id \in EnvIds \cup {NoId}
      BY <1>1 DEF IdemEntry
    <3>2. \A u \in Users, f \in EnvIds : Owns(envs, f, u) => Owns(envs', f, u)
      BY <1>1, <1>6 DEF Owns
    <3> QED BY <1>1, <3>1, <3>2 DEF Kept
  <2>3. \A f \in EnvIds : Exists(envs'[f]) => envs'[f].lastActivityAt <= now
    BY <1>1, <1>4, <1>6 DEF Kept
  <2> QED BY <1>3, <2>1, <2>2, <2>3 DEF Kept
<1>8. Fresh(q, envs')
  BY <1>5, <1>6 DEF Fresh
<1>9. Told(q, envs', idem', now')
  <2>1. Owns(q.held, q.env, q.actor)
    BY <1>4, <1>5, <1>6 DEF Owns
  <2> QED BY <1>2, <1>5, <2>1 DEF Told, Achieved, NotBehind, Listed, Counted, Retried
<1> QED BY <1>1, <1>3, <1>7, <1>8, <1>9, SerialStep

(* The key is remembered with a row of its user.                           *)
LEMMA MintedIsSerial ==
  ASSUME OneAtATime, IInv, SerialInv, NEW s \in Slots, Minted(s)
  PROVE  SerialInv'
<1> DEFINE r == req[s]
<1>1. /\ TypeOK /\ r \in Request /\ Good(r, envs, now) /\ Told(r, envs, idem, now) /\ Fresh(r, envs)
      /\ r.stage = "minted" /\ Kept(envs, idem, now) /\ idem \in [Users -> [Keys -> IdemEntry]]
  BY DEF IInv, TypeOK, SerialInv, Minted
<1>2. /\ r.op = "create" /\ r.actor \in Users /\ r.env \in EnvIds
      /\ Owns(envs, r.env, r.actor)
  BY <1>1 DEF Good, WellStaged, Told, Retried, Owns, Fresh
<1> PICK q : q = [r EXCEPT !.stage = "done"]
  OBVIOUS
<1> PICK entry : entry = [id |-> r.env, expiresAt |-> now + IdemTtl]
  OBVIOUS
<1>3. /\ Become(s, q) /\ envs' = envs /\ now' = now
      /\ idem' = IF r.key \in Keys THEN [idem EXCEPT ![r.actor][r.key] = entry] ELSE idem
  BY DEF Minted
<1>4. q.stage = "done" /\ q.held = r.held /\ q.op = "create" /\ q.actor = r.actor
  BY <1>1, <1>2 DEF Request
<1>5. \A u \in Users, k \in Keys :
        idem'[u][k] = idem[u][k] \/ (u = r.actor /\ idem'[u][k].id = r.env)
  BY <1>1, <1>3
<1>6. Kept(envs', idem', now')
  BY <1>1, <1>2, <1>3, <1>5 DEF Kept
<1>7. Fresh(q, envs')
  BY <1>1, <1>3, <1>4 DEF Fresh
<1>8. Told(q, envs', idem', now')
  BY <1>2, <1>4 DEF Told, Achieved, NotBehind, Listed, Counted, Retried
<1> QED BY <1>1, <1>3, <1>6, <1>7, <1>8, SerialStep

(* A call that ends, one way or another, holds nothing.                    *)
LEMMA EndIsSerial ==
  ASSUME OneAtATime, IInv, SerialInv, NEW s \in Slots,
         IllegalTransition(s) \/ Reply(s) \/ Abort(s)
  PROVE  SerialInv'
<1> DEFINE r == req[s]
<1>1. TypeOK /\ r \in Request /\ Good(r, envs, now) /\ Fresh(r, envs)
  BY DEF IInv, TypeOK, SerialInv
<1>2. CASE Reply(s) \/ Abort(s)
  <2>1. Idle.held = Nothing /\ Idle.stage = "idle" /\ Retried(Idle, envs, idem, now)
    BY DEF Idle, Retried
  <2>2. Fresh(Idle, envs) /\ Told(Idle, envs, idem, now)
    BY <2>1, EmptyHanded
  <2> QED BY <1>1, <1>2, <2>2, LocalSerialStep DEF Reply, Abort
<1>3. CASE IllegalTransition(s)
  <2> PICK q : q = [r EXCEPT !.stage = "illegal"]
    OBVIOUS
  <2>1. q.stage = "illegal" /\ q.held = r.held /\ q.op = r.op
    BY <1>1 DEF Request
  <2>2. r.op # "create"
    BY <1>1, <1>3 DEF IllegalTransition, Good, WellStaged, Goal
  <2>3. Fresh(q, envs) /\ Told(q, envs, idem, now)
    BY <1>1, <2>1, <2>2 DEF Fresh, Told, Achieved, NotBehind, Listed, Counted, Retried
  <2> QED BY <1>1, <1>3, <2>3, LocalSerialStep DEF IllegalTransition
<1> QED BY <1>2, <1>3

LEMMA RestartIsSerial ==
  ASSUME IInv, SerialInv, Restart
  PROVE  SerialInv'
<1>1. Idle.held = Nothing /\ Idle.stage = "idle" /\ Retried(Idle, envs', idem', now')
  BY DEF Idle, Retried
<1>2. Fresh(Idle, envs') /\ Told(Idle, envs', idem', now')
  BY <1>1, EmptyHanded
<1>3. Kept(envs', idem', now')
  BY DEF SerialInv, Kept, Restart, NoEntries, NoEntry
<1> QED BY <1>2, <1>3 DEF Restart, SerialInv

(* Time that passes only makes a process forget.                           *)
LEMMA TickIsSerial ==
  ASSUME IInv, SerialInv, Tick
  PROVE  SerialInv'
<1>1. now \in Nat /\ now' = now + 1 /\ envs' = envs /\ idem' = idem /\ req' = req
  BY DEF Tick, IInv, TypeOK
<1>2. envs \in [EnvIds -> Row] /\ idem \in [Users -> [Keys -> IdemEntry]]
  BY DEF IInv, TypeOK
<1>3. Kept(envs, idem, now')
  BY <1>1, <1>2 DEF SerialInv, Kept, Row
<1>4. ASSUME NEW s \in Slots PROVE Told(req[s], envs, idem, now')
  <2> PICK r : r = req[s]
    OBVIOUS
  <2>1. Told(r, envs, idem, now)
    BY DEF SerialInv
  <2>2. ASSUME r.actor \in Users, Forgotten(r.actor, r.key, idem, now)
        PROVE  Forgotten(r.actor, r.key, idem, now')
    BY <1>1, <1>2, <2>2 DEF Forgotten, IdemEntry
  <2>3. Retried(r, envs, idem, now')
    BY <2>1, <2>2 DEF Told, Retried
  <2> QED BY <2>1, <2>3 DEF Told
<1> QED BY <1>1, <1>3, <1>4 DEF SerialInv

LEMMA InitIsSerial == Init => SerialInv
<1> SUFFICES ASSUME Init PROVE SerialInv
  OBVIOUS
<1>1. Idle.held = Nothing /\ Idle.stage = "idle" /\ Retried(Idle, envs, idem, now)
  BY DEF Idle, Retried
<1>2. Fresh(Idle, envs) /\ Told(Idle, envs, idem, now)
  BY <1>1, EmptyHanded
<1>3. \A e \in EnvIds : ~Exists(envs[e])
  BY NothingIsEmpty DEF Init
<1>4. ASSUME NEW u \in Users
      PROVE  IsFiniteSet(Retained(envs, u)) /\ Cardinality(Retained(envs, u)) <= MaxTotal
  <2>1. Retained(envs, u) = {}
    BY <1>3 DEF Retained
  <2> QED BY <2>1, FS_EmptySet, PolicyAssumption
<1>5. Kept(envs, idem, now)
  BY <1>3, <1>4 DEF Kept, Init, NoEntries, NoEntry
<1> QED BY <1>2, <1>5 DEF Init, SerialInv

LEMMA NextIsSerial ==
  ASSUME OneAtATime, IInv, AllLawful, SerialInv, [Next]_vars
  PROVE  SerialInv'
<1>1. ASSUME NEW s \in Slots, Progress(s) PROVE SerialInv'
  BY <1>1, ReadIsSerial, DecideIsSerial, RuntimeReturnsIsSerial, TransitionIsSerial, SlideIsSerial,
     InsertIsSerial, MintedIsSerial, EndIsSerial DEF Progress
<1>2. ASSUME NEW s \in Slots, Call(s) \/ Abort(s) PROVE SerialInv'
  BY <1>2, CallIsSerial, EndIsSerial
<1>3. CASE Restart \/ Tick
  BY <1>3, RestartIsSerial, TickIsSerial
<1>4. CASE UNCHANGED vars
  BY <1>4 DEF vars, SerialInv
<1> QED BY <1>1, <1>2, <1>3, <1>4 DEF Next

(* What requests that do not overlap keep, each other's failures included. *)
THEOREM SerialInvariance ==
  ASSUME OneAtATime
  PROVE  Spec => []SerialInv
<1>1. IInv /\ AllLawful /\ SerialInv /\ [Next]_vars => SerialInv'
  BY NextIsSerial
<1> QED BY <1>1, InitIsSerial, Invariance, AlwaysLawful, PTL DEF Spec

(* No user retains more than MAX_TOTAL_ENVIRONMENTS rows: the list a       *)
(* create counts is the table it inserts into.                             *)
THEOREM RetainedIsBounded ==
  ASSUME OneAtATime
  PROVE  Spec => []RetainedBound
<1>1. SerialInv => RetainedBound
  BY DEF SerialInv, Kept, RetainedBound
<1> QED BY <1>1, SerialInvariance, PTL

(* The answer of a call is the row as the table has it, in the status the  *)
(* operation stands for.                                                   *)
THEOREM AnswersWithTheRow ==
  ASSUME OneAtATime
  PROVE  Spec => []AnswerIsTheRow
<1>1. SerialInv => AnswerIsTheRow
  BY DEF SerialInv, Fresh, Told, Achieved, AnswerIsTheRow
<1> QED BY <1>1, SerialInvariance, PTL

(* A sweep that runs to its end leaves no live row that had expired at its *)
(* cutoff (cleanupExpiredEnvironments).                                    *)
THEOREM SweepReclaimsAll ==
  ASSUME OneAtATime
  PROVE  Spec => []SweepReclaims
<1>1. SerialInv => SweepReclaims
  BY NothingIsEmpty DEF SerialInv, Told, Listed, SweepReclaims
<1> QED BY <1>1, SerialInvariance, PTL

-----------------------------------------------------------------------------
(* What a single step does to the table.                                   *)

(* Only three actions write the table.                                     *)
LEMMA OthersLeaveTheTable ==
  ASSUME IInv, [Next]_vars, envs' # envs
  PROVE  \E s \in Slots : Transition(s) \/ Slide(s) \/ \E e \in EnvIds : Insert(s, e)
<1>1. TypeOK /\ req \in [Slots -> Request]
  BY DEF IInv, TypeOK
<1>2. ASSUME NEW s \in Slots, Call(s) \/ Decide(s) PROVE envs' = envs
  BY <1>1, <1>2, CallShape, DecideShape
<1>3. ASSUME NEW s \in Slots,
             \/ Read(s) \/ (\E f \in EnvIds : RuntimeReturns(s, f)) \/ IllegalTransition(s)
             \/ Minted(s) \/ Reply(s) \/ Abort(s)
      PROVE  envs' = envs
  BY <1>3 DEF Read, RuntimeReturns, IllegalTransition, Minted, Reply, Abort
<1>4. ASSUME Restart \/ Tick \/ UNCHANGED vars PROVE envs' = envs
  BY <1>4 DEF Restart, Tick, vars
<1> QED BY <1>2, <1>3, <1>4 DEF Next, Progress

LEMMA LaterActivityLaterExpiry ==
  ASSUME NEW a \in Nat, NEW b \in Nat, NEW born \in Nat, a <= b
  PROVE  CappedExpiry(a, born) <= CappedExpiry(b, born)
BY PolicyAssumption DEF CappedExpiry, Min2

LEMMA ExpiryStep ==
  ASSUME IInv, SerialInv, [Next]_vars, NEW e \in EnvIds, Exists(envs[e])
  PROVE  envs'[e].expiresAt >= envs[e].expiresAt
<1>1. /\ TypeOK /\ envs \in [EnvIds -> Row] /\ req \in [Slots -> Request]
      /\ envs[e] \in Row /\ envs[e].expiresAt \in Nat /\ InWindow(envs[e])
  BY DEF IInv, TypeOK, Row
<1>2. ASSUME NEW at \in Nat, envs[e].lastActivityAt <= at, NEW birth, birth = envs[e].createdAt
      PROVE  CappedExpiry(at, birth) >= envs[e].expiresAt
  <2>1. envs[e].lastActivityAt \in Nat /\ envs[e].createdAt \in Nat
    BY <1>1 DEF Row
  <2>2. CappedExpiry(envs[e].lastActivityAt, birth) <= CappedExpiry(at, birth)
    BY <1>2, <2>1, LaterActivityLaterExpiry
  <2>3. CappedExpiry(at, birth) \in Nat
    BY <1>2, <2>1, CappedExpiryType
  <2> QED BY <1>1, <1>2, <2>2, <2>3 DEF InWindow
<1>3. ASSUME NEW s \in Slots, req[s].stage \in {"write", "slide"}
      PROVE  /\ req[s].env \in EnvIds /\ req[s].at \in Nat
             /\ req[s].env = e => req[s].held[e].createdAt = envs[e].createdAt
             /\ NotBehind(req[s], envs)
  <2>1. req[s] \in Request /\ Good(req[s], envs, now) /\ NotBehind(req[s], envs)
    BY <1>1, <1>3 DEF IInv, SerialInv, Told
  <2> QED BY <1>3, <2>1 DEF Good, WellStaged, Copies, Request
<1>4. ASSUME NEW s \in Slots, Transition(s) PROVE envs'[e].expiresAt >= envs[e].expiresAt
  <2> PICK r : r = req[s]
    OBVIOUS
  <2> PICK row : row = Patched(envs[r.env], r.op, r.to, r.at, r.held[r.env].createdAt)
    OBVIOUS
  <2>1. r.stage = "write" /\ envs' = [envs EXCEPT ![r.env] = row]
    BY <1>4 DEF Transition
  <2>2. CASE r.env # e
    BY <1>1, <2>1, <2>2
  <2>3. CASE r.env = e
    <3>1. /\ r.at \in Nat /\ r.held[e].createdAt = envs[e].createdAt
          /\ Slides(r.op, r.to) => envs[e].lastActivityAt <= r.at
      BY <1>3, <2>1, <2>3 DEF NotBehind
    <3>2. row.expiresAt = IF Slides(r.op, r.to) THEN CappedExpiry(r.at, envs[e].createdAt)
                          ELSE envs[e].expiresAt
      BY <1>1, <2>3, <3>1 DEF Patched, Slid, Row
    <3>3. envs'[e] = row
      BY <1>1, <2>1, <2>3
    <3> QED BY <1>1, <1>2, <3>1, <3>2, <3>3
  <2> QED BY <2>2, <2>3
<1>5. ASSUME NEW s \in Slots, Slide(s) PROVE envs'[e].expiresAt >= envs[e].expiresAt
  <2> PICK r : r = req[s]
    OBVIOUS
  <2> PICK row : row = Slid(envs[r.env], r.at, r.held[r.env].createdAt)
    OBVIOUS
  <2>1. r.stage = "slide" /\ envs' = [envs EXCEPT ![r.env] = row]
    BY <1>5 DEF Slide
  <2>2. CASE r.env # e
    BY <1>1, <2>1, <2>2
  <2>3. CASE r.env = e
    <3>1. r.at \in Nat /\ r.held[e].createdAt = envs[e].createdAt /\ envs[e].lastActivityAt <= r.at
      BY <1>3, <2>1, <2>3 DEF NotBehind
    <3>2. envs'[e].expiresAt = CappedExpiry(r.at, envs[e].createdAt)
      BY <1>1, <2>1, <2>3, <3>1 DEF Slid, Row
    <3> QED BY <1>2, <3>1, <3>2
  <2> QED BY <2>2, <2>3
<1>6. ASSUME NEW s \in Slots, NEW f \in EnvIds, Insert(s, f) PROVE envs'[e] = envs[e]
  BY <1>1, <1>6 DEF Insert
<1>7. CASE envs' = envs
  BY <1>1, <1>7
<1>8. CASE envs' # envs
  BY <1>1, <1>4, <1>5, <1>6, <1>8, OthersLeaveTheTable
<1> QED BY <1>7, <1>8

(* Activity only moves the expiry of a row forward: the instant a handler  *)
(* sampled before its update is not older than the row's last activity.    *)
THEOREM ExpirySlidesForward ==
  ASSUME OneAtATime
  PROVE  Spec => ExpiryOnlySlidesForward
<1>1. IInv /\ SerialInv /\ [Next]_vars =>
        [\A e \in EnvIds : Exists(envs[e]) => envs'[e].expiresAt >= envs[e].expiresAt]_vars
  BY ExpiryStep
<1> QED BY <1>1, Invariance, SerialInvariance, PTL DEF Spec, ExpiryOnlySlidesForward

LEMMA MintStep ==
  ASSUME IInv, SerialInv, [Next]_vars, NEW e \in EnvIds, NEW u \in Users, NEW k \in Keys,
         ~Exists(envs[e]), Exists(envs'[e]), envs'[e].user = u, envs'[e].mintedWith = k
  PROVE  idem[u][k].id = NoId \/ idem[u][k].expiresAt <= now
<1>1. TypeOK /\ envs \in [EnvIds -> Row] /\ req \in [Slots -> Request]
  BY DEF IInv, TypeOK
<1>2. ASSUME NEW s \in Slots, Transition(s) \/ Slide(s) PROVE FALSE
  <2>1. req[s].env \in EnvIds /\ Exists(envs[req[s].env])
    BY <1>1, <1>2 DEF IInv, Good, WellStaged, Copies, Transition, Slide
  <2>2. envs'[e] = envs[e]
    BY <1>1, <1>2, <2>1 DEF Transition, Slide
  <2> QED BY <2>2
<1>3. ASSUME NEW s \in Slots, NEW f \in EnvIds, Insert(s, f)
      PROVE  idem[u][k].id = NoId \/ idem[u][k].expiresAt <= now
  <2> PICK r : r = req[s]
    OBVIOUS
  <2>1. f = e
    BY <1>1, <1>3 DEF Insert
  <2>2. r.stage = "insert" /\ r.actor = u /\ r.key = k
    BY <1>1, <1>3, <2>1 DEF Insert
  <2>3. r.op = "create" /\ Told(r, envs, idem, now) /\ r.at <= now
    BY <2>2 DEF IInv, Good, WellStaged, SerialInv
  <2> QED BY <2>2, <2>3 DEF Told, Retried, Forgotten
<1> QED BY <1>2, <1>3, OthersLeaveTheTable

(* While the process remembers a key of a user, no create of the user with *)
(* that key adds a row: the memory that sent the create to the list cannot *)
(* have learnt the key since.                                              *)
THEOREM RememberedKeysMintNothing ==
  ASSUME OneAtATime
  PROVE  Spec => RememberedKeyMintsNothing
<1>1. IInv /\ SerialInv /\ [Next]_vars =>
        [\A e \in EnvIds, u \in Users, k \in Keys :
           /\ ~Exists(envs[e]) /\ Exists(envs'[e])
           /\ envs'[e].user = u /\ envs'[e].mintedWith = k
           => idem[u][k].id = NoId \/ idem[u][k].expiresAt <= now]_vars
  BY MintStep
<1> QED BY <1>1, Invariance, SerialInvariance, PTL DEF Spec, RememberedKeyMintsNothing

-----------------------------------------------------------------------------
(* The refinement.                                                         *)

LEMMA MoveIsAStep ==
  ASSUME NEW e \in EnvIds, NEW to \in Statuses, Lifecycle!Move(e, to)
  PROVE  Lifecycle!Next
BY Zenon DEF Lifecycle!Next, Statuses

(* Every step creates a row, takes an edge of the table, or stutters.      *)
LEMMA NextRefines ==
  ASSUME IInv, SerialInv, [Next]_vars
  PROVE  [Lifecycle!Next]_StatusColumn
<1>1. TypeOK /\ req \in [Slots -> Request] /\ envs \in [EnvIds -> Row]
  BY DEF IInv, TypeOK
<1>2. ASSUME NEW s \in Slots, Transition(s) PROVE Lifecycle!Next
  <2> PICK r : r = req[s]
    OBVIOUS
  <2> PICK row : row = Patched(envs[r.env], r.op, r.to, r.at, r.held[r.env].createdAt)
    OBVIOUS
  <2>1. /\ r \in Request /\ r.stage = "write" /\ r.env \in EnvIds /\ Exists(r.held[r.env])
        /\ r.to \in Statuses /\ r.at \in Nat /\ InWindow(envs[r.env])
    BY <1>1, <1>2 DEF Transition, IInv, Good, WellStaged, Request
  <2>2. r.held[r.env] = envs[r.env] /\ envs[r.env] \in Row
    BY <1>1, <2>1 DEF SerialInv, Fresh
  <2>3. row.status = r.to
    BY <2>2 DEF Patched, Slid, Row
  <2>4. StatusColumn' = [StatusColumn EXCEPT ![r.env] = r.to]
    BY <1>1, <1>2, <2>1, <2>3 DEF Transition, StatusColumn
  <2>5. Lifecycle!CanTransition(StatusColumn[r.env], r.to) /\ StatusColumn[r.env] \in Statuses
    BY <1>2, <2>1, <2>2 DEF Transition, StatusColumn, Exists, Row
  <2>6. PICK e \in EnvIds, to \in Statuses : e = r.env /\ to = r.to
    BY <2>1
  <2>7. Lifecycle!Move(e, to)
    BY <2>4, <2>5, <2>6 DEF Lifecycle!Move, StatusColumn, Statuses
  <2> QED BY <2>7, MoveIsAStep
<1>3. ASSUME NEW s \in Slots, NEW e \in EnvIds, Insert(s, e) PROVE Lifecycle!Next
  <2>1. Lifecycle!Create(e)
    BY <1>1, <1>3 DEF Insert, Exists, Lifecycle!Create
  <2> QED BY <2>1 DEF Lifecycle!Next
<1>4. ASSUME NEW s \in Slots, Slide(s) PROVE UNCHANGED StatusColumn
  BY <1>1, <1>4 DEF Slide, Slid, StatusColumn, Row
<1>5. CASE envs' = envs
  BY <1>5 DEF StatusColumn
<1> QED BY <1>2, <1>3, <1>4, <1>5, OthersLeaveTheTable

LEMMA InitRefines == Init => Lifecycle!Init
BY DEF Init, Lifecycle!Init, Nothing, NoRow

(* Requests that do not overlap move every row along the edges of the      *)
(* transition table, whatever fails half way.                              *)
THEOREM ServiceImplementsLifecycle ==
  ASSUME OneAtATime
  PROVE  Spec => ImplementsLifecycle
<1>1. IInv /\ SerialInv /\ [Next]_vars => [Lifecycle!Next]_StatusColumn
  BY NextRefines
<1> QED BY <1>1, InitRefines, Invariance, SerialInvariance, PTL
        DEF Spec, ImplementsLifecycle, Lifecycle!Spec, StatusColumn
=============================================================================
