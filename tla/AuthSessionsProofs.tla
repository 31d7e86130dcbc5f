------------------------- MODULE AuthSessionsProofs -------------------------
(***************************************************************************)
(* Theorems about AuthSessions, for every number of users, sessions and    *)
(* requests in flight, and every lifetime of a session.                    *)
(*                                                                         *)
(* The argument is that death is final: a session that can admit nobody    *)
(* never becomes able to again (TablesGrow), so a request that arrived     *)
(* with a dead session still has one when it looks it up, and what it      *)
(* looked up is still enough to refuse it when it checks (Honest).         *)
(***************************************************************************)
EXTENDS AuthSessions, TLAPS

(* Dead, as a function of the tables and the clock.                        *)
DeadIn(c, U, S, t) ==
  \/ S[c].state # "stored" \/ S[c].revokedAt # NotRevoked
  \/ S[c].expiresAt <= t \/ U[S[c].user] # "active"

(* What a request that carries a cookie knows at each stage.               *)
Honest(r, U, S, t) ==
  r.op \in {"visit", "logout"} =>
    /\ r.stage \notin {"find", "verify", "create", "issue", "insert"}
    /\ r.stage \in {"lookup", "check", "touch", "logout", "revoke", "error"} =>
         r.session \in Sessions /\ S[r.session].state # "free"
    /\ r.dead /\ r.stage = "lookup" => DeadIn(r.session, U, S, t)
    /\ r.dead /\ r.stage = "check" =>
         r.copy.revokedAt # NotRevoked \/ r.copy.expiresAt <= t \/ r.found # "active"
    /\ r.stage \in {"touch", "logout", "revoke", "done"} => ~r.dead
    /\ r.stage = "error" => S[r.session].state = "deleted" /\ ~r.dead

(* What any request knows.                                                 *)
Placed(r, U, S, t) ==
  /\ r.at <= t
  /\ r.stage \in {"find", "verify", "create", "issue", "insert"} => r.user \in Users
  /\ r.stage = "verify" /\ r.found # "none" => U[r.user] # "none"
  /\ r.stage \in {"issue", "insert"} => U[r.user] # "none"
  /\ r.stage = "sweep" => r.op = "cleanup"
  /\ r.stage \in {"lookup", "check", "touch", "logout", "revoke"} => r.op \in {"visit", "logout"}
  /\ r.stage = "done" /\ r.op \in {"register", "login"} =>
       r.user \in Users /\ r.session \in Sessions /\ S[r.session].state # "free"

Good(r, U, S, t) == Honest(r, U, S, t) /\ Placed(r, U, S, t)

(* The Session table agrees with the User table and the clock.             *)
TablesOK ==
  \A c \in Sessions :
    /\ sessions[c].state = "free" => sessions[c].revokedAt = NotRevoked
    /\ sessions[c].state # "free" =>
         sessions[c].user \in Users /\ users[sessions[c].user] # "none"
    /\ sessions[c].state = "deleted" => sessions[c].expiresAt <= now
    /\ c \in cookies => sessions[c].state # "free"

(* The inductive invariant.                                                *)
AInv == TypeOK /\ TablesOK /\ \A s \in Slots : Good(req[s], users, sessions, now)

(* No step revives a session: its user, expiry and revocation stand.       *)
TablesGrow ==
  /\ now <= now'
  /\ \A u \in Users : /\ users[u] # "none" => users'[u] # "none"
                      /\ users[u] = "inactive" => users'[u] = "inactive"
  /\ \A c \in Sessions :
       /\ sessions[c].state # "free" => /\ sessions'[c].state # "free"
                                        /\ sessions'[c].user = sessions[c].user
                                        /\ sessions'[c].expiresAt = sessions[c].expiresAt
       /\ sessions[c].revokedAt # NotRevoked => sessions'[c].revokedAt = sessions[c].revokedAt
       /\ sessions[c].state = "deleted" => sessions'[c] = sessions[c]

-----------------------------------------------------------------------------

LEMMA IdleIsGood ==
  Idle \in Request /\ (now \in Nat => Good(Idle, users, sessions, now))
BY NameAssumption DEF Idle, Free, Request, Row, Ops, Stages, NotRevoked, Good, Honest, Placed

LEMMA RequestFields ==
  ASSUME NEW r \in Request
  PROVE  /\ r.stage \in Stages /\ r.op \in Ops /\ r.user \in Users \cup {NoUser}
         /\ r.found \in {"none", "active", "inactive"} /\ r.session \in Sessions \cup {NoSession}
         /\ r.copy \in Row /\ r.at \in Nat /\ r.dead \in BOOLEAN
BY DEF Request

LEMMA InitAInv == Init => AInv
<1> SUFFICES ASSUME Init PROVE AInv
  OBVIOUS
<1>1. Free \in Row
  BY DEF Free, Row, NotRevoked
<1>2. TypeOK
  BY <1>1, IdleIsGood, TtlAssumption DEF Init, TypeOK, Free
<1>3. TablesOK
  BY DEF Init, TablesOK, Free
<1> QED BY <1>2, <1>3, IdleIsGood DEF Init, AInv

(* What a request knows survives the steps of the others.                  *)
LEMMA GoodIsStable ==
  ASSUME AInv, TablesGrow, TypeOK', NEW r \in Request, Good(r, users, sessions, now)
  PROVE  Good(r, users', sessions', now')
<1>1. /\ now \in Nat /\ now' \in Nat /\ r.at \in Nat
      /\ \A c \in Sessions : sessions[c] \in Row /\ sessions'[c] \in Row
      /\ \A u \in Users : users[u] \in {"none", "active", "inactive"}
  BY RequestFields, TtlAssumption DEF AInv, TypeOK
<1>2. \A c \in Sessions : sessions[c].expiresAt \in Nat /\ sessions'[c].expiresAt \in Nat
  BY <1>1 DEF Row
<1>3. r.copy.expiresAt \in Nat
  BY RequestFields DEF Row
<1>4. Placed(r, users', sessions', now')
  BY <1>1 DEF Good, Placed, TablesGrow
<1>5. ASSUME NEW c \in Sessions, sessions[c].state # "free", DeadIn(c, users, sessions, now)
      PROVE  DeadIn(c, users', sessions', now')
  <2>1. sessions[c].user \in Users /\ users[sessions[c].user] # "none"
    BY <1>5 DEF AInv, TablesOK
  <2>2. CASE sessions[c].state = "deleted"
    BY <2>2 DEF TablesGrow, DeadIn
  <2>3. CASE sessions[c].revokedAt # NotRevoked
    BY <2>3 DEF TablesGrow, DeadIn
  <2>4. CASE sessions[c].expiresAt <= now
    BY <1>1, <1>2, <1>5, <2>4 DEF TablesGrow, DeadIn
  <2>5. CASE users[sessions[c].user] # "active"
    BY <1>1, <1>5, <2>1, <2>5 DEF TablesGrow, DeadIn
  <2> QED BY <1>1, <1>5, <2>2, <2>3, <2>4, <2>5 DEF DeadIn, Row
<1>6. Honest(r, users', sessions', now')
  BY <1>1, <1>3, <1>5 DEF Good, Honest, TablesGrow
<1> QED BY <1>4, <1>6 DEF Good

(* A step of one request keeps the invariant if it revives no session and  *)
(* leaves the request good.                                                *)
LEMMA SlotStep ==
  ASSUME AInv, NEW s \in Slots, NEW r \in Request, Become(s, r), TablesGrow, TypeOK', TablesOK',
         Good(r, users', sessions', now')
  PROVE  AInv'
<1>1. req \in [Slots -> Request]
  BY DEF AInv, TypeOK
<1>2. req'[s] = r /\ \A t \in Slots \ {s} : req'[t] = req[t]
  BY <1>1 DEF Become
<1>3. ASSUME NEW t \in Slots \ {s} PROVE Good(req[t], users', sessions', now')
  BY <1>1, GoodIsStable DEF AInv
<1> QED BY <1>2, <1>3 DEF AInv

(* The same for a step that touches no table.                              *)
LEMMA QuietStep ==
  ASSUME AInv, NEW s \in Slots, NEW r \in Request, Become(s, r),
         UNCHANGED <<users, sessions, cookies, now, welcomed>>, Good(r, users, sessions, now)
  PROVE  AInv' /\ TablesGrow
<1>1. now \in Nat
  BY TtlAssumption DEF AInv, TypeOK
<1>2. TablesGrow
  BY <1>1 DEF TablesGrow
<1>3. TypeOK' /\ TablesOK'
  BY DEF AInv, TypeOK, TablesOK, Become
<1> QED BY <1>2, <1>3, SlotStep

-----------------------------------------------------------------------------

LEMMA ArrivalKeepsAInv ==
  ASSUME AInv, NEW s \in Slots,
         \/ \E u \in Users : Register(s, u) \/ (\E right \in BOOLEAN : Login(s, u, right))
         \/ \E c \in Sessions, op \in {"visit", "logout"} : Present(s, c, op)
         \/ Cleanup(s)
  PROVE  AInv' /\ TablesGrow
<1>1. now \in Nat
  BY TtlAssumption DEF AInv, TypeOK
<1>2. ASSUME NEW u \in Users, Register(s, u) PROVE AInv' /\ TablesGrow
  <2> DEFINE r == [Idle EXCEPT !.stage = "find", !.op = "register", !.user = u]
  <2>1. r \in Request
    BY IdleIsGood DEF Request, Stages, Ops
  <2>2. Good(r, users, sessions, now)
    BY <1>1 DEF Idle, Good, Honest, Placed
  <2> QED BY <1>2, <2>1, <2>2, QuietStep DEF Register, Accept
<1>3. ASSUME NEW u \in Users, NEW right \in BOOLEAN, Login(s, u, right) PROVE AInv' /\ TablesGrow
  <2> DEFINE r == [Idle EXCEPT !.stage = "find", !.op = "login", !.user = u, !.password = right]
  <2>1. r \in Request
    BY IdleIsGood DEF Request, Stages, Ops
  <2>2. Good(r, users, sessions, now)
    BY <1>1 DEF Idle, Good, Honest, Placed
  <2> QED BY <1>3, <2>1, <2>2, QuietStep DEF Login, Accept
<1>4. ASSUME NEW c \in Sessions, NEW op \in {"visit", "logout"}, Present(s, c, op)
      PROVE  AInv' /\ TablesGrow
  <2> DEFINE r == [Idle EXCEPT !.stage = "lookup", !.op = op, !.session = c, !.dead = Dead(c)]
  <2>1. Dead(c) \in BOOLEAN
    BY DEF Dead
  <2>2. r \in Request
    BY <2>1, IdleIsGood DEF Request, Stages, Ops
  <2>3. sessions[c].state # "free"
    BY <1>4 DEF AInv, TablesOK, Present
  <2>4. Good(r, users, sessions, now)
    BY <1>1, <2>1, <2>3 DEF Idle, Good, Honest, Placed, Dead, DeadIn
  <2> QED BY <1>4, <2>2, <2>4, QuietStep DEF Present, Accept
<1>5. ASSUME Cleanup(s) PROVE AInv' /\ TablesGrow
  <2> DEFINE r == [Idle EXCEPT !.stage = "sweep", !.op = "cleanup", !.at = now]
  <2>1. r \in Request
    BY <1>1, IdleIsGood DEF Request, Stages, Ops
  <2>2. Good(r, users, sessions, now)
    BY <1>1 DEF Idle, Good, Honest, Placed
  <2> QED BY <1>5, <2>1, <2>2, QuietStep DEF Cleanup, Accept
<1> QED BY <1>2, <1>3, <1>4, <1>5

(* The steps of a request that write no table.                             *)
LEMMA ReadingKeepsAInv ==
  ASSUME AInv, NEW s \in Slots,
         \/ FindUser(s) \/ VerifyRegister(s) \/ VerifyLogin(s) \/ Issue(s)
         \/ LookUp(s) \/ Check(s) \/ Touch(s) \/ Logout(s) \/ Abort(s)
  PROVE  AInv' /\ TablesGrow
<1> DEFINE r == req[s]
<1>1. r \in Request /\ Good(r, users, sessions, now) /\ now \in Nat
  BY TtlAssumption DEF AInv, TypeOK
<1>2. users \in [Users -> {"none", "active", "inactive"}] /\ sessions \in [Sessions -> Row]
  BY DEF AInv, TypeOK
<1>3. ASSUME FindUser(s) PROVE AInv' /\ TablesGrow
  <2> DEFINE q == [r EXCEPT !.stage = "verify", !.found = users[r.user]]
  <2>1. r.stage = "find" /\ r.user \in Users
    BY <1>1, <1>3 DEF FindUser, Good, Placed
  <2>2. q \in Request
    BY <1>1, <1>2, <2>1 DEF Request, Stages
  <2>3. Good(q, users, sessions, now)
    BY <1>1, <2>1 DEF Good, Honest, Placed, Request
  <2> QED BY <1>3, <2>2, <2>3, QuietStep DEF FindUser
<1>4. ASSUME VerifyRegister(s) PROVE AInv' /\ TablesGrow
  <2> DEFINE q == [r EXCEPT !.stage = IF r.found = "none" THEN "create" ELSE "refused"]
  <2>1. q \in Request
    BY <1>1 DEF Request, Stages
  <2>2. Good(q, users, sessions, now)
    BY <1>1, <1>4 DEF VerifyRegister, Good, Honest, Placed, Request
  <2> QED BY <1>4, <2>1, <2>2, QuietStep DEF VerifyRegister, Step
<1>5. ASSUME VerifyLogin(s) PROVE AInv' /\ TablesGrow
  <2> DEFINE stage == IF r.found = "active" /\ r.password THEN "issue" ELSE "refused"
             q == [r EXCEPT !.stage = stage]
  <2>1. stage \in {"issue", "refused"} /\ (stage = "issue" => r.found = "active")
    OBVIOUS
  <2> HIDE DEF stage
  <2>2. q \in Request
    BY <1>1, <2>1 DEF Request, Stages
  <2>3. Good(q, users, sessions, now)
    BY <1>1, <1>5, <2>1 DEF VerifyLogin, Good, Honest, Placed, Request
  <2> USE DEF stage
  <2> QED BY <1>5, <2>2, <2>3, QuietStep DEF VerifyLogin, Step
<1>6. ASSUME Issue(s) PROVE AInv' /\ TablesGrow
  <2> DEFINE q == [r EXCEPT !.stage = "insert", !.at = now]
  <2>1. q \in Request
    BY <1>1 DEF Request, Stages
  <2>2. Good(q, users, sessions, now)
    BY <1>1, <1>6 DEF Issue, Good, Honest, Placed, Request
  <2> QED BY <1>6, <2>1, <2>2, QuietStep DEF Issue
<1>7. ASSUME LookUp(s) PROVE AInv' /\ TablesGrow
  <2> DEFINE row == sessions[r.session]
  <2>1. /\ r.stage = "lookup" /\ r.op \in {"visit", "logout"}
        /\ r.session \in Sessions /\ row.state # "free" /\ row \in Row
    BY <1>1, <1>2, <1>7 DEF LookUp, Good, Honest, Placed
  <2>2. CASE row.state # "stored"
    <3> DEFINE q == [r EXCEPT !.stage = "refused"]
    <3>1. q \in Request /\ Good(q, users, sessions, now)
      BY <1>1, <2>1 DEF Request, Stages, Good, Honest, Placed
    <3> QED BY <1>7, <2>2, <3>1, QuietStep DEF LookUp
  <2>3. CASE row.state = "stored"
    <3> DEFINE q == [r EXCEPT !.stage = "check", !.copy = row,
                              !.user = row.user, !.found = users[row.user]]
    <3>1. row.user \in Users
      BY <2>1 DEF AInv, TablesOK
    <3>2. q \in Request
      BY <1>1, <1>2, <2>1, <3>1 DEF Request, Stages
    <3>3. Good(q, users, sessions, now)
      BY <1>1, <2>1, <2>3 DEF Request, Good, Honest, Placed, DeadIn
    <3> QED BY <1>7, <2>3, <3>2, <3>3, QuietStep DEF LookUp
  <2> QED BY <2>2, <2>3
<1>8. ASSUME Check(s) PROVE AInv' /\ TablesGrow
  <2> DEFINE valid == /\ r.copy.revokedAt = NotRevoked
                      /\ ~Expired(r.copy, now)
                      /\ r.found = "active"
             q == [r EXCEPT !.stage = IF valid THEN "touch" ELSE "refused"]
  <2>1. q \in Request
    BY <1>1 DEF Request, Stages
  <2>2. r.stage = "check" /\ r.op \in {"visit", "logout"}
    BY <1>1, <1>8 DEF Check, Good, Placed
  <2>3. valid => ~r.dead
    BY <1>1, <2>2 DEF Good, Honest, Expired
  <2>4. Good(q, users, sessions, now)
    BY <1>1, <2>2, <2>3 DEF Good, Honest, Placed, Request
  <2> QED BY <1>8, <2>1, <2>4, QuietStep DEF Check, Step
<1>9. ASSUME Touch(s) PROVE AInv' /\ TablesGrow
  <2> DEFINE q == [r EXCEPT !.stage = IF sessions[r.session].state # "stored" THEN "error"
                                      ELSE IF r.op = "logout" THEN "logout" ELSE "done"]
  <2>1. q \in Request
    BY <1>1 DEF Request, Stages
  <2>2. /\ r.stage = "touch" /\ r.op \in {"visit", "logout"} /\ ~r.dead
        /\ r.session \in Sessions /\ sessions[r.session].state # "free"
    BY <1>1, <1>9 DEF Touch, Good, Honest, Placed
  <2>3. sessions[r.session].state \in {"free", "stored", "deleted"}
    BY <1>2, <2>2 DEF Row
  <2>4. Good(q, users, sessions, now)
    BY <1>1, <2>2, <2>3 DEF Good, Honest, Placed, Request
  <2> QED BY <1>9, <2>1, <2>4, QuietStep DEF Touch
<1>10. ASSUME Logout(s) PROVE AInv' /\ TablesGrow
  <2> DEFINE q == [r EXCEPT !.stage = "revoke", !.at = now]
  <2>1. q \in Request
    BY <1>1 DEF Request, Stages
  <2>2. Good(q, users, sessions, now)
    BY <1>1, <1>10 DEF Logout, Good, Honest, Placed, Request
  <2> QED BY <1>10, <2>1, <2>2, QuietStep DEF Logout
<1>11. ASSUME Abort(s) PROVE AInv' /\ TablesGrow
  BY <1>1, <1>11, IdleIsGood, QuietStep DEF Abort
<1> QED BY <1>3, <1>4, <1>5, <1>6, <1>7, <1>8, <1>9, <1>10, <1>11

(* The steps of a request that write a table.                              *)
LEMMA WritingKeepsAInv ==
  ASSUME AInv, NEW s \in Slots,
         \/ CreateUser(s) \/ (\E c \in Sessions : InsertSession(s, c))
         \/ Revoke(s) \/ DeleteExpired(s) \/ Reply(s)
  PROVE  AInv' /\ TablesGrow
<1> DEFINE r == req[s]
<1>0. now' = now
  BY DEF CreateUser, InsertSession, Revoke, DeleteExpired, Reply
<1>1. /\ r \in Request /\ Good(r, users, sessions, now)
      /\ req \in [Slots -> Request] /\ now' = now /\ now \in 0..MaxNow /\ now \in Nat
  BY <1>0, TtlAssumption DEF AInv, TypeOK
<1>2. users \in [Users -> {"none", "active", "inactive"}] /\ sessions \in [Sessions -> Row]
  BY DEF AInv, TypeOK
<1>3. ASSUME CreateUser(s) PROVE AInv' /\ TablesGrow
  <2> DEFINE taken == users[r.user] # "none"
             q == [r EXCEPT !.stage = IF taken THEN "error" ELSE "issue"]
  <2>1. r.stage = "create" /\ r.user \in Users /\ r.op \notin {"visit", "logout"}
    BY <1>1, <1>3 DEF CreateUser, Good, Placed, Honest
  <2>2. q \in Request
    BY <1>1 DEF Request, Stages
  <2>3. /\ users' \in [Users -> {"none", "active", "inactive"}]
        /\ users'[r.user] # "none"
        /\ \A u \in Users : users[u] # "none" => users'[u] = users[u]
    BY <1>2, <1>3, <2>1 DEF CreateUser
  <2>4. TablesGrow
    BY <1>1, <1>3, <2>3 DEF TablesGrow, CreateUser
  <2>5. req' \in [Slots -> Request]
    BY <1>1, <1>3, <2>2 DEF CreateUser, Become
  <2>6. TypeOK' /\ TablesOK'
    BY <1>3, <2>3, <2>5 DEF AInv, TypeOK, TablesOK, CreateUser
  <2>7. Good(q, users', sessions', now')
    BY <1>1, <2>1, <2>3 DEF Good, Honest, Placed, Request
  <2> QED BY <1>3, <2>2, <2>4, <2>6, <2>7, SlotStep DEF CreateUser
<1>4. ASSUME NEW c \in Sessions, InsertSession(s, c) PROVE AInv' /\ TablesGrow
  <2> DEFINE row == [Free EXCEPT !.state = "stored", !.user = r.user, !.expiresAt = Expiry(r.at)]
             q == [r EXCEPT !.stage = "done", !.session = c]
  <2>1. /\ r.stage = "insert" /\ r.user \in Users /\ users[r.user] # "none"
        /\ r.op \notin {"visit", "logout"} /\ r.at \in Nat
    BY <1>1, <1>4 DEF InsertSession, Good, Placed, Honest, Request
  <2>2. q \in Request
    BY <1>1 DEF Request, Stages
  <2>3. Expiry(r.at) \in Nat
    BY <2>1, TtlAssumption DEF Expiry
  <2>4. row \in Row /\ row.state = "stored" /\ row.user = r.user
    BY <2>1, <2>3 DEF Free, Row, NotRevoked
  <2>5. /\ sessions' \in [Sessions -> Row] /\ sessions'[c] = row
        /\ \A d \in Sessions \ {c} : sessions'[d] = sessions[d]
        /\ sessions[c].state = "free" /\ sessions[c].revokedAt = NotRevoked
    BY <1>2, <1>4, <2>4 DEF InsertSession, AInv, TablesOK
  <2>6. TablesGrow
    <3>0. users' = users
      BY <1>4 DEF InsertSession
    <3>1. now <= now'
      BY <1>1
    <3>2. ASSUME NEW d \in Sessions,
                 sessions[d].state # "free" \/ sessions[d].revokedAt # NotRevoked
          PROVE  sessions'[d] = sessions[d]
      BY <2>5, <3>2
    <3> QED BY <3>0, <3>1, <3>2 DEF TablesGrow
  <2>7. req' \in [Slots -> Request]
    BY <1>1, <1>4, <2>2 DEF InsertSession, Become
  <2>8. TypeOK' /\ TablesOK'
    BY <1>4, <2>1, <2>4, <2>5, <2>7 DEF AInv, TypeOK, TablesOK, InsertSession
  <2>9. Good(q, users', sessions', now')
    BY <1>1, <2>1, <2>4, <2>5 DEF Good, Honest, Placed, Request
  <2> QED BY <1>4, <2>2, <2>6, <2>8, <2>9, SlotStep DEF InsertSession
<1>5. ASSUME Revoke(s) PROVE AInv' /\ TablesGrow
  <2> DEFINE q == [r EXCEPT !.stage = "done"]
  <2>1. /\ r.stage = "revoke" /\ r.op \in {"visit", "logout"} /\ ~r.dead /\ r.at \in Nat
        /\ r.session \in Sessions
    BY <1>1, <1>5 DEF Revoke, Good, Placed, Honest, Request
  <2>2. q \in Request
    BY <1>1 DEF Request, Stages
  <2>3. sessions' \in [Sessions -> Row]
    BY <1>2, <1>5, <2>1 DEF Revoke, Row
  <2>4. \A c \in Sessions : /\ sessions'[c].state = sessions[c].state
                            /\ sessions'[c].user = sessions[c].user
                            /\ sessions'[c].expiresAt = sessions[c].expiresAt
                            /\ sessions[c].state # "stored" \/ sessions[c].revokedAt # NotRevoked
                                 => sessions'[c] = sessions[c]
    BY <1>2, <1>5, <2>1 DEF Revoke, Row
  <2>5. TablesGrow
    BY <1>1, <1>5, <2>4 DEF TablesGrow, Revoke
  <2>6. req' \in [Slots -> Request]
    BY <1>1, <1>5, <2>2 DEF Revoke, Become
  <2>7. TypeOK' /\ TablesOK'
    BY <1>5, <2>3, <2>4, <2>6 DEF AInv, TypeOK, TablesOK, Revoke
  <2>8. Good(q, users', sessions', now')
    BY <1>1, <2>1 DEF Good, Honest, Placed, Request
  <2> QED BY <1>5, <2>2, <2>5, <2>7, <2>8, SlotStep DEF Revoke
<1>6. ASSUME DeleteExpired(s) PROVE AInv' /\ TablesGrow
  <2> DEFINE q == [r EXCEPT !.stage = "done"]
  <2>1. r.stage = "sweep" /\ r.op = "cleanup" /\ r.at <= now /\ r.at \in Nat
    BY <1>1, <1>6 DEF DeleteExpired, Good, Placed, Request
  <2>2. q \in Request
    BY <1>1 DEF Request, Stages
  <2>3. sessions' \in [Sessions -> Row]
    BY <1>2, <1>6 DEF DeleteExpired, Row
  <2>4. \A c \in Sessions : /\ sessions'[c].user = sessions[c].user
                            /\ sessions'[c].expiresAt = sessions[c].expiresAt
                            /\ sessions'[c].revokedAt = sessions[c].revokedAt
                            /\ sessions'[c] = sessions[c] \/
                                 /\ sessions[c].state = "stored" /\ sessions'[c].state = "deleted"
                                 /\ sessions[c].expiresAt <= r.at
    BY <1>2, <1>6 DEF DeleteExpired, Sweepable, Row
  <2>5. TablesGrow
    BY <1>1, <1>6, <2>4 DEF TablesGrow, DeleteExpired
  <2>6. req' \in [Slots -> Request]
    BY <1>1, <1>6, <2>2 DEF DeleteExpired, Become
  <2>7. TypeOK'
    BY <1>6, <2>3, <2>4, <2>6 DEF AInv, TypeOK, DeleteExpired
  <2>8. \A c \in Sessions : sessions[c].expiresAt \in Nat
    BY <1>2 DEF Row
  <2>9. TablesOK'
    <3>1. users' = users /\ cookies' = cookies /\ r.at <= now'
      BY <1>1, <1>6, <2>1 DEF DeleteExpired
    <3>2. ASSUME NEW c \in Sessions
          PROVE  /\ sessions'[c].state = "free" <=> sessions[c].state = "free"
                 /\ sessions'[c].state = "deleted" => sessions[c].expiresAt <= now'
      BY <1>1, <2>1, <2>4, <2>8, <3>1 DEF AInv, TablesOK
    <3> QED BY <2>4, <3>1, <3>2 DEF AInv, TablesOK
  <2>10. Good(q, users', sessions', now')
    BY <1>1, <2>1 DEF Good, Honest, Placed, Request
  <2> QED BY <1>6, <2>2, <2>5, <2>7, <2>9, <2>10, SlotStep DEF DeleteExpired
<1>7. ASSUME Reply(s) PROVE AInv' /\ TablesGrow
  <2> DEFINE issued == r.stage = "done" /\ r.op \in {"register", "login"}
  <2>1. issued => r.user \in Users /\ r.session \in Sessions /\ sessions[r.session].state # "free"
    BY <1>1 DEF Good, Placed
  <2>2. users' = users /\ sessions' = sessions /\ req' \in [Slots -> Request]
    BY <1>1, <1>7, IdleIsGood DEF Reply, Become
  <2>3. cookies' \subseteq Sessions /\ \A c \in cookies' : sessions[c].state # "free"
    BY <1>7, <2>1 DEF AInv, TypeOK, TablesOK, Reply
  <2>4. welcomed' \in [Users -> Nat]
    BY <1>7, <2>1 DEF AInv, TypeOK, Reply
  <2>5. TypeOK' /\ TablesOK' /\ TablesGrow
    BY <1>1, <2>2, <2>3, <2>4 DEF AInv, TypeOK, TablesOK, TablesGrow
  <2>6. Good(Idle, users', sessions', now')
    BY <1>1, <2>2, IdleIsGood
  <2> QED BY <1>7, <2>5, <2>6, IdleIsGood, SlotStep DEF Reply
<1> QED BY <1>3, <1>4, <1>5, <1>6, <1>7

LEMMA StepKeepsAInv == AInv /\ [Next]_vars => AInv' /\ TablesGrow
<1> SUFFICES ASSUME AInv, [Next]_vars PROVE AInv' /\ TablesGrow
  OBVIOUS
<1>1. /\ now \in 0..MaxNow /\ now \in Nat
      /\ users \in [Users -> {"none", "active", "inactive"}]
      /\ \A c \in Sessions : sessions[c].expiresAt \in Nat
  BY TtlAssumption DEF AInv, TypeOK, Row
<1>2. ASSUME NEW u \in Users, Deactivate(u) PROVE AInv' /\ TablesGrow
  <2>1. \A v \in Users : users[v] # "none" => users'[v] # "none"
    BY <1>1, <1>2 DEF Deactivate
  <2>2. TablesGrow
    BY <1>1, <1>2, <2>1 DEF TablesGrow, Deactivate
  <2>3. TypeOK' /\ TablesOK'
    BY <1>1, <1>2, <2>1 DEF AInv, TypeOK, TablesOK, Deactivate
  <2>4. req' = req /\ req \in [Slots -> Request]
    BY <1>2 DEF Deactivate, AInv, TypeOK
  <2> QED BY <2>2, <2>3, <2>4, GoodIsStable DEF AInv
<1>3. ASSUME Tick PROVE AInv' /\ TablesGrow
  <2>1. now' = now + 1 /\ now' \in 0..MaxNow
    BY <1>1, <1>3, TtlAssumption DEF Tick
  <2>2. TablesGrow
    BY <1>1, <1>3, <2>1 DEF TablesGrow, Tick
  <2>3. TypeOK' /\ TablesOK'
    BY <1>1, <1>3, <2>1 DEF AInv, TypeOK, TablesOK, Tick
  <2>4. req' = req /\ req \in [Slots -> Request]
    BY <1>3 DEF Tick, AInv, TypeOK
  <2> QED BY <2>2, <2>3, <2>4, GoodIsStable DEF AInv
<1>4. CASE UNCHANGED vars
  BY <1>1, <1>4 DEF vars, AInv, TypeOK, TablesOK, TablesGrow
<1> QED BY <1>2, <1>3, <1>4, ArrivalKeepsAInv, ReadingKeepsAInv, WritingKeepsAInv DEF Next

LEMMA InvariantHolds == Spec => []AInv
<1>1. AInv /\ [Next]_vars => AInv'
  BY StepKeepsAInv
<1> QED BY <1>1, InitAInv, PTL DEF Spec

(* The tables and the requests keep their types (authService.ts).          *)
THEOREM AuthTypeCorrect == Spec => []TypeOK
<1>1. AInv => TypeOK
  BY DEF AInv
<1> QED BY <1>1, InvariantHolds, PTL

(* A session that is dead when its cookie arrives admits nobody, whatever  *)
(* the other requests and the sweep do (authenticateByToken).              *)
THEOREM DeadAdmitNobody == Spec => []DeadTokenAdmitsNobody
<1>1. AInv => DeadTokenAdmitsNobody
  BY DEF AInv, Good, Honest, DeadTokenAdmitsNobody
<1> QED BY <1>1, InvariantHolds, PTL

(* The sweep takes expired sessions only (cleanupExpiredSessions).         *)
THEOREM LivingAreSpared == Spec => []SweepSparesTheLiving
<1>1. AInv => SweepSparesTheLiving
  BY DEF AInv, TablesOK, SweepSparesTheLiving
<1> QED BY <1>1, InvariantHolds, PTL

(* The hook of plugins/auth.ts fails for swept sessions only.              *)
THEOREM OnlySweptFail == Spec => []OnlySweptSessionsFail
<1>1. AInv => OnlySweptSessionsFail
  BY DEF AInv, TablesOK, Good, Honest, OnlySweptSessionsFail
<1> QED BY <1>1, InvariantHolds, PTL

(* A revocation stands with its first time, and what was swept stays away  *)
(* (sessions.revoke, sessions.deleteExpired).                              *)
THEOREM RevocationIsFinal == Spec => RevocationStands
<1>1. AInv /\ [Next]_vars =>
        [\A c \in Sessions :
           /\ sessions[c].revokedAt # NotRevoked =>
                sessions'[c].revokedAt = sessions[c].revokedAt
           /\ sessions[c].state = "deleted" => sessions'[c] = sessions[c]]_vars
  BY StepKeepsAInv DEF TablesGrow
<1> QED BY <1>1, InvariantHolds, PTL DEF Spec, RevocationStands

-----------------------------------------------------------------------------
(* One account per email.                                                  *)

(* A registration that has created the account and not been answered yet.  *)
Claim(r) == r.op = "register" /\ r.stage \in {"issue", "insert", "done"}

(* The one success of an email is either to come or gone.                  *)
WInv ==
  /\ AInv
  /\ \A s \in Slots : Claim(req[s]) =>
       /\ req[s].user \in Users /\ users[req[s].user] # "none" /\ welcomed[req[s].user] = 0
  /\ \A s, t \in Slots :
       s # t /\ Claim(req[s]) /\ Claim(req[t]) => req[s].user # req[t].user
  /\ \A u \in Users : users[u] = "none" => welcomed[u] = 0
  /\ \A u \in Users : welcomed[u] <= 1

(* A step that makes no claim and welcomes nobody.                         *)
LEMMA NoNewClaim ==
  ASSUME WInv, AInv', TablesGrow, welcomed' = welcomed,
         \A s \in Slots : Claim(req'[s]) => Claim(req[s]) /\ req'[s].user = req[s].user
  PROVE  WInv'
<1>1. users' \in [Users -> {"none", "active", "inactive"}]
  BY DEF AInv, TypeOK
<1> QED BY <1>1 DEF WInv, TablesGrow

LEMMA StepKeepsWInv == WInv /\ [Next]_vars => WInv'
<1> SUFFICES ASSUME WInv, [Next]_vars PROVE WInv'
  OBVIOUS
<1>1. AInv /\ AInv' /\ TablesGrow
  BY StepKeepsAInv DEF WInv
<1>2. req \in [Slots -> Request] /\ users \in [Users -> {"none", "active", "inactive"}]
  BY <1>1 DEF AInv, TypeOK
<1>3. ASSUME NEW s \in Slots, NEW r, Become(s, r), welcomed' = welcomed,
             Claim(r) => Claim(req[s]) /\ r.user = req[s].user
      PROVE  WInv'
  <2>1. req'[s] = r /\ \A t \in Slots \ {s} : req'[t] = req[t]
    BY <1>2, <1>3 DEF Become
  <2> QED BY <1>1, <1>3, <2>1, NoNewClaim
<1>4. \A s \in Slots : Placed(req[s], users, sessions, now) /\ req[s] \in Request
  BY <1>1, <1>2 DEF AInv, Good
<1>5. ASSUME NEW s \in Slots, CreateUser(s) PROVE WInv'
  <2>1. req[s].stage = "create" /\ req[s].user \in Users
    BY <1>4, <1>5 DEF CreateUser, Placed
  <2>2. CASE users[req[s].user] # "none"
    <3>1. Become(s, [req[s] EXCEPT !.stage = "error"]) /\ welcomed' = welcomed
      BY <1>5, <2>2 DEF CreateUser
    <3>2. ~Claim([req[s] EXCEPT !.stage = "error"])
      BY <1>4 DEF Claim, Request
    <3> QED BY <1>3, <3>1, <3>2
  <2>3. CASE users[req[s].user] = "none"
    <3> DEFINE q == [req[s] EXCEPT !.stage = "issue"]
    <3>1. /\ Become(s, q) /\ welcomed' = welcomed
          /\ users' = [users EXCEPT ![req[s].user] = "active"]
      BY <1>5, <2>3 DEF CreateUser
    <3>2. q.user = req[s].user
      BY <1>4 DEF Request
    <3>3. req'[s] = q /\ \A t \in Slots \ {s} : req'[t] = req[t]
      BY <1>2, <3>1 DEF Become
    <3>4. users'[req[s].user] # "none" /\ welcomed[req[s].user] = 0
      BY <1>2, <2>1, <2>3, <3>1 DEF WInv
    <3>5. \A u \in Users : users[u] # "none" => users'[u] # "none"
      BY <1>1 DEF TablesGrow
    <3>6. \A t \in Slots : Claim(req[t]) => req[t].user # req[s].user
      BY <2>3 DEF WInv
    <3> HIDE DEF q
    <3> QED BY <1>1, <2>1, <3>1, <3>2, <3>3, <3>4, <3>5, <3>6 DEF WInv
  <2> QED BY <2>2, <2>3
<1>6. ASSUME NEW s \in Slots, Reply(s) PROVE WInv'
  <2>1. req'[s] = Idle /\ (\A t \in Slots \ {s} : req'[t] = req[t]) /\ ~Claim(Idle) /\ users' = users
    BY <1>2, <1>6 DEF Reply, Become, Claim, Idle
  <2>2. CASE req[s].stage = "done" /\ req[s].op = "register"
    <3>1. /\ req[s].user \in Users /\ welcomed[req[s].user] = 0 /\ users[req[s].user] # "none"
          /\ \A t \in Slots \ {s} : Claim(req[t]) => req[t].user # req[s].user
      BY <2>2 DEF WInv, Claim
    <3>2. welcomed' = [welcomed EXCEPT ![req[s].user] = 1] /\ welcomed \in [Users -> Nat]
      BY <1>1, <1>6, <2>2, <3>1 DEF Reply, AInv, TypeOK
    <3>3. welcomed'[req[s].user] = 1 /\ \A u \in Users \ {req[s].user} : welcomed'[u] = welcomed[u]
      BY <3>1, <3>2
    <3> QED BY <1>1, <2>1, <3>1, <3>3 DEF WInv
  <2>3. CASE ~(req[s].stage = "done" /\ req[s].op = "register")
    <3>1. welcomed' = welcomed
      BY <1>6, <2>3 DEF Reply
    <3> QED BY <1>1, <2>1, <3>1, NoNewClaim
  <2> QED BY <2>2, <2>3
<1>7. ASSUME NEW s \in Slots,
             \/ \E u \in Users : Register(s, u) \/ (\E right \in BOOLEAN : Login(s, u, right))
             \/ \E c \in Sessions, op \in {"visit", "logout"} : Present(s, c, op)
             \/ Cleanup(s)
      PROVE  WInv'
  <2>1. ASSUME NEW u \in Users, Register(s, u) PROVE WInv'
    BY <1>3, <2>1 DEF Register, Accept, Claim, Idle
  <2>2. ASSUME NEW u \in Users, NEW right \in BOOLEAN, Login(s, u, right) PROVE WInv'
    BY <1>3, <2>2 DEF Login, Accept, Claim, Idle
  <2>3. ASSUME NEW c \in Sessions, NEW op \in {"visit", "logout"}, Present(s, c, op) PROVE WInv'
    BY <1>3, <2>3 DEF Present, Accept, Claim, Idle
  <2>4. ASSUME Cleanup(s) PROVE WInv'
    BY <1>3, <2>4 DEF Cleanup, Accept, Claim, Idle
  <2> QED BY <1>7, <2>1, <2>2, <2>3, <2>4
<1>8. ASSUME NEW s \in Slots,
             \/ FindUser(s) \/ VerifyRegister(s) \/ VerifyLogin(s) \/ Issue(s)
             \/ LookUp(s) \/ Check(s) \/ Touch(s) \/ Logout(s) \/ Abort(s)
             \/ (\E c \in Sessions : InsertSession(s, c)) \/ Revoke(s) \/ DeleteExpired(s)
      PROVE  WInv'
  <2> DEFINE r == req[s]
  <2>1. ASSUME FindUser(s) PROVE WInv'
    BY <1>3, <1>4, <2>1 DEF FindUser, Claim, Request
  <2>2. ASSUME VerifyRegister(s) PROVE WInv'
    BY <1>3, <1>4, <2>2 DEF VerifyRegister, Step, Claim, Request
  <2>3. ASSUME VerifyLogin(s) PROVE WInv'
    BY <1>3, <1>4, <2>3 DEF VerifyLogin, Step, Claim, Request
  <2>4. ASSUME Issue(s) PROVE WInv'
    BY <1>3, <1>4, <2>4 DEF Issue, Claim, Request
  <2>5. ASSUME LookUp(s) PROVE WInv'
    <3>1. r.op # "register"
      BY <1>4, <2>5 DEF LookUp, Placed
    <3>2. CASE sessions[r.session].state # "stored"
      BY <1>3, <1>4, <2>5, <3>1, <3>2 DEF LookUp, Claim, Request
    <3>3. CASE sessions[r.session].state = "stored"
      <4> DEFINE q == [r EXCEPT !.stage = "check", !.copy = sessions[r.session],
                                !.user = sessions[r.session].user,
                                !.found = users[sessions[r.session].user]]
      <4>1. Become(s, q) /\ welcomed' = welcomed
        BY <2>5, <3>3 DEF LookUp
      <4>2. ~Claim(q)
        BY <1>4 DEF Claim, Request
      <4> QED BY <1>3, <4>1, <4>2
    <3> QED BY <3>2, <3>3
  <2>6. ASSUME Check(s) PROVE WInv'
    BY <1>3, <1>4, <2>6 DEF Check, Step, Claim, Request, Placed
  <2>7. ASSUME Touch(s) PROVE WInv'
    BY <1>3, <1>4, <2>7 DEF Touch, Claim, Request, Placed
  <2>8. ASSUME Logout(s) PROVE WInv'
    BY <1>3, <1>4, <2>8 DEF Logout, Claim, Request, Placed
  <2>9. ASSUME Abort(s) PROVE WInv'
    BY <1>3, <2>9 DEF Abort, Claim, Idle
  <2>10. ASSUME NEW c \in Sessions, InsertSession(s, c) PROVE WInv'
    BY <1>3, <1>4, <2>10 DEF InsertSession, Claim, Request
  <2>11. ASSUME Revoke(s) PROVE WInv'
    BY <1>3, <1>4, <2>11 DEF Revoke, Claim, Request, Placed
  <2>12. ASSUME DeleteExpired(s) PROVE WInv'
    BY <1>3, <1>4, <2>12 DEF DeleteExpired, Claim, Request, Placed
  <2> QED BY <1>8, <2>1, <2>2, <2>3, <2>4, <2>5, <2>6, <2>7, <2>8, <2>9, <2>10, <2>11, <2>12
<1>9. ASSUME (\E u \in Users : Deactivate(u)) \/ Tick \/ UNCHANGED vars PROVE WInv'
  BY <1>1, <1>9, NoNewClaim DEF Deactivate, Tick, vars
<1> QED BY <1>5, <1>6, <1>7, <1>8, <1>9 DEF Next

(* However the registrations of an email overlap, at most one is answered  *)
(* with success (register, createUser).                                    *)
THEOREM OneAccountPerEmail == Spec => []OneWelcomePerEmail
<1>1. Init => WInv
  BY InitAInv DEF Init, WInv, Claim, Idle
<1>2. WInv => OneWelcomePerEmail
  BY DEF WInv, OneWelcomePerEmail
<1> QED BY <1>1, <1>2, StepKeepsWInv, PTL DEF Spec
=============================================================================
