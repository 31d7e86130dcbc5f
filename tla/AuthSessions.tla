---------------------------- MODULE AuthSessions ----------------------------
(***************************************************************************)
(* services/authService.ts, plugins/auth.ts and services/sessionCleanup.ts *)
(* over the User and Session tables.                                       *)
(*                                                                         *)
(* As in EnvironmentService a request is a slot, and an action is one      *)
(* continuation of a handler or one statement of the database.  A request  *)
(* with a cookie runs the onRequest hook (look up, check, touch) and then  *)
(* its route: "visit" stands for every route that only needs a user.       *)
(* Hashing and audit writes change nothing here: they are places where     *)
(* Abort can strike.                                                       *)
(*                                                                         *)
(* A definition marked "Wrong:" is a slip the next definition could hold;  *)
(* the specification never uses it.  It shows that a property can fail.    *)
(***************************************************************************)
EXTENDS Integers, FiniteSets

CONSTANTS
  Users,        \* email addresses, normalised
  NoUser,       \* no email
  Sessions,     \* primary keys of session rows, one to one with their tokens
  NoSession,    \* no row
  Slots,        \* requests in flight at once
  SessionTtl,   \* sessionTtlSeconds, in clock ticks
  MaxNow        \* bound: the clock stops here

ASSUME TtlAssumption == SessionTtl \in Nat \ {0} /\ MaxNow \in Nat

ASSUME NameAssumption == NoUser \notin Users /\ NoSession \notin Sessions

VARIABLES
  users,        \* the User table: [Users -> {"none", "active", "inactive"}]
  sessions,     \* the Session table: [Sessions -> Row]
  cookies,      \* the sessions whose token a client was given
  now,          \* the clock
  req,          \* [Slots -> Request]
  welcomed      \* history: [Users -> Nat], registrations answered with 201

vars == <<users, sessions, cookies, now, req, welcomed>>

-----------------------------------------------------------------------------
NotRevoked == -1

Row == [state : {"free", "stored", "deleted"}, user : Users \cup {NoUser},
        expiresAt : Nat, revokedAt : Nat \cup {NotRevoked}]

Free == [state |-> "free", user |-> NoUser, expiresAt |-> 0, revokedAt |-> NotRevoked]

(* Wrong: a session lasts through the tick of its expiry.                  *)
ExpiredTooLate(row, at) == row.expiresAt < at

Expired(row, at) == row.expiresAt <= at

Expiry(at) == at + SessionTtl

(* Requests.  Stages:                                                      *)
(*   idle     no request                                                   *)
(*   find     findByEmail is at the database                               *)
(*   verify   the user is in hand, or known to be missing                  *)
(*   create   createUser is at the database                                *)
(*   issue    the user is known, issueSession is next                      *)
(*   insert   the new session is at the database                           *)
(*   lookup   findByTokenHash is at the database                           *)
(*   check    the session and its user are in hand                         *)
(*   touch    touchLastSeen is at the database                             *)
(*   logout   the user is authenticated, the route is next                 *)
(*   revoke   revoke is at the database                                    *)
(*   sweep    deleteExpired is at the database                             *)
(*   done     success                                                      *)
(*   refused  401 or 409                                                   *)
(*   error    500                                                          *)

Ops == {"register", "login", "visit", "logout", "cleanup"}

Stages == {"idle", "find", "verify", "create", "issue", "insert", "lookup",
           "check", "touch", "logout", "revoke", "sweep", "done", "refused", "error"}

Request == [stage : Stages, op : Ops, user : Users \cup {NoUser},
            password : BOOLEAN, found : {"none", "active", "inactive"},
            session : Sessions \cup {NoSession}, copy : Row, at : Nat,
            dead : BOOLEAN]

Idle == [stage |-> "idle", op |-> "visit", user |-> NoUser, password |-> FALSE,
         found |-> "none", session |-> NoSession, copy |-> Free, at |-> 0,
         dead |-> FALSE]

Become(s, r) == req' = [req EXCEPT ![s] = r]

Accept(s, r) == req[s].stage = "idle" /\ Become(s, r)

Init ==
  /\ users = [u \in Users |-> "none"]
  /\ sessions = [c \in Sessions |-> Free]
  /\ cookies = {}
  /\ now = 0
  /\ req = [s \in Slots |-> Idle]
  /\ welcomed = [u \in Users |-> 0]

-----------------------------------------------------------------------------
(* Arrival.                                                                *)

(* Bound: a session is only asked for while a primary key is left for it.  *)
KeysLeft ==
  Cardinality({s \in Slots : req[s].stage \in {"find", "verify", "create", "issue", "insert"}})
    < Cardinality({c \in Sessions : sessions[c].state = "free"})

Register(s, u) ==
  /\ KeysLeft
  /\ Accept(s, [Idle EXCEPT !.stage = "find", !.op = "register", !.user = u])
  /\ UNCHANGED <<users, sessions, cookies, now, welcomed>>

Login(s, u, right) ==
  /\ KeysLeft
  /\ Accept(s, [Idle EXCEPT !.stage = "find", !.op = "login", !.user = u, !.password = right])
  /\ UNCHANGED <<users, sessions, cookies, now, welcomed>>

(* The session can admit nobody any more: revoked, expired, removed, or of *)
(* a user who is inactive.                                                 *)
Dead(c) ==
  \/ sessions[c].state # "stored" \/ sessions[c].revokedAt # NotRevoked
  \/ sessions[c].expiresAt <= now \/ users[sessions[c].user] # "active"

(* A request with a cookie; `dead` records what it was worth on arrival.   *)
Present(s, c, op) ==
  /\ c \in cookies
  /\ Accept(s, [Idle EXCEPT !.stage = "lookup", !.op = op, !.session = c, !.dead = Dead(c)])
  /\ UNCHANGED <<users, sessions, cookies, now, welcomed>>

(* cleanupExpiredSessions: the cutoff is the clock at the call.            *)
Cleanup(s) ==
  /\ Accept(s, [Idle EXCEPT !.stage = "sweep", !.op = "cleanup", !.at = now])
  /\ UNCHANGED <<users, sessions, cookies, now, welcomed>>

-----------------------------------------------------------------------------
(* Registration and login.                                                 *)

FindUser(s) ==
  /\ req[s].stage = "find"
  /\ Become(s, [req[s] EXCEPT !.stage = "verify", !.found = users[req[s].user]])
  /\ UNCHANGED <<users, sessions, cookies, now, welcomed>>

Step(s, stage) ==
  /\ Become(s, [req[s] EXCEPT !.stage = stage])
  /\ UNCHANGED <<users, sessions, cookies, now, welcomed>>

VerifyRegister(s) ==
  /\ req[s].stage = "verify" /\ req[s].op = "register"
  /\ Step(s, IF req[s].found = "none" THEN "create" ELSE "refused")

VerifyLogin(s) ==
  /\ req[s].stage = "verify" /\ req[s].op = "login"
  /\ Step(s, IF req[s].found = "active" /\ req[s].password THEN "issue" ELSE "refused")

(* Wrong: an account that is there already is taken over.                  *)
CreateUserOrTakeOver(s) ==
  /\ req[s].stage = "create"
  /\ users' = [users EXCEPT ![req[s].user] = "active"]
  /\ Become(s, [req[s] EXCEPT !.stage = "issue"])
  /\ UNCHANGED <<sessions, cookies, now, welcomed>>

(* createUser: the unique email may have been taken since findByEmail.     *)
CreateUser(s) ==
  LET taken == users[req[s].user] # "none"
  IN /\ req[s].stage = "create"
     /\ users' = IF taken THEN users ELSE [users EXCEPT ![req[s].user] = "active"]
     /\ Become(s, [req[s] EXCEPT !.stage = IF taken THEN "error" ELSE "issue"])
     /\ UNCHANGED <<sessions, cookies, now, welcomed>>

(* issueSession reads the clock.                                           *)
Issue(s) ==
  /\ req[s].stage = "issue"
  /\ Become(s, [req[s] EXCEPT !.stage = "insert", !.at = now])
  /\ UNCHANGED <<users, sessions, cookies, now, welcomed>>

InsertSession(s, c) ==
  /\ req[s].stage = "insert" /\ sessions[c].state = "free"
  /\ sessions' = [sessions EXCEPT ![c] =
       [Free EXCEPT !.state = "stored", !.user = req[s].user,
                    !.expiresAt = Expiry(req[s].at)]]
  /\ Become(s, [req[s] EXCEPT !.stage = "done", !.session = c])
  /\ UNCHANGED <<users, cookies, now, welcomed>>

-----------------------------------------------------------------------------
(* The onRequest hook.                                                     *)

(* findByTokenHash: the session and its user are copied.                   *)
LookUp(s) ==
  LET row == sessions[req[s].session]
  IN /\ req[s].stage = "lookup"
     /\ Become(s, IF row.state # "stored" THEN [req[s] EXCEPT !.stage = "refused"]
                  ELSE [req[s] EXCEPT !.stage = "check", !.copy = row,
                                      !.user = row.user, !.found = users[row.user]])
     /\ UNCHANGED <<users, sessions, cookies, now, welcomed>>

(* authenticateByToken on the copy.                                        *)
Check(s) ==
  LET valid == /\ req[s].copy.revokedAt = NotRevoked
               /\ ~Expired(req[s].copy, now)
               /\ req[s].found = "active"
  IN /\ req[s].stage = "check"
     /\ Step(s, IF valid THEN "touch" ELSE "refused")

(* touchLastSeen is an update by id: it throws when the row is gone.  The  *)
(* user is authenticated then, and a logout goes on to its route.          *)
Touch(s) ==
  /\ req[s].stage = "touch"
  /\ Become(s, [req[s] EXCEPT
       !.stage = IF sessions[req[s].session].state # "stored" THEN "error"
                 ELSE IF req[s].op = "logout" THEN "logout" ELSE "done"])
  /\ UNCHANGED <<users, sessions, cookies, now, welcomed>>

(* logout reads the clock and sends the revocation.                        *)
Logout(s) ==
  /\ req[s].stage = "logout"
  /\ Become(s, [req[s] EXCEPT !.stage = "revoke", !.at = now])
  /\ UNCHANGED <<users, sessions, cookies, now, welcomed>>

(* Wrong: a later logout revokes once more.                                *)
RevokeAgain(s) ==
  /\ req[s].stage = "revoke"
  /\ sessions' = [sessions EXCEPT ![req[s].session].revokedAt =
       IF sessions[req[s].session].state = "stored" THEN req[s].at ELSE @]
  /\ Become(s, [req[s] EXCEPT !.stage = "done"])
  /\ UNCHANGED <<users, cookies, now, welcomed>>

(* Wrong: the row is removed, not marked.                                  *)
RevokeRemoves(s) ==
  /\ req[s].stage = "revoke"
  /\ sessions' = [sessions EXCEPT ![req[s].session].state = "deleted"]
  /\ Become(s, [req[s] EXCEPT !.stage = "done"])
  /\ UNCHANGED <<users, cookies, now, welcomed>>

(* revoke: only a session that is there and not revoked yet.               *)
Revoke(s) ==
  LET row == sessions[req[s].session]
  IN /\ req[s].stage = "revoke"
     /\ sessions' = IF row.state = "stored" /\ row.revokedAt = NotRevoked
                    THEN [sessions EXCEPT ![req[s].session].revokedAt = req[s].at]
                    ELSE sessions
     /\ Become(s, [req[s] EXCEPT !.stage = "done"])
     /\ UNCHANGED <<users, cookies, now, welcomed>>

-----------------------------------------------------------------------------
Sweepable(row, before) == row.state = "stored" /\ row.expiresAt <= before

DeleteExpired(s) ==
  /\ req[s].stage = "sweep"
  /\ sessions' = [c \in Sessions |->
       IF Sweepable(sessions[c], req[s].at) THEN [sessions[c] EXCEPT !.state = "deleted"]
       ELSE sessions[c]]
  /\ Become(s, [req[s] EXCEPT !.stage = "done"])
  /\ UNCHANGED <<users, cookies, now, welcomed>>

(* The answer; after a registration or a login the client has the token.   *)
Reply(s) ==
  LET r == req[s]
      issued == r.stage = "done" /\ r.op \in {"register", "login"}
  IN /\ r.stage \in {"done", "refused", "error"}
     /\ cookies' = IF issued THEN cookies \cup {r.session} ELSE cookies
     /\ welcomed' = IF issued /\ r.op = "register" THEN [welcomed EXCEPT ![r.user] = @ + 1]
                    ELSE welcomed
     /\ Become(s, Idle)
     /\ UNCHANGED <<users, sessions, now>>

-----------------------------------------------------------------------------
(* An await rejects, or the process ends: what was written stays.          *)
Abort(s) ==
  /\ req[s].stage \notin {"idle", "refused", "error"}
  /\ Become(s, Idle)
  /\ UNCHANGED <<users, sessions, cookies, now, welcomed>>

(* An operator deactivates an account at the database.                     *)
Deactivate(u) ==
  /\ users[u] = "active"
  /\ users' = [users EXCEPT ![u] = "inactive"]
  /\ UNCHANGED <<sessions, cookies, now, req, welcomed>>

Tick ==
  /\ now < MaxNow
  /\ now' = now + 1
  /\ UNCHANGED <<users, sessions, cookies, req, welcomed>>

Next ==
  \/ \E s \in Slots :
       \/ \E u \in Users : Register(s, u) \/ (\E right \in BOOLEAN : Login(s, u, right))
       \/ \E c \in Sessions, op \in {"visit", "logout"} : Present(s, c, op)
       \/ Cleanup(s) \/ FindUser(s) \/ VerifyRegister(s) \/ VerifyLogin(s)
       \/ CreateUser(s) \/ Issue(s) \/ (\E c \in Sessions : InsertSession(s, c))
       \/ LookUp(s) \/ Check(s) \/ Touch(s) \/ Logout(s) \/ Revoke(s) \/ DeleteExpired(s)
       \/ Reply(s) \/ Abort(s)
  \/ \E u \in Users : Deactivate(u)
  \/ Tick

Spec == Init /\ [][Next]_vars

-----------------------------------------------------------------------------
(* Type invariant of the tables and the requests.                          *)
TypeOK ==
  /\ users \in [Users -> {"none", "active", "inactive"}]
  /\ sessions \in [Sessions -> Row]
  /\ cookies \in SUBSET Sessions
  /\ now \in 0..MaxNow
  /\ req \in [Slots -> Request]
  /\ welcomed \in [Users -> Nat]
  /\ \A c \in Sessions : sessions[c].state = "stored" => sessions[c].user \in Users

(* A request that arrives with the cookie of a session that is revoked,    *)
(* expired or removed, or of a deactivated user, is never taken for its    *)
(* user, whatever other requests and the sweep do meanwhile                *)
(* (authenticateByToken; AUTH.md, "Rejection").                            *)
DeadTokenAdmitsNobody ==
  \A s \in Slots :
    req[s].op \in {"visit", "logout"} /\ req[s].stage \in {"touch", "logout", "revoke", "done"}
      => ~req[s].dead

(* The first revocation of a session stands, with its time, and a session  *)
(* that was swept does not come back (revoke, deleteExpired).              *)
RevocationStands ==
  [][\A c \in Sessions :
       /\ sessions[c].revokedAt # NotRevoked =>
            sessions'[c].revokedAt = sessions[c].revokedAt
       /\ sessions[c].state = "deleted" => sessions'[c] = sessions[c]]_vars

(* The sweep removes no session before its time, however late its          *)
(* statement runs (cleanupExpiredSessions).                                *)
SweepSparesTheLiving ==
  \A c \in Sessions : sessions[c].state = "deleted" => sessions[c].expiresAt <= now

(* A request with a cookie ends in a 500 only when its session expired and *)
(* was swept between the check and the touch; plugins/auth.ts says that    *)
(* the hook never throws for an invalid session.                           *)
OnlySweptSessionsFail ==
  \A s \in Slots :
    req[s].stage = "error" /\ req[s].op \in {"visit", "logout"} =>
      /\ sessions[req[s].session].state = "deleted"
      /\ sessions[req[s].session].expiresAt <= now
      /\ ~req[s].dead

(* Of the registrations of one email, overlapping or repeated, at most one *)
(* is answered with success (register, the unique index on email).         *)
OneWelcomePerEmail == \A u \in Users : welcomed[u] <= 1
=============================================================================
