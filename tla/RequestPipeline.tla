---------------------------- MODULE RequestPipeline ----------------------------
(***************************************************************************)
(* app.ts, the plugins and the routes: the way of one request through the  *)
(* onRequest hooks, the body parser, the guards of its route and its       *)
(* handler to the error handler, over a database and a shared-state store  *)
(* that may each be up, down (its commands reject) or hung (its commands   *)
(* stay unsettled).                                                        *)
(*                                                                         *)
(* A request is what is left of its way, a sequence of gates.  The gates   *)
(* of a route are in the order of its handler; each either lets it through *)
(* or answers it.  Requests meet in the tables and counters only, which    *)
(* are the subject of the other modules, so here there is one at a time.   *)
(***************************************************************************)
EXTENDS Integers, Sequences

VARIABLES
  up,     \* [{"db", "store"} -> {"up", "down", "hung"}]
  r       \* the request

vars == <<up, r>>

-----------------------------------------------------------------------------
(* The gates of every route, after the hooks.  "lookup" is a lookup in the *)
(* static catalog, "read" one in the database.                             *)

(* What a service does, in its order: "check" reads and decides, "begin"   *)
(* goes on as the state it has read demands, "write" is one statement that *)
(* changes rows, "audit" and "monitor" are one audit event, persisted and  *)
(* then observed.  Most services record what they are asked to do and then *)
(* do it; some do it and then record it.                                   *)
Service ==
  [register    |-> <<"check", "write", "audit", "monitor", "write">>,
   login       |-> <<"check", "audit", "monitor", "write">>,
   logout      |-> <<"write", "audit", "monitor">>,
   envCreate   |-> <<"check", "write", "audit", "monitor">>,
   envTouch    |-> <<"check", "write">>,
   envStart    |-> <<"check", "audit", "monitor", "begin">>,
   envReset    |-> <<"check", "audit", "monitor", "write", "write">>,
   envStop     |-> <<"check", "audit", "monitor", "write">>,
   envDestroy  |-> <<"check", "audit", "monitor", "begin">>,
   solveCreate |-> <<"lookup", "audit", "monitor", "check", "write", "audit", "monitor">>,
   solveReset  |-> <<"lookup", "check", "check", "audit", "monitor", "write", "write",
                     "audit", "monitor">>,
   submit      |-> <<"lookup", "check", "begin">>]

(* How a service goes on: a start from REQUESTED, PROVISIONING or READY, a *)
(* destroy of a live row or of one that is DESTROYING already, and a       *)
(* submission that does not score, scores or loses the race to score.      *)
Turns(route) ==
  CASE route = "envStart" ->
         {<<"write", "write", "audit", "monitor", "write", "audit", "monitor">>,
          <<"write", "audit", "monitor", "write", "audit", "monitor">>,
          <<"write", "audit", "monitor">>}
    [] route = "envDestroy" ->
         {<<"write", "write", "audit", "monitor">>, <<"write", "audit", "monitor">>}
    [] route = "submit" ->
         {<<"write", "audit", "monitor">>, <<"write", "write", "audit", "monitor">>,
          <<"write", "write", "write", "audit", "monitor", "audit", "monitor">>}
    [] OTHER -> {}

(* Services that record a request before they act on it, and those that    *)
(* find on a repeated request that nothing is left to do.                  *)
AskFirst == {"login", "envStart", "envReset", "envStop", "envDestroy", "solveCreate", "solveReset"}

Repeatable == {"envCreate", "envStart", "envStop", "envDestroy", "solveCreate"}

AuthGates ==
  [register |-> <<"parse", "origin", "limit", "body">> \o Service.register,
   login    |-> <<"parse", "origin", "body", "limit">> \o Service.login,
   logout   |-> <<"parse", "auth", "origin">> \o Service.logout,
   me       |-> <<"auth">>]

Mutating == <<"parse", "auth", "origin", "limit">>

(* Wrong: reset was added without the origin check.                        *)
EnvironmentGatesLax ==
  [envCreate  |-> Mutating \o <<"body">> \o Service.envCreate,
   envList    |-> <<"auth", "read">>,
   envGet     |-> <<"auth", "read">>,
   envTouch   |-> Mutating \o Service.envTouch,
   envStart   |-> Mutating \o Service.envStart,
   envReset   |-> <<"parse", "auth", "limit">> \o Service.envReset,
   envStop    |-> Mutating \o Service.envStop,
   envDestroy |-> Mutating \o Service.envDestroy]

EnvironmentGates ==
  [envCreate  |-> Mutating \o <<"body">> \o Service.envCreate,
   envList    |-> <<"auth", "read">>,
   envGet     |-> <<"auth", "read">>,
   envTouch   |-> Mutating \o Service.envTouch,
   envStart   |-> Mutating \o Service.envStart,
   envReset   |-> Mutating \o Service.envReset,
   envStop    |-> Mutating \o Service.envStop,
   envDestroy |-> Mutating \o Service.envDestroy]

(* No runtime is wired: a provision is audited and then refused.           *)
SandboxGates ==
  [describe  |-> <<"auth", "read">>,
   provision |-> Mutating \o <<"read", "body", "audit", "monitor", "noRuntime">>]

ChallengeGates ==
  [challengeGet |-> <<"lookup">>,
   solveCreate  |-> Mutating \o Service.solveCreate,
   solveGet     |-> <<"auth", "lookup", "read">>,
   solveReset   |-> Mutating \o Service.solveReset,
   submit       |-> Mutating \o <<"body">> \o Service.submit,
   progress     |-> <<"auth", "read">>]

(* /flags/submit is a stub, and so is every path that is no route.         *)
PublicGates ==
  [list |-> <<>>, missionGet |-> <<"lookup">>, pathGet |-> <<"lookup">>,
   flags |-> <<"parse", "stub">>, other |-> <<"unknown">>,
   health |-> <<>>, ready |-> <<"probes">>]

Gates ==
  [x \in (DOMAIN AuthGates) \cup (DOMAIN EnvironmentGates) \cup (DOMAIN SandboxGates)
         \cup (DOMAIN ChallengeGates) \cup (DOMAIN PublicGates) |->
     CASE x \in DOMAIN AuthGates -> AuthGates[x]
       [] x \in DOMAIN EnvironmentGates -> EnvironmentGates[x]
       [] x \in DOMAIN SandboxGates -> SandboxGates[x]
       [] x \in DOMAIN ChallengeGates -> ChallengeGates[x]
       [] OTHER -> PublicGates[x]]

Routes == DOMAIN Gates

Deps == {"db", "store"}

(* A request: the gates to come, what it carries, the user the session     *)
(* hook found, the gates passed, the verdicts of the readiness probes, and *)
(* the status of its answer, 0 before it, -1 without a request.  `seen`    *)
(* and `failed` are history: the dependencies that were up, and whether    *)
(* the database was down, since it arrived.                                *)
Request ==
  [todo : Seq({"session", "observe", "parse", "auth", "origin", "limit", "body", "read",
               "lookup", "check", "refused", "begin", "write", "audit", "monitor", "noRuntime", "stub", "unknown", "probes"}),
   route : Routes, cookie : {"none", "dead", "live"}, trusted : BOOLEAN,
   body : {"good", "invalid", "malformed"}, user : BOOLEAN,
   passed : SUBSET {"limit", "write", "audit"}, probe : [Deps -> {"asked", "ok", "unavailable"}],
   status : {-1, 0, 200, 400, 401, 403, 404, 409, 422, 429, 500, 501, 503},
   seen : SUBSET Deps, failed : BOOLEAN]

Are(state) == {d \in Deps : up[d] = state}

(* The observing hook runs after the session hook, before any parser.      *)
Arriving(route, cookie, trusted, body) ==
  [todo |-> <<"session", "observe">> \o Gates[route], route |-> route, cookie |-> cookie,
   trusted |-> trusted, body |-> body, user |-> FALSE, passed |-> {},
   probe |-> [d \in Deps |-> "asked"], status |-> 0, seen |-> Are("up"), failed |-> up["db"] = "down"]

NoRequest ==
  [Arriving("health", "none", TRUE, "good") EXCEPT
     !.todo = <<>>, !.status = -1, !.seen = {}, !.failed = FALSE]

Init ==
  /\ up \in [Deps -> {"up", "down", "hung"}]
  /\ r = NoRequest

(* A GET has no body, and its origin is of no interest.                    *)
Arrive(route, cookie, trusted, body) ==
  /\ r = NoRequest
  /\ \/ Gates[route] # <<>> /\ Head(Gates[route]) = "parse"
     \/ trusted /\ body = "good"
  /\ r' = Arriving(route, cookie, trusted, body)
  /\ UNCHANGED up

Leave ==
  /\ r.status > 0
  /\ r' = NoRequest
  /\ UNCHANGED up

-----------------------------------------------------------------------------
At(gate) == r.status = 0 /\ r.todo # <<>> /\ Head(r.todo) = gate

Through(q) == r' = [q EXCEPT !.todo = Tail(@)] /\ UNCHANGED up

Pass == Through(r)

(* The error handler: an ApiError keeps its status, what Fastify rejects   *)
(* is a 400, and anything unexpected is a 500.                             *)
Fail(status) == r' = [r EXCEPT !.status = status, !.todo = <<>>] /\ UNCHANGED up

(* Nothing is left to do.                                                  *)
Succeed ==
  /\ r.status = 0 /\ r.todo = <<>>
  /\ r' = [r EXCEPT !.status =
       IF r.route = "ready" /\ \E d \in Deps : r.probe[d] # "ok" THEN 503 ELSE 200]
  /\ UNCHANGED up

(* registerAuth: only a cookie costs a round trip, and only a live session *)
(* yields a user.  It is touched after it was read, and if it was swept in *)
(* between, the update rejects.                                            *)
Session ==
  /\ At("session")
  /\ \/ r.cookie = "none" /\ Pass
     \/ r.cookie # "none" /\ up["db"] = "up" /\ Through([r EXCEPT !.user = r.cookie = "live"])
     \/ r.cookie = "live" /\ up["db"] = "up" /\ Fail(500)
     \/ r.cookie # "none" /\ up["db"] = "down" /\ Fail(500)

(* Every request is counted in the store; a failure is swallowed.          *)
Observe ==
  /\ At("observe")
  /\ up["store"] # "hung"
  /\ Pass

(* Fastify parses a body before the guards and the handler run.            *)
Parse ==
  /\ At("parse")
  /\ IF r.body = "malformed" THEN Fail(400) ELSE Pass

RequireAuth ==
  /\ At("auth")
  /\ IF r.user THEN Pass ELSE Fail(401)

AssertTrustedOrigin ==
  /\ At("origin")
  /\ IF r.trusted THEN Pass ELSE Fail(403)

(* Within the limits or not, and denied when the store is down.            *)
EnforceLimit ==
  /\ At("limit")
  /\ \/ up["store"] = "up" /\ Through([r EXCEPT !.passed = @ \cup {"limit"}])
     \/ up["store"] # "hung" /\ Fail(429)

ParseBody ==
  /\ At("body")
  /\ IF r.body = "good" THEN Pass ELSE Fail(400)

Lookup ==
  /\ At("lookup")
  /\ Pass \/ Fail(404)

Read ==
  /\ At("read")
  /\ \/ up["db"] = "up" /\ (Pass \/ Fail(404))
     \/ up["db"] = "down" /\ Fail(500)

(* The rest of the way is another one.                                     *)
GoOn(todo) == r' = [r EXCEPT !.todo = todo] /\ UNCHANGED up

(* What a service refuses with.                                            *)
Refusals(route) ==
  CASE route = "login" -> {}
    [] route \in {"register", "solveCreate"} -> {409}
    [] route = "envCreate" -> {400, 409}
    [] route = "envDestroy" -> {404}
    [] route \in {"solveReset", "submit"} -> {400, 404, 409}
    [] OTHER -> {404, 409}

(* The service reads, and refuses, finds nothing to do or goes on; a       *)
(* refused login is recorded first.                                        *)
Check ==
  /\ At("check")
  /\ \/ up["db"] = "up" /\ Pass
     \/ up["db"] = "up" /\ r.route = "login" /\ GoOn(<<"audit", "monitor", "refused">>)
     \/ up["db"] = "up" /\ r.route \in Repeatable /\ GoOn(<<>>)
     \/ up["db"] = "up" /\ \E status \in Refusals(r.route) : Fail(status)
     \/ up["db"] = "down" /\ Fail(500)

Refused == At("refused") /\ Fail(401)

(* A start meets a TIMEOUT or RESETTING row, which is refused, or a FAILED *)
(* one, for which the state machine throws what is no ApiError.            *)
Begin ==
  /\ At("begin")
  /\ \/ \E way \in Turns(r.route) : GoOn(way)
     \/ r.route = "envStart" /\ (Fail(409) \/ Fail(500))

(* One statement.  Of two registrations of an address that both passed the *)
(* check, the unique constraint rejects the second.                        *)
Statement ==
  /\ At("write")
  /\ \/ up["db"] = "up" /\ Through([r EXCEPT !.passed = @ \cup {"write"}])
     \/ up["db"] = "up" /\ r.route = "register" /\ "write" \notin r.passed /\ Fail(500)
     \/ up["db"] = "down" /\ Fail(500)

(* createMonitoringAuditRepository: first the row ...                      *)
Record ==
  /\ At("audit")
  /\ \/ up["db"] = "up" /\ Through([r EXCEPT !.passed = @ \cup {"audit"}])
     \/ up["db"] = "down" /\ Fail(500)

(* ... then the event and its detection, whose failure is swallowed.       *)
Monitor ==
  /\ At("monitor")
  /\ up["store"] # "hung"
  /\ Pass

NoRuntime == At("noRuntime") /\ (Fail(503) \/ Fail(422))

Stub == At("stub") /\ Fail(501)

Unknown == At("unknown") /\ Fail(404)

(* Readiness: both probes run at once, each against its timeout; one that  *)
(* answers after it changes nothing.                                       *)
Verdict(d, v) ==
  /\ At("probes") /\ r.probe[d] = "asked"
  /\ r' = [r EXCEPT !.probe[d] = v]
  /\ UNCHANGED up

ProbeAnswers(d) ==
  \/ up[d] = "up" /\ Verdict(d, "ok")
  \/ up[d] = "down" /\ Verdict(d, "unavailable")

(* Wrong: a probe that does not answer in time is not held against it.     *)
ProbeTimesOutKindly(d) == Verdict(d, "ok")

ProbeTimesOut(d) == Verdict(d, "unavailable")

(* Wrong: the report waits for the probes themselves.                      *)
ReportAnswered ==
  /\ At("probes") /\ \A d \in Deps : r.probe[d] # "asked" /\ up[d] # "hung"
  /\ Pass

Report ==
  /\ At("probes") /\ \A d \in Deps : r.probe[d] # "asked"
  /\ Pass

(* A dependency changes its state.                                         *)
Change(d, state) ==
  /\ up[d] # state
  /\ up' = [up EXCEPT ![d] = state]
  /\ r' = IF r.status # 0 THEN r
          ELSE IF state = "up" THEN [r EXCEPT !.seen = @ \cup {d}]
          ELSE [r EXCEPT !.failed = @ \/ (d = "db" /\ state = "down")]

Gate ==
  \/ Session \/ Observe \/ Parse \/ RequireAuth \/ AssertTrustedOrigin \/ EnforceLimit
  \/ ParseBody \/ Lookup \/ Read \/ Check \/ Refused \/ Begin \/ Statement \/ Record \/ Monitor
  \/ NoRuntime \/ Stub \/ Unknown
  \/ \E d \in Deps : ProbeTimesOut(d)
  \/ Report
  \/ Succeed

Next ==
  \/ \E route \in Routes, cookie \in {"none", "dead", "live"}, trusted \in BOOLEAN,
        body \in {"good", "invalid", "malformed"} : Arrive(route, cookie, trusted, body)
  \/ Leave
  \/ Gate
  \/ \E d \in Deps : ProbeAnswers(d)
  \/ \E d \in Deps, state \in {"up", "down", "hung"} : Change(d, state)

(* The event loop runs, timers fire, and a command to a dependency that is *)
(* not hung settles.                                                       *)
Spec == Init /\ [][Next]_vars /\ WF_vars(Gate)

-----------------------------------------------------------------------------
(* The variables hold values of their types.                               *)
TypeOK ==
  /\ up \in [Deps -> {"up", "down", "hung"}]
  /\ r \in Request

(* A service changes rows for a request only when its origin is trusted,   *)
(* its body is good where the route takes one, it is within the limits     *)
(* where the route has them, and a live session stands behind it, except   *)
(* where it is about to get one: on every route, in the order its handler  *)
(* happens to be written, and whatever was down on the way.                *)
EffectsAreGuarded ==
  "write" \in r.passed =>
    /\ r.trusted
    /\ r.body # "malformed"
    /\ r.route \in {"register", "login", "envCreate", "submit"} => r.body = "good"
    /\ r.route # "logout" => "limit" \in r.passed
    /\ r.route \notin {"register", "login"} => r.cookie = "live"

(* What an answer says is so, whatever hung, timed out or recovered during *)
(* the request.  A 500 means that the database failed (an outage of the    *)
(* store never turns into one), or that one of three conflicts with        *)
(* another request took a healthy one by surprise, and then no row has     *)
(* changed: a session that was swept under the hook, before anything was   *)
(* counted or audited; an address that was registered meanwhile; a start   *)
(* of a FAILED row.  A change of rows that is answered with success has    *)
(* its audit row, although the event that announces it may be lost (touch  *)
(* writes none); where the request is recorded first it has one however    *)
(* the request ends.  An instance is reported ready only if each           *)
(* dependency was up at some moment of the request.                        *)
AnswersAreTrue ==
  /\ r.status = 500 /\ ~r.failed =>
       /\ "write" \notin r.passed
       /\ \/ r.cookie = "live" /\ r.passed = {}
          \/ r.route = "register"
          \/ r.route = "envStart" /\ "audit" \in r.passed
  /\ "write" \in r.passed /\ (r.status = 200 \/ r.route \in AskFirst) =>
       "audit" \in r.passed \/ r.route = "envTouch"
  /\ r.status = 200 /\ r.route = "ready" => r.seen = Deps

(* A request stays unanswered only while a dependency hangs under a gate   *)
(* that waits for it; the readiness report never does.                     *)
OnlyHangingBlocks ==
  r.status = 0 ~> (r.status # 0 \/ (Are("hung") # {} /\ ~At("probes")))

(* The probe of liveness touches no dependency (PRODUCTION-INFRASTRUCTURE  *)
(* section 5) and the readiness report is bounded: each is answered        *)
(* whatever hangs.  The observing hook stands in front of both.            *)
ProbesAnswer ==
  r.status = 0 /\ r.route \in {"health", "ready"} /\ r.cookie = "none" ~> r.status # 0
=============================================================================
