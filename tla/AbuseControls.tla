---------------------------- MODULE AbuseControls ----------------------------
(***************************************************************************)
(* security/rateLimiter.ts, security/abuseGuard.ts and monitoring/         *)
(* detection.ts over the shared-state store of infra/.                     *)
(*                                                                         *)
(* Both the limiter and the detection tracker count in fixed windows: the  *)
(* clock is read, the bucket of that window is incremented, and the first  *)
(* hit gives the bucket its TTL.  Reading the clock and the two commands   *)
(* are separate steps, and requests of all instances interleave between    *)
(* them.  A guarded request runs through two scopes, user then ip; an      *)
(* observed one through a single signal.                                   *)
(*                                                                         *)
(* Nothing bounds how long a command is under way: a hit may land long     *)
(* after the window it counts for, and even after its bucket has expired,  *)
(* which then starts again from one.  The histories late and slow tell     *)
(* what came too late from the rest.                                       *)
(*                                                                         *)
(* A definition marked "Wrong:" is a slip the next definition could hold;  *)
(* the specification never uses it.  It shows that a property can fail.    *)
(***************************************************************************)
EXTENDS Integers, Sequences, FiniteSets

CONSTANTS
  Users,        \* subjects of the per-user rules
  Ips,          \* subjects of the per-IP rules
  Signals,      \* subjects of detection rules
  Nobody,       \* sender of an observed request
  Slots,        \* requests in flight at once, on all instances
  UserLimit,    \* limit of the per-user rule
  IpLimit,      \* limit of the per-IP rule of the same endpoint
  Threshold,    \* threshold of the detection rule
  Window,       \* windowMs, in clock ticks, the same for all rules here
  Headroom,     \* TTL_HEADROOM_SECONDS, in clock ticks
  MaxNow,       \* bound: the clock stops here
  Faults        \* TRUE: commands may fail and instances may go down

(* RATE_RULES: every per-IP limit is at least twice the per-user limit of  *)
(* the same endpoint, over the same window.                                *)
ASSUME RuleAssumption ==
  /\ UserLimit \in Nat \ {0} /\ IpLimit \in Nat /\ IpLimit >= 2 * UserLimit
  /\ Threshold \in Nat \ {0}
  /\ Window \in Nat \ {0} /\ Headroom \in Nat
  /\ MaxNow \in Nat /\ Faults \in BOOLEAN

ASSUME SubjectAssumption ==
  /\ Users \cap Ips = {} /\ Users \cap Signals = {} /\ Ips \cap Signals = {}
  /\ Nobody \notin Users

VARIABLES
  store,        \* the counters: [Buckets -> Entry]
  now,          \* the clock
  req,          \* [Slots -> Request]
  passed,       \* history: [Buckets -> Nat], hits the limiter allowed
  hitters,      \* history: [Buckets -> SUBSET Users], who counted on it
  alerts,       \* history: [Buckets -> Nat], escalations emitted
  struck,       \* history: buckets on which a fault cut a count short
  late,         \* history: buckets that were hit when their headroom was over
  slow          \* history: users with a window between the scopes of a request

vars == <<store, now, req, passed, hitters, alerts, struck, late, slow>>

-----------------------------------------------------------------------------
Keys == Users \cup Ips \cup Signals

Windows == 0..(MaxNow \div Window)

Buckets == Keys \X Windows

(* The bucket that a hit on k at time t belongs to.                        *)
Bucket(k, t) == <<k, t \div Window>>

(* Wrong: the bucket is gone one tick before its window is over.           *)
TtlTooShort == Window - 1

Ttl == Window + Headroom

NoTtl == -1

Entry == [count : Nat, expiresAt : Nat \cup {NoTtl}]

Absent == [count |-> 0, expiresAt |-> NoTtl]

(* live: the entry, unless its time is up.                                 *)
Live(entry, t) ==
  IF entry.expiresAt # NoTtl /\ entry.expiresAt <= t THEN Absent ELSE entry

LimitOf(k) == IF k \in Users THEN UserLimit ELSE IpLimit

Remaining(k, count) == IF count <= LimitOf(k) THEN LimitOf(k) - count ELSE 0

(* Wrong: the threshold itself is let pass.                                *)
TrippedTooLate(count) == count = Threshold + 1

Tripped(count) == count = Threshold

(* Wrong: the scopes are checked from the coarse one to the tight one.     *)
ChecksIpFirst(u, i) == <<i, u>>

(* The scopes of a guarded request, in the order they are evaluated.       *)
Checks(u, i) == <<u, i>>

-----------------------------------------------------------------------------
(* Requests.  Stages:                                                      *)
(*   idle       no request                                                 *)
(*   increment  INCR is on its way to the store                            *)
(*   expire     EXPIRE is on its way, the hit was the first of its bucket  *)
(*   counted    the count is in hand                                       *)
(*   admitted   every scope let the request through                        *)
(*   denied     a scope was over its limit: 429                            *)
(*   closed     the store failed, the guard denies: 429                    *)
(*   observed   an observation is over                                     *)

Stages == {"idle", "increment", "expire", "counted", "admitted", "denied",
           "closed", "observed"}

Request == [stage : Stages, user : Users \cup {Nobody}, checks : Seq(Keys),
            at : Nat, count : Nat, remaining : Nat,
            cleared : SUBSET Keys]

Idle == [stage |-> "idle", user |-> Nobody, checks |-> << >>, at |-> 0,
         count |-> 0, remaining |-> 0, cleared |-> {}]

Guarded(r) == r.user # Nobody

(* The bucket a request is counting on.                                    *)
At(r) == Bucket(Head(r.checks), r.at)

Become(s, r) == req' = [req EXCEPT ![s] = r]

Init ==
  /\ store = [b \in Buckets |-> Absent]
  /\ now = 0
  /\ req = [s \in Slots |-> Idle]
  /\ passed = [b \in Buckets |-> 0]
  /\ hitters = [b \in Buckets |-> {}]
  /\ alerts = [b \in Buckets |-> 0]
  /\ struck = {} /\ late = {} /\ slow = {}

-----------------------------------------------------------------------------
(* check and record: the clock is read and INCR is sent.                   *)
Count(s, u, checks) ==
  Become(s, [req[s] EXCEPT !.stage = "increment", !.user = u, !.checks = checks,
                           !.at = now, !.count = 0])

(* enforceAbuseControls at a route.                                        *)
Guard(s, u, i) ==
  /\ req[s].stage = "idle"
  /\ Count(s, u, Checks(u, i))
  /\ UNCHANGED <<store, now, passed, hitters, alerts, struck, late, slow>>

(* requestObserved, invalidSession or fromAudit.                           *)
Observe(s, sig) ==
  /\ req[s].stage = "idle"
  /\ Count(s, Nobody, <<sig>>)
  /\ UNCHANGED <<store, now, passed, hitters, alerts, struck, late, slow>>

(* Bound: a counter stops one above its limit, where every further hit has *)
(* the same outcome.                                                       *)
Ceiling(k) == 1 + IF k \in Signals THEN Threshold ELSE LimitOf(k)

(* INCR at the store; it leaves the TTL alone.                             *)
Incremented(entry, k) ==
  [Live(entry, now) EXCEPT !.count = IF @ < Ceiling(k) THEN @ + 1 ELSE @]

(* The window of b and the headroom after it are over at t.                *)
Gone(b, t) == t >= Headroom /\ (t - Headroom) \div Window > b[2]

Hit(s) ==
  LET b == At(req[s])
  IN /\ store' = [store EXCEPT ![b] = Incremented(@, b[1])]
     /\ hitters' = [hitters EXCEPT ![b] = @ \cup (Users \cap {req[s].user})]
     /\ late' = IF Gone(b, now) THEN late \cup {b} ELSE late

(* Wrong: the TTL is set on the second hit.                                *)
StaysSecondHit(count) == count # 2

(* Whether a hit leaves the TTL of its bucket to an earlier one.           *)
Stays(count) == count # 1

Increment(s) ==
  /\ req[s].stage = "increment"
  /\ Hit(s)
  /\ LET count == store'[At(req[s])].count
     IN Become(s, [req[s] EXCEPT !.stage = IF Stays(count) THEN "counted" ELSE "expire",
                                 !.count = count])
  /\ UNCHANGED <<now, passed, alerts, struck, slow>>

(* EXPIRE at the store: nothing happens if the bucket is gone.             *)
Expire(s) ==
  LET b == At(req[s])
  IN /\ req[s].stage = "expire"
     /\ store' = [store EXCEPT ![b] =
          IF Live(@, now).count = 0 THEN Absent ELSE [@ EXCEPT !.expiresAt = now + Ttl]]
     /\ Become(s, [req[s] EXCEPT !.stage = "counted"])
     /\ UNCHANGED <<now, passed, hitters, alerts, struck, late, slow>>

(* evaluateAbuseChecks with an outcome in hand: the first scope that is    *)
(* over its limit denies, the last one that is not admits.                 *)
Judge(s) ==
  LET r == req[s]
      k == Head(r.checks)
      seen == [r EXCEPT !.remaining = Remaining(k, r.count)]
      ok == [seen EXCEPT !.cleared = @ \cup {k}, !.checks = Tail(@)]
  IN /\ r.stage = "counted" /\ Guarded(r)
     /\ \/ /\ r.count > LimitOf(k)
           /\ Become(s, [seen EXCEPT !.stage = "denied"])
           /\ UNCHANGED <<passed, slow>>
        \/ /\ r.count <= LimitOf(k)
           /\ passed' = [passed EXCEPT ![At(r)] = @ + 1]
           /\ slow' = IF ok.checks # << >> /\ now \div Window > At(r)[2] + 1
                      THEN slow \cup {r.user} ELSE slow
           /\ Become(s, IF ok.checks = << >>
                        THEN [ok EXCEPT !.stage = "admitted", !.at = 0, !.count = 0]
                        ELSE [ok EXCEPT !.stage = "increment", !.at = now, !.count = 0])
     /\ UNCHANGED <<store, now, hitters, alerts, struck, late>>

(* The monitor escalates on the occurrence that reaches the threshold.     *)
Escalate(s) ==
  LET r == req[s]
  IN /\ r.stage = "counted" /\ ~Guarded(r)
     /\ alerts' = IF Tripped(r.count) THEN [alerts EXCEPT ![At(r)] = @ + 1] ELSE alerts
     /\ Become(s, [r EXCEPT !.stage = "observed"])
     /\ UNCHANGED <<store, now, passed, hitters, struck, late, slow>>

Reply(s) ==
  /\ req[s].stage \in {"admitted", "denied", "closed", "observed"}
  /\ Become(s, Idle)
  /\ UNCHANGED <<store, now, passed, hitters, alerts, struck, late, slow>>

-----------------------------------------------------------------------------
(* Faults.                                                                 *)

(* Wrong: a scope that cannot be checked is skipped.                       *)
RejectedFallsOpen(r) ==
  [r EXCEPT !.stage = IF ~Guarded(r) THEN "observed"
                      ELSE IF Len(r.checks) = 1 THEN "admitted" ELSE "increment",
            !.checks = IF Len(r.checks) = 1 THEN @ ELSE Tail(@)]

(* The catch of evaluateAbuseChecks denies; the catch around an            *)
(* observation swallows.                                                   *)
Rejected(r) == [r EXCEPT !.stage = IF Guarded(r) THEN "closed" ELSE "observed"]

(* A command is rejected: it never reached the store, or its reply is lost. *)
Reject(s) ==
  /\ Faults
  /\ \/ req[s].stage \in {"increment", "expire"} /\ UNCHANGED <<store, hitters, late>>
     \/ req[s].stage = "increment" /\ Hit(s)
  /\ Become(s, Rejected(req[s]))
  /\ struck' = struck \cup {At(req[s])}
  /\ UNCHANGED <<now, passed, alerts, slow>>

(* The instance that serves the request goes down.                         *)
GoDown(s) ==
  /\ Faults
  /\ req[s].stage \in {"increment", "expire", "counted"}
  /\ Become(s, Idle)
  /\ struck' = struck \cup {At(req[s])}
  /\ UNCHANGED <<store, now, passed, hitters, alerts, late, slow>>

(* Time passes, whatever is under way.                                     *)
Tick ==
  /\ now < MaxNow
  /\ now' = now + 1
  /\ UNCHANGED <<store, req, passed, hitters, alerts, struck, late, slow>>

Next ==
  \/ \E s \in Slots :
       \/ \E u \in Users, i \in Ips : Guard(s, u, i)
       \/ \E sig \in Signals : Observe(s, sig)
       \/ Increment(s) \/ Expire(s) \/ Judge(s) \/ Escalate(s) \/ Reply(s)
       \/ Reject(s) \/ GoDown(s)
  \/ Tick

Spec == Init /\ [][Next]_vars

-----------------------------------------------------------------------------
(* Type invariant of the store, the requests and the histories.            *)
TypeOK ==
  /\ store \in [Buckets -> Entry]
  /\ now \in 0..MaxNow
  /\ req \in [Slots -> Request]
  /\ passed \in [Buckets -> Nat]
  /\ hitters \in [Buckets -> SUBSET Users]
  /\ alerts \in [Buckets -> Nat]
  /\ struck \in SUBSET Buckets /\ late \in SUBSET Buckets /\ slow \in SUBSET Users

(* Of all requests of all instances no more than the limit get through a   *)
(* scope in one window, first hits, expiries, lost replies and hits that   *)
(* land within the headroom included (check).  Only a hit that takes       *)
(* longer can find its bucket expired and the count starting again.        *)
WithinLimit ==
  \A b \in Buckets : b[1] \notin Signals /\ b \notin late => passed[b] <= LimitOf(b[1])

(* A request is only admitted when each of its scopes let it through;      *)
(* a store that fails at any command denies it (evaluateAbuseChecks).      *)
FailsClosed ==
  \A s \in Slots : req[s].stage = "admitted" =>
    \E i \in Ips : req[s].cleared = {req[s].user, i}

(* RATE_RULES: a single user never trips the per-IP limit.  When a request *)
(* is over the limit of its ip, somebody else has counted on that bucket   *)
(* too, although hits that were let through as user late in one window     *)
(* count as ip in the next.  A command that hangs for more than a window,  *)
(* or past the headroom of a bucket of the user, voids it.                 *)
LoneUserNeverTripsIp ==
  \A s \in Slots :
    req[s].stage = "denied" /\ Head(req[s].checks) \in Ips =>
      \/ hitters[At(req[s])] # {req[s].user}
      \/ req[s].user \in slow
      \/ \E w \in Windows : <<req[s].user, w>> \in late

(* Nobody is between the hit on b and what follows from it.                *)
Quiet(b) == \A s \in Slots : req[s].stage \in {"expire", "counted"} => At(req[s]) # b

(* A detection window escalates at most once (DetectionOutcome.tripped),   *)
(* unless a hit came after its headroom, and one that has reached the      *)
(* threshold has escalated, once all its observations are over and unless  *)
(* one of them was cut short (record).                                     *)
EscalatesOnce ==
  \A b \in Buckets :
    /\ b \notin late => alerts[b] <= 1
    /\ b[1] \in Signals /\ store[b].count >= Threshold /\ b \notin struck /\ Quiet(b)
         => alerts[b] >= 1

(* Every bucket has its TTL as soon as nobody works on it: only a fault    *)
(* between INCR and EXPIRE leaves one behind that never expires (check,    *)
(* record).                                                                *)
BucketsSelfExpire ==
  \A b \in Buckets :
    store[b].count > 0 /\ b \notin struck /\ Quiet(b) => store[b].expiresAt # NoTtl
=============================================================================
