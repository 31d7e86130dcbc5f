------------------------ MODULE AbuseControlsProofs ------------------------
(***************************************************************************)
(* Theorems about AbuseControls, for any number of requests, subjects and  *)
(* windows and any limits.                                                 *)
(***************************************************************************)
EXTENDS AbuseControls, FiniteSetTheorems, TLAPS

-----------------------------------------------------------------------------
(* The inductive invariant.                                                *)

Active(r) == r.stage \in {"increment", "expire", "counted"}

(* Which scopes a request has left, which let it through.                  *)
Shaped(r) ==
  \/ \E u \in Users, i \in Ips : r.user = u /\ r.checks = <<u, i>> /\ r.cleared = {}
  \/ \E u \in Users, i \in Ips : r.user = u /\ r.checks = <<i>> /\ r.cleared = {u}
  \/ \E sig \in Signals : r.user = Nobody /\ r.checks = <<sig>> /\ r.cleared = {}

RequestInv(s) ==
  LET r == req[s] IN
  /\ r.stage = "idle" => r = Idle
  /\ Active(r) => Shaped(r) /\ r.at <= now
  /\ r.stage = "denied" => Shaped(r) /\ r.at <= now /\ r.count > LimitOf(Head(r.checks))
  /\ r.stage = "admitted" => \E i \in Ips : r.cleared = {r.user, i}

(* A bucket outlives its headroom, and so every hit that is not late.      *)
EntryInv(b) ==
  /\ store[b].count = 0 => store[b].expiresAt = NoTtl
  /\ store[b].expiresAt # NoTtl => \A t \in Nat : ~Gone(b, t) => t < store[b].expiresAt

(* What a request knows of its bucket.                                     *)
HitInv(s) ==
  LET r == req[s] IN
  /\ r.stage \in {"expire", "counted", "denied"} =>
       /\ At(r) \notin late => r.count <= store[At(r)].count
       /\ Guarded(r) => r.user \in hitters[At(r)]
  /\ r.stage \in {"expire", "counted"} => 1 <= r.count
  /\ r.stage = "expire" => 1 <= store[At(r)].count

(* Only the first hit sets the TTL.                                        *)
FirstInv ==
  \A s \in Slots : req[s].stage = "expire" =>
    /\ store[At(req[s])].expiresAt = NoTtl
    /\ \A t \in Slots : req[t].stage = "expire" /\ At(req[t]) = At(req[s]) => t = s

TtlInv(b) ==
  store[b].count > 0 /\ b \notin struck =>
    store[b].expiresAt # NoTtl \/ \E s \in Slots : req[s].stage = "expire" /\ At(req[s]) = b

BaseInv ==
  /\ TypeOK
  /\ \A s \in Slots : RequestInv(s)
  /\ \A b \in Buckets : EntryInv(b)
  /\ \A s \in Slots : HitInv(s)
  /\ FirstInv
  /\ \A b \in Buckets : TtlInv(b)

Holds(s, b) == req[s].stage \in {"expire", "counted"} /\ At(req[s]) = b

(* Requests that will pass b, and those that have passed, are no more than *)
(* its hits and no more than its limit.                                    *)
Passing(b) == {s \in Slots : Holds(s, b) /\ req[s].count <= LimitOf(b[1])}

CountInv(b) ==
  b[1] \notin Signals /\ b \notin late =>
    /\ IsFiniteSet(Passing(b))
    /\ passed[b] + Cardinality(Passing(b)) <= LimitOf(b[1])
    /\ passed[b] + Cardinality(Passing(b)) <= store[b].count

(* The hit that reaches the threshold is under way or has alerted, and is  *)
(* the only one as long as none is late.                                   *)
Reaching(s, b) == Holds(s, b) /\ req[s].count = Threshold

AlertInv(b) ==
  /\ b[1] \notin Signals => alerts[b] = 0
  /\ b \notin late =>
       /\ alerts[b] <= 1
       /\ alerts[b] = 1 => store[b].count >= Threshold
       /\ \A s \in Slots : b[1] \in Signals /\ Reaching(s, b) =>
            alerts[b] = 0 /\ \A t \in Slots : Reaching(t, b) => t = s
  /\ b[1] \in Signals /\ store[b].count >= Threshold /\ b \notin struck =>
       alerts[b] >= 1 \/ \E s \in Slots : Reaching(s, b)

(* As long as u is alone on a bucket of an ip, and not slow, each hit      *)
(* there and each one that is still to come was let through on a bucket of *)
(* u, of the same window or of the one before.                             *)
Waiting(u, b) ==
  {s \in Slots : req[s].stage = "increment" /\ req[s].user = u /\ At(req[s]) = b}

Before(u, w) == IF w = 0 THEN 0 ELSE passed[<<u, w - 1>>]

Credit(u, w) == passed[<<u, w>>] + Before(u, w)

Alone(u, b) == b[1] \in Ips /\ hitters[b] \subseteq {u} /\ u \notin slow

LoneInv(u, b) ==
  Alone(u, b) =>
    /\ IsFiniteSet(Waiting(u, b))
    /\ store[b].count + Cardinality(Waiting(u, b)) <= Credit(u, b[2])

(* A count that was once covered by the credit stays covered, though its   *)
(* bucket may expire.                                                      *)
Reached(s, u, b) ==
  /\ req[s].stage \in {"expire", "counted", "denied"}
  /\ req[s].user = u /\ At(req[s]) = b

CoveredInv(s) ==
  \A u \in Users, b \in Buckets :
    Reached(s, u, b) /\ Alone(u, b) => req[s].count <= Credit(u, b[2])

IInv ==
  /\ BaseInv
  /\ \A b \in Buckets : CountInv(b)
  /\ \A b \in Buckets : AlertInv(b)
  /\ \A u \in Users, b \in Buckets : LoneInv(u, b)
  /\ \A s \in Slots : CoveredInv(s)

-----------------------------------------------------------------------------
(* Arithmetic of windows.                                                  *)
LEMMA Constants ==
  /\ Window \in Nat \ {0} /\ MaxNow \in Nat /\ Headroom \in Nat
  /\ Threshold \in Nat \ {0} /\ UserLimit \in Nat \ {0} /\ IpLimit \in Nat /\ IpLimit >= 2 * UserLimit
  BY RuleAssumption

LEMMA DivType ==
  ASSUME NEW t \in Nat
  PROVE  t \div Window \in Nat
  BY Constants

LEMMA DivMonotone ==
  ASSUME NEW a \in Nat, NEW b \in Nat, a <= b
  PROVE  a \div Window <= b \div Window
  BY Constants

(* Two moments of one window are less than a window apart.                 *)
LEMMA DivNear ==
  ASSUME NEW a \in Nat, NEW b \in Nat, a \div Window = b \div Window
  PROVE  b < a + Window
  BY Constants

(* A TTL set in a window or later outlasts the headroom of that window.    *)
LEMMA TtlIsEnough ==
  ASSUME NEW b \in Buckets, NEW a \in Nat, b[2] = a \div Window, NEW t \in Nat, ~Gone(b, t)
  PROVE  t < a + Ttl
<1>1. CASE t < Headroom
  BY <1>1, Constants DEF Ttl
<1>2. CASE t >= Headroom
  <2>1. t - Headroom \in Nat
    BY <1>2, Constants
  <2>2. (t - Headroom) \div Window \in Nat /\ a \div Window \in Nat
    BY <2>1, DivType
  <2>3. (t - Headroom) \div Window <= a \div Window
    BY <1>2, <2>2 DEF Gone
  <2>4. CASE (t - Headroom) \div Window = a \div Window
    <3>1. t - Headroom < a + Window
      BY <2>1, <2>4, DivNear
    <3> QED BY <3>1, Constants DEF Ttl
  <2>5. CASE (t - Headroom) \div Window < a \div Window
    <3>1. ~(a <= t - Headroom)
      BY <2>1, <2>2, <2>5, DivMonotone
    <3> QED BY <3>1, <2>1, Constants DEF Ttl
  <2> QED BY <2>2, <2>3, <2>4, <2>5
<1> QED BY <1>1, <1>2, Constants

LEMMA BucketIs ==
  ASSUME NEW k \in Keys, NEW t \in Nat, t <= MaxNow
  PROVE  /\ Bucket(k, t) \in Buckets /\ Bucket(k, t)[1] = k /\ Bucket(k, t)[2] = t \div Window
<1>1. t \div Window \in Windows
  BY DivType, DivMonotone, Constants DEF Windows
<1> QED BY <1>1 DEF Bucket, Buckets

LEMMA LimitIs ==
  ASSUME NEW k \in Keys
  PROVE  /\ LimitOf(k) \in Nat \ {0} /\ Ceiling(k) \in Nat /\ Ceiling(k) >= 2
         /\ k \notin Signals => Ceiling(k) = LimitOf(k) + 1
         /\ k \in Signals => Ceiling(k) = Threshold + 1
  BY Constants DEF LimitOf, Ceiling

-----------------------------------------------------------------------------
(* Requests.                                                               *)
LEMMA ShapeIs ==
  ASSUME NEW r \in Request, Shaped(r)
  PROVE  /\ r.checks # << >> /\ Head(r.checks) \in Keys
         /\ Guarded(r) <=> Head(r.checks) \notin Signals
         /\ Guarded(r) => r.user \in Users
         /\ ~Guarded(r) => Users \cap {r.user} = {}
<1>1. CASE \E u \in Users, i \in Ips : r.user = u /\ r.checks = <<u, i>> /\ r.cleared = {}
  BY <1>1, SubjectAssumption DEF Keys, Guarded
<1>2. CASE \E u \in Users, i \in Ips : r.user = u /\ r.checks = <<i>> /\ r.cleared = {u}
  BY <1>2, SubjectAssumption DEF Keys, Guarded
<1>3. CASE \E sig \in Signals : r.user = Nobody /\ r.checks = <<sig>> /\ r.cleared = {}
  BY <1>3, SubjectAssumption DEF Keys, Guarded
<1> QED BY <1>1, <1>2, <1>3 DEF Shaped

LEMMA AtIs ==
  ASSUME NEW r \in Request, Shaped(r), r.at <= now, TypeOK
  PROVE  /\ At(r) \in Buckets /\ At(r)[1] = Head(r.checks) /\ At(r)[2] = r.at \div Window
<1>1. r.at \in Nat /\ r.at <= MaxNow
  BY Constants DEF TypeOK, Request
<1> QED BY <1>1, ShapeIs, BucketIs DEF At

LEMMA IdleIs == Idle \in Request /\ Idle.stage = "idle"
  BY DEF Idle, Request, Stages

LEMMA BecomeIs ==
  ASSUME req \in [Slots -> Request], NEW s \in Slots, NEW d \in Request, Become(s, d)
  PROVE  /\ req'[s] = d /\ req' \in [Slots -> Request]
         /\ \A t \in Slots : t # s => req'[t] = req[t]
  BY DEF Become

-----------------------------------------------------------------------------
(* Steps that leave the store alone.                                       *)

Others(s) == \A t \in Slots : t # s => req'[t] = req[t]

(* A request that gives up its bucket leaves it struck.                    *)
Yields(s) ==
  req[s].stage = "expire"
    => (req'[s].stage = "expire" /\ At(req'[s]) = At(req[s])) \/ At(req[s]) \in struck'

LEMMA OwnRequest ==
  ASSUME BaseInv, NEW s \in Slots, Others(s), now' = now, RequestInv(s)'
  PROVE  \A t \in Slots : RequestInv(t)'
<1> SUFFICES ASSUME NEW t \in Slots, t # s PROVE RequestInv(t)'
  OBVIOUS
<1> QED BY DEF BaseInv, RequestInv, Others

LEMMA StoreQuiet ==
  ASSUME BaseInv, NEW s \in Slots, Others(s), store' = store, hitters' = hitters, now' = now,
         late' = late, struck \subseteq struck', TypeOK', RequestInv(s)', HitInv(s)', Yields(s),
         req'[s].stage = "expire" => req[s].stage = "expire" /\ At(req'[s]) = At(req[s])
  PROVE  BaseInv'
<1>1. \A t \in Slots : RequestInv(t)'
  BY OwnRequest
<1>2. \A b \in Buckets : EntryInv(b)'
  BY DEF BaseInv, EntryInv
<1>3. \A t \in Slots : HitInv(t)'
  <2> SUFFICES ASSUME NEW t \in Slots, t # s PROVE HitInv(t)'
    OBVIOUS
  <2> QED BY DEF BaseInv, HitInv, Others
<1>4. FirstInv'
  <2>1. \A t \in Slots : req'[t].stage = "expire" => req[t].stage = "expire" /\ At(req'[t]) = At(req[t])
    BY DEF Others
  <2> QED BY <2>1 DEF BaseInv, FirstInv
<1>5. \A b \in Buckets : TtlInv(b)'
  <2> SUFFICES ASSUME NEW b \in Buckets, store[b].count > 0, b \notin struck',
                      store[b].expiresAt = NoTtl
               PROVE  \E t \in Slots : req'[t].stage = "expire" /\ At(req'[t]) = b
    BY DEF TtlInv
  <2>1. PICK t \in Slots : req[t].stage = "expire" /\ At(req[t]) = b
    BY DEF BaseInv, TtlInv
  <2>2. req'[t].stage = "expire" /\ At(req'[t]) = b
    BY <2>1 DEF Others, Yields
  <2> QED BY <2>2
<1> QED BY <1>1, <1>2, <1>3, <1>4, <1>5 DEF BaseInv

(* A request of u with these scopes is at the first of them.               *)
Fresh(u, checks) ==
  \A r \in Request : r.user = u /\ r.checks = checks /\ r.cleared = {} => Shaped(r)

(* The types, when a step changes one request.                             *)
LEMMA OwnTypes ==
  ASSUME TypeOK, NEW s \in Slots, NEW d \in Request, Become(s, d),
         UNCHANGED <<store, now, hitters>>,
         passed' \in [Buckets -> Nat], alerts' \in [Buckets -> Nat], struck' \subseteq Buckets,
         late' \subseteq Buckets, slow' \subseteq Users
  PROVE  TypeOK' /\ req'[s] = d /\ Others(s)
  BY BecomeIs DEF TypeOK, Others

-----------------------------------------------------------------------------
LEMMA StartBase ==
  ASSUME BaseInv, NEW s \in Slots, NEW u \in Users \cup {Nobody}, NEW checks \in Seq(Keys),
         req[s].stage = "idle", Count(s, u, checks),
         UNCHANGED <<store, now, passed, hitters, alerts, struck, late, slow>>,
         Fresh(u, checks)
  PROVE  /\ BaseInv' /\ Others(s)
         /\ req'[s].stage = "increment" /\ req'[s].checks = checks /\ req'[s].at = now
<1>1. req[s] = Idle /\ req[s] \in Request /\ now \in Nat /\ TypeOK
  BY Constants DEF BaseInv, RequestInv, TypeOK
<1> DEFINE d == [req[s] EXCEPT !.stage = "increment", !.user = u, !.checks = checks,
                               !.at = now, !.count = 0]
<1>2. /\ d \in Request /\ d.stage = "increment" /\ d.user = u /\ d.checks = checks
      /\ d.at = now /\ d.cleared = {}
  <2>1. "increment" \in Stages /\ req[s].cleared = {}
    BY <1>1 DEF Stages, Idle
  <2> HIDE DEF d
  <2>2. d = [req[s] EXCEPT !.stage = "increment", !.user = u, !.checks = checks,
                           !.at = now, !.count = 0]
    BY DEF d
  <2> QED BY <1>1, <2>1, <2>2 DEF Request
<1>3. Become(s, d)
  BY DEF Count
<1> HIDE DEF d
<1>4. TypeOK' /\ req'[s] = d /\ Others(s)
  <2>1. /\ UNCHANGED <<store, now, hitters>>
        /\ passed' \in [Buckets -> Nat] /\ alerts' \in [Buckets -> Nat] /\ struck' \subseteq Buckets
        /\ late' \subseteq Buckets /\ slow' \subseteq Users
    BY <1>1 DEF TypeOK
  <2> QED BY <2>1, <1>1, <1>2, <1>3, OwnTypes
<1>5. RequestInv(s)'
  BY <1>1, <1>2, <1>4 DEF RequestInv, Fresh
<1>6. HitInv(s)' /\ Yields(s)
  BY <1>1, <1>2, <1>4 DEF HitInv, Yields, Idle
<1> QED BY <1>1, <1>2, <1>4, <1>5, <1>6, StoreQuiet

LEMMA GuardBase ==
  ASSUME BaseInv, NEW s \in Slots, NEW u \in Users, NEW i \in Ips, Guard(s, u, i)
  PROVE  BaseInv' /\ Others(s) /\ req'[s].stage = "increment" /\ At(req'[s])[1] = u
<1>0. PICK c : c = <<u, i>>
  OBVIOUS
<1>1. Checks(u, i) = c /\ c \in Seq(Keys) /\ Head(c) = u
  BY <1>0 DEF Checks, Keys
<1>2. Fresh(u, c)
  BY <1>0 DEF Fresh, Shaped
<1>3. req[s].stage = "idle" /\ Count(s, u, c) /\ UNCHANGED <<store, now, passed, hitters, alerts, struck, late, slow>>
  BY <1>1 DEF Guard
<1>4. BaseInv' /\ Others(s) /\ req'[s].stage = "increment" /\ req'[s].checks = c
  <2>1. u \in Users \cup {Nobody}
    OBVIOUS
  <2> QED BY <2>1, <1>1, <1>2, <1>3, StartBase
<1> QED BY <1>1, <1>4 DEF At, Bucket

LEMMA ObserveBase ==
  ASSUME BaseInv, NEW s \in Slots, NEW sig \in Signals, Observe(s, sig)
  PROVE  BaseInv' /\ Others(s) /\ req'[s].stage = "increment" /\ At(req'[s])[1] = sig
<1>1. <<sig>> \in Seq(Keys) /\ Head(<<sig>>) = sig
  BY DEF Keys
<1>2. Fresh(Nobody, <<sig>>)
  BY DEF Fresh, Shaped
<1>3. /\ req[s].stage = "idle" /\ Count(s, Nobody, <<sig>>) /\ Nobody \in Users \cup {Nobody}
      /\ UNCHANGED <<store, now, passed, hitters, alerts, struck, late, slow>>
  BY <1>1 DEF Observe
<1>4. /\ BaseInv' /\ Others(s)
      /\ req'[s].stage = "increment" /\ req'[s].checks = <<sig>>
  BY <1>1, <1>2, <1>3, StartBase
<1> QED BY <1>1, <1>4 DEF At, Bucket

(* A request whose stage alone changes, and is none that counts.           *)
LEMMA EndBase ==
  ASSUME BaseInv, NEW s \in Slots, NEW d \in Request, Become(s, d),
         UNCHANGED <<store, now, hitters>>,
         passed' \in [Buckets -> Nat], alerts' \in [Buckets -> Nat],
         struck \subseteq struck', struck' \subseteq Buckets, late' = late, slow' = slow,
         req[s].stage = "expire" => At(req[s]) \in struck',
         d.stage \in {"idle", "closed", "observed"}, d.stage = "idle" => d = Idle
  PROVE  BaseInv' /\ Others(s) /\ req'[s] = d
<1>1. TypeOK' /\ req'[s] = d /\ Others(s)
  BY OwnTypes DEF BaseInv, TypeOK
<1>2. RequestInv(s)'
  BY <1>1 DEF RequestInv, Active
<1>3. HitInv(s)' /\ Yields(s)
  BY <1>1 DEF HitInv, Yields
<1> QED BY <1>1, <1>2, <1>3, StoreQuiet

LEMMA RemainingIs ==
  ASSUME NEW k \in Keys, NEW n \in Nat
  PROVE  Remaining(k, n) \in Nat
  BY LimitIs DEF Remaining

(* What Judge does, by outcome.                                            *)
JudgeDenies(s) ==
  /\ req[s].count > LimitOf(At(req[s])[1]) /\ passed' = passed
  /\ req'[s].stage = "denied" /\ req'[s].user = req[s].user /\ req'[s].checks = req[s].checks
  /\ req'[s].at = req[s].at /\ req'[s].count = req[s].count /\ req'[s].cleared = req[s].cleared

JudgePasses(s) ==
  /\ req[s].count <= LimitOf(At(req[s])[1])
  /\ passed' = [passed EXCEPT ![At(req[s])] = @ + 1]

JudgeAdmits(s) ==
  /\ req'[s].stage = "admitted" /\ \E i \in Ips : req'[s].cleared = {req'[s].user, i}

JudgeGoesOn(s) ==
  /\ req'[s].stage = "increment" /\ req'[s].user = req[s].user /\ req'[s].at = now
  /\ At(req[s])[1] = req[s].user
  /\ \E i \in Ips : req'[s].checks = <<i>> /\ req'[s].cleared = {req[s].user}
  /\ req[s].user \notin slow' => ~(now \div Window > At(req[s])[2] + 1)

LEMMA JudgeIs ==
  ASSUME BaseInv, NEW s \in Slots, Judge(s)
  PROVE  /\ TypeOK' /\ Others(s) /\ UNCHANGED <<store, now, hitters, alerts, struck, late>>
         /\ slow \subseteq slow'
         /\ At(req[s]) \in Buckets /\ Holds(s, At(req[s])) /\ At(req[s])[1] \notin Signals
         /\ Shaped(req[s]) /\ req[s].at <= now /\ req[s].user \in Users /\ req[s].user \in hitters[At(req[s])]
         /\ \/ JudgeDenies(s)
            \/ JudgePasses(s) /\ (JudgeAdmits(s) \/ JudgeGoesOn(s))
<1> DEFINE r == req[s]
           k == Head(r.checks)
           seen == [r EXCEPT !.remaining = Remaining(k, r.count)]
           ok == [seen EXCEPT !.cleared = @ \cup {k}, !.checks = Tail(@)]
<1>1. r \in Request /\ r.stage = "counted" /\ Guarded(r) /\ now \in Nat /\ TypeOK
  <2>1. r.stage = "counted" /\ Guarded(r)
    BY DEF Judge
  <2> QED BY <2>1, Constants DEF TypeOK, BaseInv
<1>2. Shaped(r) /\ r.at <= now /\ HitInv(s)
  BY <1>1 DEF BaseInv, RequestInv, Active
<1>3. k \in Keys \ Signals /\ r.user \in Users /\ r.checks # << >>
  BY <1>1, <1>2, ShapeIs
<1>4. At(r) \in Buckets /\ At(r)[1] = k
  <2>1. r.at <= now
    BY <1>1, <1>2 DEF Request
  <2> QED BY <2>1, <1>1, <1>2, AtIs
<1>5. seen \in Request /\ seen.checks = r.checks /\ seen.user = r.user /\ seen.cleared = r.cleared
      /\ seen.at = r.at /\ seen.count = r.count
  BY <1>1, <1>3, RemainingIs DEF Request
<1>6. UNCHANGED <<store, now, hitters, alerts, struck, late>>
  BY DEF Judge
<1>7. \/ /\ r.count > LimitOf(k) /\ Become(s, [seen EXCEPT !.stage = "denied"])
         /\ passed' = passed /\ slow' = slow
      \/ /\ r.count <= LimitOf(k) /\ passed' = [passed EXCEPT ![At(r)] = @ + 1]
         /\ slow' = IF ok.checks # << >> /\ now \div Window > At(r)[2] + 1
                    THEN slow \cup {r.user} ELSE slow
         /\ Become(s, IF ok.checks = << >>
                      THEN [ok EXCEPT !.stage = "admitted", !.at = 0, !.count = 0]
                      ELSE [ok EXCEPT !.stage = "increment", !.at = now, !.count = 0])
  BY DEF Judge
<1>8. CASE /\ r.count > LimitOf(k) /\ Become(s, [seen EXCEPT !.stage = "denied"])
           /\ passed' = passed /\ slow' = slow
  <2> DEFINE d == [seen EXCEPT !.stage = "denied"]
  <2>1. d \in Request /\ d.stage = "denied" /\ d.user = r.user /\ d.checks = r.checks
        /\ d.at = r.at /\ d.count = r.count /\ d.cleared = r.cleared
    <3> HIDE DEF seen
    <3> QED BY <1>5 DEF Request, Stages
  <2> HIDE DEF seen, d
  <2>2. Become(s, d)
    BY <1>8 DEF d
  <2>3. /\ UNCHANGED <<store, now, hitters>>
        /\ passed' \in [Buckets -> Nat] /\ alerts' \in [Buckets -> Nat] /\ struck' \subseteq Buckets
        /\ late' \subseteq Buckets /\ slow' \subseteq Users
    BY <1>8, <1>6, <1>1 DEF TypeOK
  <2>4. TypeOK' /\ req'[s] = d /\ Others(s)
    BY <2>1, <2>2, <2>3, <1>1, OwnTypes
  <2>5. JudgeDenies(s)
    BY <2>1, <2>4, <1>8, <1>4 DEF JudgeDenies
  <2>6. slow \subseteq slow'
    BY <1>8
  <2> QED BY <2>5, <2>6, <2>4, <1>1, <1>2, <1>3, <1>4, <1>6 DEF Holds, HitInv
<1>9. CASE /\ r.count <= LimitOf(k) /\ passed' = [passed EXCEPT ![At(r)] = @ + 1]
           /\ slow' = IF ok.checks # << >> /\ now \div Window > At(r)[2] + 1
                      THEN slow \cup {r.user} ELSE slow
           /\ Become(s, IF ok.checks = << >>
                        THEN [ok EXCEPT !.stage = "admitted", !.at = 0, !.count = 0]
                        ELSE [ok EXCEPT !.stage = "increment", !.at = now, !.count = 0])
  <2>1. ok \in Request /\ ok.user = r.user /\ ok.cleared = r.cleared \cup {k} /\ ok.checks = Tail(r.checks)
    <3>1. Tail(r.checks) \in Seq(Keys)
      BY <1>1, <1>3 DEF Request
    <3> HIDE DEF seen, k
    <3>2. seen.cleared \cup {k} \in SUBSET Keys /\ Tail(seen.checks) = Tail(r.checks)
      BY <1>5, <1>3 DEF Request
    <3> QED BY <3>1, <3>2, <1>5 DEF Request
  <2>2. /\ UNCHANGED <<store, now, hitters>>
        /\ passed' \in [Buckets -> Nat] /\ alerts' \in [Buckets -> Nat] /\ struck' \subseteq Buckets
        /\ late' \subseteq Buckets /\ slow' \subseteq Users
    <3> HIDE DEF ok
    <3>1. passed' \in [Buckets -> Nat]
      BY <1>9, <1>1, <1>4 DEF TypeOK
    <3>2. slow' \subseteq Users
      BY <1>9, <1>1, <1>3 DEF TypeOK
    <3> QED BY <3>1, <3>2, <1>6, <1>1 DEF TypeOK
  <2>3. slow \subseteq slow'
    <3> HIDE DEF ok
    <3> QED BY <1>9
  <2>4. \/ \E i \in Ips : r.checks = <<r.user, i>> /\ r.cleared = {}
        \/ \E i \in Ips : r.checks = <<i>> /\ r.cleared = {r.user}
    BY <1>2, <1>3, SubjectAssumption DEF Shaped
  <2>5. CASE \E i \in Ips : r.checks = <<r.user, i>> /\ r.cleared = {}
    <3>1. PICK i \in Ips : r.checks = <<r.user, i>> /\ r.cleared = {}
      BY <2>5
    <3>2. k = r.user /\ Tail(r.checks) = <<i>> /\ <<i>> # << >>
      BY <3>1
    <3> DEFINE d == [ok EXCEPT !.stage = "increment", !.at = now, !.count = 0]
    <3>3. /\ d \in Request /\ d.stage = "increment" /\ d.user = ok.user /\ d.checks = ok.checks
          /\ d.at = now /\ d.cleared = ok.cleared
      <4>1. "increment" \in Stages
        BY DEF Stages
      <4> HIDE DEF ok
      <4> QED BY <4>1, <2>1, <1>1 DEF Request
    <3>4. Become(s, d)
      <4> HIDE DEF ok, k
      <4> QED BY <1>9, <2>1, <3>2 DEF d
    <3> HIDE DEF ok, d
    <3>5. TypeOK' /\ req'[s] = d /\ Others(s)
      BY <3>3, <3>4, <2>2, <1>1, OwnTypes
    <3>6. JudgeGoesOn(s)
      <4>1. r.user \notin slow' => ~(now \div Window > At(r)[2] + 1)
        <5>1. ok.checks # << >>
          BY <2>1, <3>2
        <5> HIDE DEF ok, k
        <5> QED BY <1>9, <5>1
      <4> QED BY <4>1, <3>1, <3>2, <3>3, <3>5, <2>1, <1>4 DEF JudgeGoesOn
    <3>7. JudgePasses(s)
      BY <1>9, <1>4 DEF JudgePasses
    <3> QED BY <3>5, <3>6, <3>7, <2>3, <1>1, <1>2, <1>3, <1>4, <1>6 DEF Holds, HitInv
  <2>6. CASE \E i \in Ips : r.checks = <<i>> /\ r.cleared = {r.user}
    <3>1. PICK i \in Ips : r.checks = <<i>> /\ r.cleared = {r.user}
      BY <2>6
    <3>2. k = i /\ Tail(r.checks) = << >>
      BY <3>1
    <3> DEFINE d == [ok EXCEPT !.stage = "admitted", !.at = 0, !.count = 0]
    <3>3. d \in Request /\ d.stage = "admitted" /\ d.user = ok.user /\ d.cleared = ok.cleared
      <4>1. "admitted" \in Stages
        BY DEF Stages
      <4> HIDE DEF ok
      <4> QED BY <4>1, <2>1, <1>1 DEF Request
    <3>4. Become(s, d)
      <4> HIDE DEF ok, k
      <4> QED BY <1>9, <2>1, <3>2 DEF d
    <3> HIDE DEF ok, d
    <3>5. TypeOK' /\ req'[s] = d /\ Others(s)
      BY <3>3, <3>4, <2>2, <1>1, OwnTypes
    <3>6. JudgeAdmits(s)
      <4>1. req'[s].cleared = {req'[s].user, i}
        BY <3>1, <3>2, <3>3, <3>5, <2>1
      <4> QED BY <4>1, <3>3, <3>5 DEF JudgeAdmits
    <3>7. JudgePasses(s)
      BY <1>9, <1>4 DEF JudgePasses
    <3> QED BY <3>5, <3>6, <3>7, <2>3, <1>1, <1>2, <1>3, <1>4, <1>6 DEF Holds, HitInv
  <2> QED BY <2>4, <2>5, <2>6
<1> QED BY <1>7, <1>8, <1>9

LEMMA JudgeBase ==
  ASSUME BaseInv, NEW s \in Slots, Judge(s)
  PROVE  BaseInv'
<1>1. /\ TypeOK' /\ Others(s) /\ UNCHANGED <<store, now, hitters, alerts, struck, late>>
      /\ Holds(s, At(req[s])) /\ Shaped(req[s]) /\ req[s].at <= now /\ req[s].user \in Users
      /\ At(req[s])[1] = Head(req[s].checks)
  BY JudgeIs DEF At, Bucket
<1>2. req[s] \in Request /\ req'[s] \in Request /\ now \in Nat /\ req[s].stage = "counted"
  BY <1>1, Constants DEF BaseInv, TypeOK, Judge
<1>3. RequestInv(s)' /\ HitInv(s)' /\ req'[s].stage \in {"denied", "admitted", "increment"}
  <2>1. CASE JudgeDenies(s)
    <3>1. Shaped(req'[s])
      BY <2>1, <1>1 DEF JudgeDenies, Shaped
    <3>2. At(req'[s]) = At(req[s])
      BY <2>1 DEF JudgeDenies, At
    <3>3. HitInv(s)'
      BY <2>1, <3>2, <1>1, <1>2 DEF JudgeDenies, BaseInv, HitInv, Guarded
    <3>4. req'[s].at <= now'
      BY <2>1, <1>1, <1>2 DEF JudgeDenies, Request
    <3> QED BY <2>1, <3>1, <3>3, <3>4, <1>1 DEF JudgeDenies, RequestInv, Active
  <2>2. CASE JudgeAdmits(s)
    BY <2>2 DEF JudgeAdmits, RequestInv, HitInv, Active
  <2>3. CASE JudgeGoesOn(s)
    <3>1. Shaped(req'[s])
      BY <2>3, <1>1 DEF JudgeGoesOn, Shaped
    <3> QED BY <2>3, <3>1, <1>1, <1>2 DEF JudgeGoesOn, RequestInv, HitInv, Active
  <2> QED BY <2>1, <2>2, <2>3, JudgeIs DEF JudgeDenies, JudgeAdmits, JudgeGoesOn
<1>4. Yields(s)
  BY <1>2 DEF Yields
<1> QED BY <1>1, <1>2, <1>3, <1>4, StoreQuiet

-----------------------------------------------------------------------------
(* Hits.                                                                   *)

Bumped(n, k) == IF n < Ceiling(k) THEN n + 1 ELSE n

(* What a hit makes of its bucket: it adds to the count, or starts it      *)
(* again if it is late and finds the bucket expired.                       *)
Adds(b) ==
  store'[b].expiresAt = store[b].expiresAt /\ store'[b].count = Bumped(store[b].count, b[1])

Restarts(b) ==
  /\ b \in late' /\ store[b].expiresAt # NoTtl
  /\ store'[b].expiresAt = NoTtl /\ store'[b].count = 1

LEMMA HitIs ==
  ASSUME BaseInv, NEW s \in Slots, req[s].stage = "increment", Hit(s), NEW b, b = At(req[s])
  PROVE  /\ b \in Buckets /\ b[1] = Head(req[s].checks) /\ b[1] \in Keys
         /\ Shaped(req[s]) /\ req[s].at <= now
         /\ store' \in [Buckets -> Entry] /\ hitters' \in [Buckets -> SUBSET Users]
         /\ Adds(b) \/ Restarts(b)
         /\ hitters'[b] = hitters[b] \cup (Users \cap {req[s].user})
         /\ \A c \in Buckets : c # b => store'[c] = store[c] /\ hitters'[c] = hitters[c]
         /\ late \subseteq late' /\ late' \subseteq Buckets
<1>1. /\ req[s] \in Request /\ now \in Nat /\ TypeOK
      /\ Shaped(req[s]) /\ req[s].at <= now
  BY Constants DEF BaseInv, TypeOK, RequestInv, Active
<1>2. b \in Buckets /\ b[1] = Head(req[s].checks) /\ b[1] \in Keys
  BY <1>1, AtIs, ShapeIs
<1>3. store[b] \in Entry /\ store[b].count \in Nat
  BY <1>1, <1>2 DEF TypeOK, Entry
<1>4. /\ store' = [store EXCEPT ![b] = Incremented(store[b], b[1])]
      /\ hitters' = [hitters EXCEPT ![b] = hitters[b] \cup (Users \cap {req[s].user})]
      /\ late' = IF Gone(b, now) THEN late \cup {b} ELSE late
  BY DEF Hit
<1>5. Incremented(store[b], b[1]) = [Live(store[b], now) EXCEPT !.count = Bumped(Live(store[b], now).count, b[1])]
  BY DEF Incremented, Bumped
<1>6. Absent \in Entry /\ Absent.count = 0 /\ Absent.expiresAt = NoTtl /\ Bumped(0, b[1]) = 1
  BY <1>2, LimitIs DEF Absent, Entry, NoTtl, Bumped
<1>7. late \subseteq late' /\ late' \subseteq Buckets
  BY <1>1, <1>2, <1>4 DEF TypeOK
<1>8. CASE Live(store[b], now) = store[b]
  <2>1. Bumped(store[b].count, b[1]) \in Nat
    BY <1>2, <1>3, LimitIs DEF Bumped
  <2>2. /\ Incremented(store[b], b[1]) \in Entry
        /\ Incremented(store[b], b[1]).count = Bumped(store[b].count, b[1])
        /\ Incremented(store[b], b[1]).expiresAt = store[b].expiresAt
    BY <1>3, <1>5, <1>8, <2>1 DEF Entry
  <2>3. Adds(b)
    BY <1>1, <1>2, <1>4, <2>2 DEF Adds, TypeOK
  <2> QED BY <1>1, <1>2, <1>4, <1>7, <2>2, <2>3 DEF TypeOK
<1>9. CASE Live(store[b], now) # store[b]
  <2>1. Live(store[b], now) = Absent /\ store[b].expiresAt # NoTtl /\ store[b].expiresAt <= now
    BY <1>9 DEF Live
  <2>2. Gone(b, now)
    <3>1. ~Gone(b, now) => now < store[b].expiresAt
      BY <1>1, <1>2, <2>1 DEF BaseInv, EntryInv
    <3> QED BY <3>1, <2>1, <1>1, <1>3 DEF Entry, NoTtl
  <2>3. /\ Incremented(store[b], b[1]) \in Entry
        /\ Incremented(store[b], b[1]).count = 1
        /\ Incremented(store[b], b[1]).expiresAt = NoTtl
    BY <1>5, <1>6, <2>1 DEF Entry
  <2>4. Restarts(b)
    BY <1>1, <1>2, <1>4, <2>1, <2>2, <2>3 DEF Restarts, TypeOK
  <2> QED BY <1>1, <1>2, <1>4, <1>7, <2>3, <2>4 DEF TypeOK
<1> QED BY <1>8, <1>9

LEMMA BumpedIs ==
  ASSUME NEW k \in Keys, NEW n \in Nat
  PROVE  /\ Bumped(n, k) \in Nat /\ Bumped(n, k) >= n /\ Bumped(n, k) >= 1
         /\ Bumped(n, k) = 1 => n = 0
         /\ n < Ceiling(k) => Bumped(n, k) = n + 1
         /\ Bumped(n, k) <= n + 1
         /\ Bumped(n, k) < Ceiling(k) => Bumped(n, k) = n + 1
  BY LimitIs DEF Bumped

LEMMA HitAt ==
  ASSUME BaseInv, NEW t \in Slots, req[t].stage \in {"expire", "counted", "denied"}
  PROVE  At(req[t]) \in Buckets /\ At(req[t])[1] = Head(req[t].checks) /\ req[t].count \in Nat
<1>1. req[t] \in Request /\ now \in Nat /\ TypeOK
  BY Constants DEF BaseInv, TypeOK
<1>2. Shaped(req[t]) /\ req[t].at <= now
  BY <1>1 DEF BaseInv, RequestInv, Active, Request
<1> QED BY <1>1, <1>2, AtIs DEF Request

LEMMA HitBase ==
  ASSUME BaseInv, NEW s \in Slots, req[s].stage = "increment", Hit(s), NEW b, b = At(req[s]),
         Others(s), now' = now, TypeOK', RequestInv(s)', HitInv(s)', struck \subseteq struck',
         req'[s].stage = "expire" => At(req'[s]) = b /\ store'[b].count = 1,
         store'[b].count = 1 => b \in struck' \/ (req'[s].stage = "expire" /\ At(req'[s]) = b)
  PROVE  BaseInv'
<1>1. \A t \in Slots : RequestInv(t)'
  BY OwnRequest
<1>2. /\ b \in Buckets /\ b[1] \in Keys /\ (Adds(b) \/ Restarts(b))
      /\ \A c \in Buckets : c # b => store'[c] = store[c] /\ hitters'[c] = hitters[c]
      /\ \A c \in Buckets : hitters[c] \subseteq hitters'[c]
      /\ late \subseteq late'
  <2>1. /\ b \in Buckets /\ b[1] \in Keys /\ (Adds(b) \/ Restarts(b))
        /\ late \subseteq late'
    BY HitIs
  <2>2. /\ \A c \in Buckets : c # b => store'[c] = store[c] /\ hitters'[c] = hitters[c]
        /\ hitters'[b] = hitters[b] \cup (Users \cap {req[s].user})
    BY HitIs
  <2> QED BY <2>1, <2>2
<1>3. \A c \in Buckets : store[c].count \in Nat
  BY DEF BaseInv, TypeOK, Entry
<1>4. \A c \in Buckets : ~Restarts(c) =>
        /\ store'[c].count \in Nat /\ store'[c].count >= store[c].count
        /\ store'[c].expiresAt = store[c].expiresAt
  BY <1>2, <1>3, BumpedIs DEF Adds
<1>5. /\ store'[b].count >= 1
      /\ store'[b].count = 1 => Restarts(b) \/ store[b].count = 0
  BY <1>2, <1>3, BumpedIs DEF Adds, Restarts
<1>6. \A c \in Buckets : EntryInv(c)'
  <2> SUFFICES ASSUME NEW c \in Buckets PROVE EntryInv(c)'
    OBVIOUS
  <2>1. store'[c].count = 0 => store'[c].expiresAt = NoTtl
    BY <1>2, <1>5 DEF BaseInv, EntryInv
  <2>2. store'[c].expiresAt = store[c].expiresAt \/ store'[c].expiresAt = NoTtl
    BY <1>4 DEF Restarts
  <2> QED BY <2>1, <2>2 DEF BaseInv, EntryInv
<1>7. \A t \in Slots : req[t].stage \in {"expire", "counted", "denied"} =>
        /\ At(req[t]) \in Buckets /\ req[t].count \in Nat
  BY HitAt
<1>8. \A t \in Slots : HitInv(t)'
  <2> SUFFICES ASSUME NEW t \in Slots, t # s PROVE HitInv(t)'
    OBVIOUS
  <2>1. req'[t] = req[t] /\ At(req'[t]) = At(req[t])
    BY DEF Others
  <2>2. HitInv(t)
    BY DEF BaseInv
  <2>3. CASE req[t].stage \in {"expire", "counted", "denied"}
    <3>1. At(req[t]) \in Buckets /\ req[t].count \in Nat
      BY <2>3, <1>7
    <3>2. hitters[At(req[t])] \subseteq hitters'[At(req[t])]
      BY <3>1, <1>2
    <3>3. At(req[t]) \notin late' => req[t].count <= store'[At(req[t])].count
      <4> SUFFICES ASSUME At(req[t]) \notin late' PROVE req[t].count <= store'[At(req[t])].count
        OBVIOUS
      <4>1. At(req[t]) \notin late /\ ~Restarts(At(req[t]))
        BY <1>2 DEF Restarts
      <4>2. req[t].count <= store[At(req[t])].count
        BY <4>1, <2>2, <2>3 DEF HitInv
      <4> QED BY <4>1, <4>2, <3>1, <1>3, <1>4
    <3>4. req[t].stage = "expire" => 1 <= store'[At(req[t])].count
      <4>1. CASE Restarts(At(req[t]))
        BY <4>1 DEF Restarts
      <4>2. CASE ~Restarts(At(req[t]))
        BY <4>2, <2>2, <3>1, <1>3, <1>4 DEF HitInv
      <4> QED BY <4>1, <4>2
    <3> QED BY <2>1, <2>2, <3>1, <3>2, <3>3, <3>4 DEF HitInv, Guarded
  <2>4. CASE req[t].stage \notin {"expire", "counted", "denied"}
    BY <2>1, <2>4 DEF HitInv
  <2> QED BY <2>3, <2>4
<1>9. FirstInv'
  <2>1. \A t \in Slots : t # s /\ req'[t].stage = "expire" =>
          /\ req[t].stage = "expire" /\ At(req'[t]) = At(req[t]) /\ At(req[t]) \in Buckets
          /\ store'[At(req[t])].expiresAt = NoTtl
          /\ store'[b].count = 1 => At(req[t]) # b
    <3> SUFFICES ASSUME NEW t \in Slots, t # s, req'[t].stage = "expire"
                 PROVE  /\ req[t].stage = "expire" /\ At(req'[t]) = At(req[t]) /\ At(req[t]) \in Buckets
                        /\ store'[At(req[t])].expiresAt = NoTtl
                        /\ store'[b].count = 1 => At(req[t]) # b
      OBVIOUS
    <3>1. req[t].stage = "expire" /\ At(req'[t]) = At(req[t])
      BY DEF Others
    <3>2. At(req[t]) \in Buckets /\ req[t].count \in Nat
      BY <3>1, <1>7
    <3>3. 1 <= store[At(req[t])].count /\ store[At(req[t])].expiresAt = NoTtl
      BY <3>1 DEF BaseInv, HitInv, FirstInv
    <3>4. ~Restarts(At(req[t])) /\ store'[At(req[t])].expiresAt = NoTtl
      BY <3>2, <3>3, <1>4 DEF Restarts
    <3>5. ASSUME store'[b].count = 1, At(req[t]) = b PROVE FALSE
      BY <3>3, <3>4, <3>5, <1>5
    <3> QED BY <3>1, <3>2, <3>4, <3>5
  <2>2. req'[s].stage = "expire" => At(req'[s]) = b /\ store'[b].count = 1 /\ store'[b].expiresAt = NoTtl
    <3>1. store[b].count = 0 => store[b].expiresAt = NoTtl
      BY <1>2 DEF BaseInv, EntryInv
    <3> QED BY <3>1, <1>2, <1>5 DEF Adds, Restarts
  <2> SUFFICES ASSUME NEW t \in Slots, req'[t].stage = "expire"
               PROVE  /\ store'[At(req'[t])].expiresAt = NoTtl
                      /\ \A v \in Slots : req'[v].stage = "expire" /\ At(req'[v]) = At(req'[t]) => v = t
    BY DEF FirstInv
  <2>3. store'[At(req'[t])].expiresAt = NoTtl
    BY <2>1, <2>2
  <2>4. ASSUME NEW v \in Slots, req'[v].stage = "expire", At(req'[v]) = At(req'[t]), v # t PROVE FALSE
    <3>1. CASE t = s \/ v = s
      BY <3>1, <2>4, <2>1, <2>2
    <3>2. CASE t # s /\ v # s
      BY <3>2, <2>4, <2>1 DEF BaseInv, FirstInv
    <3> QED BY <3>1, <3>2
  <2> QED BY <2>3, <2>4
<1>10. \A c \in Buckets : TtlInv(c)'
  <2> SUFFICES ASSUME NEW c \in Buckets, c \notin struck', store'[c].expiresAt = NoTtl, store'[c].count > 0
               PROVE  \E t \in Slots : req'[t].stage = "expire" /\ At(req'[t]) = c
    BY DEF TtlInv
  <2>0. CASE Restarts(c)
    <3>1. c = b /\ store'[b].count = 1
      BY <2>0, <1>2 DEF Restarts
    <3> QED BY <3>1
  <2>1. CASE store[c].count > 0 /\ ~Restarts(c)
    <3>1. PICK t \in Slots : req[t].stage = "expire" /\ At(req[t]) = c
      BY <2>1, <1>4 DEF BaseInv, TtlInv
    <3>2. req'[t] = req[t]
      BY <3>1 DEF Others
    <3> QED BY <3>1, <3>2
  <2>2. CASE ~(store[c].count > 0)
    <3>1. store[c].count = 0
      BY <2>2, <1>3
    <3>2. c = b
      BY <3>1, <1>2
    <3>3. store'[b].count = 1
      BY <3>1, <3>2, <1>2, LimitIs DEF Adds, Restarts, Bumped
    <3> QED BY <3>2, <3>3
  <2> QED BY <2>0, <2>1, <2>2
<1> QED BY <1>1, <1>6, <1>8, <1>9, <1>10 DEF BaseInv

LEMMA IncrementIs ==
  ASSUME BaseInv, NEW s \in Slots, Increment(s), NEW b, b = At(req[s])
  PROVE  /\ req[s].stage = "increment" /\ Hit(s) /\ UNCHANGED <<now, passed, alerts, struck, slow>>
         /\ TypeOK' /\ Others(s) /\ Holds(s, b)'
         /\ req'[s].user = req[s].user /\ req'[s].checks = req[s].checks
         /\ req'[s].at = req[s].at /\ req'[s].cleared = req[s].cleared
         /\ req'[s].count = store'[b].count
         /\ (req'[s].stage = "expire") <=> (store'[b].count = 1)
<1> DEFINE n == store'[b].count
           x == IF Stays(n) THEN "counted" ELSE "expire"
           d == [req[s] EXCEPT !.stage = x, !.count = n]
<1>1. /\ req[s].stage = "increment" /\ Hit(s) /\ UNCHANGED <<now, passed, alerts, struck, slow>>
      /\ Become(s, d)
  BY DEF Increment
<1>2. req[s] \in Request /\ now \in Nat /\ TypeOK
  BY Constants DEF BaseInv, TypeOK
<1>3. /\ b \in Buckets /\ store' \in [Buckets -> Entry] /\ hitters' \in [Buckets -> SUBSET Users]
      /\ late' \subseteq Buckets
  BY <1>1, HitIs
<1>4. n \in Nat
  BY <1>3 DEF Entry
<1>5. x \in Stages /\ x \in {"expire", "counted"} /\ (x = "expire" <=> n = 1)
  BY <1>2 DEF Stages, Request, Stays
<1>6. /\ d \in Request /\ d.stage = x /\ d.count = n /\ d.user = req[s].user
      /\ d.checks = req[s].checks /\ d.at = req[s].at /\ d.cleared = req[s].cleared
  <2> HIDE DEF n, x
  <2> QED BY <1>2, <1>4, <1>5 DEF Request
<1> HIDE DEF d, x
<1>7. req'[s] = d /\ req' \in [Slots -> Request] /\ Others(s)
  BY <1>1, <1>2, <1>6, BecomeIs DEF TypeOK, Others
<1>8. TypeOK'
  BY <1>1, <1>2, <1>3, <1>7 DEF TypeOK
<1>9. At(d) = b
  BY <1>6 DEF At
<1> QED BY <1>1, <1>5, <1>6, <1>7, <1>8, <1>9 DEF Holds

LEMMA IncrementBase ==
  ASSUME BaseInv, NEW s \in Slots, Increment(s)
  PROVE  BaseInv'
<1>0. PICK b : b = At(req[s])
  OBVIOUS
<1>1. /\ req[s].stage = "increment" /\ Hit(s) /\ UNCHANGED <<now, passed, alerts, struck, slow>>
      /\ TypeOK' /\ Others(s) /\ Holds(s, b)'
      /\ req'[s].user = req[s].user /\ req'[s].checks = req[s].checks
      /\ req'[s].at = req[s].at /\ req'[s].cleared = req[s].cleared
      /\ req'[s].count = store'[b].count
      /\ (req'[s].stage = "expire") <=> (store'[b].count = 1)
  BY <1>0, IncrementIs
<1>2. /\ b \in Buckets /\ b[1] \in Keys /\ Shaped(req[s]) /\ req[s].at <= now
      /\ Adds(b) \/ Restarts(b)
      /\ hitters'[b] = hitters[b] \cup (Users \cap {req[s].user})
  BY <1>0, <1>1, HitIs
<1>3. req[s] \in Request /\ req'[s] \in Request /\ now \in Nat /\ store[b].count \in Nat
  BY <1>1, <1>2, Constants DEF BaseInv, TypeOK, Entry
<1>4. req'[s].stage \in {"expire", "counted"} /\ At(req'[s]) = b
  BY <1>1 DEF Holds
<1>5. RequestInv(s)'
  <2>1. Shaped(req'[s])
    BY <1>1, <1>2 DEF Shaped
  <2>2. req'[s].at <= now'
    BY <1>1, <1>2
  <2> QED BY <2>1, <2>2, <1>4 DEF RequestInv
<1>6. HitInv(s)'
  <2>1. 1 <= req'[s].count
    BY <1>1, <1>2, <1>3, BumpedIs DEF Adds, Restarts
  <2>2. Guarded(req[s]) => req[s].user \in Users
    BY <1>2, <1>3, ShapeIs
  <2> QED BY <2>1, <2>2, <1>1, <1>2, <1>3, <1>4 DEF HitInv, Guarded, Request
<1> QED BY <1>1, <1>4, <1>5, <1>6, HitBase, <1>0

(* Expire gives the bucket a TTL that outlives every hit on it.            *)
LEMMA ExpireIs ==
  ASSUME BaseInv, NEW s \in Slots, Expire(s), NEW b, b = At(req[s])
  PROVE  /\ req[s].stage = "expire" /\ UNCHANGED <<now, passed, hitters, alerts, struck, late, slow>>
         /\ TypeOK' /\ Others(s) /\ b \in Buckets
         /\ req'[s].stage = "counted" /\ req'[s].user = req[s].user /\ req'[s].checks = req[s].checks
         /\ req'[s].at = req[s].at /\ req'[s].count = req[s].count
         /\ req'[s].cleared = req[s].cleared
         /\ store'[b].count = store[b].count /\ store'[b].expiresAt = now + Ttl
         /\ store[b].count > 0
         /\ \A c \in Buckets : c # b => store'[c] = store[c]
<1>1. /\ req[s].stage = "expire" /\ UNCHANGED <<now, passed, hitters, alerts, struck, late, slow>>
      /\ store' = [store EXCEPT ![b] =
           IF Live(store[b], now).count = 0 THEN Absent ELSE [store[b] EXCEPT !.expiresAt = now + Ttl]]
      /\ Become(s, [req[s] EXCEPT !.stage = "counted"])
  BY DEF Expire
<1>2. /\ req[s] \in Request /\ now \in Nat /\ TypeOK
      /\ Shaped(req[s]) /\ req[s].at <= now
  BY <1>1, Constants DEF BaseInv, TypeOK, RequestInv, Active
<1>3. b \in Buckets
  <2>1. req[s].at <= now
    BY <1>2 DEF Request
  <2> QED BY <2>1, <1>2, AtIs
<1>4. store[b] \in Entry /\ store[b].count \in Nat /\ req[s].count \in Nat
  BY <1>2, <1>3 DEF TypeOK, Entry, Request
<1>5. store[b].expiresAt = NoTtl /\ store[b].count > 0
  BY <1>1, <1>4 DEF BaseInv, FirstInv, HitInv
<1>6. Live(store[b], now) = store[b]
  BY <1>5 DEF Live
<1>7. now + Ttl \in Nat
  BY <1>2, Constants DEF Ttl
<1>8. LET e == [store[b] EXCEPT !.expiresAt = now + Ttl]
      IN e \in Entry /\ e.count = store[b].count /\ e.expiresAt = now + Ttl
  BY <1>4, <1>7 DEF Entry
<1>9. /\ store' \in [Buckets -> Entry]
      /\ store'[b].count = store[b].count /\ store'[b].expiresAt = now + Ttl
      /\ \A c \in Buckets : c # b => store'[c] = store[c]
  BY <1>1, <1>2, <1>3, <1>5, <1>6, <1>8 DEF TypeOK
<1> DEFINE d == [req[s] EXCEPT !.stage = "counted"]
<1>10. /\ d \in Request /\ d.stage = "counted" /\ d.count = req[s].count
       /\ d.user = req[s].user /\ d.checks = req[s].checks /\ d.at = req[s].at
       /\ d.cleared = req[s].cleared
  BY <1>2 DEF Request, Stages
<1>11. Become(s, d)
  BY <1>1
<1> HIDE DEF d
<1>12. req'[s] = d /\ req' \in [Slots -> Request] /\ Others(s)
  BY <1>2, <1>10, <1>11, BecomeIs DEF TypeOK, Others
<1>13. TypeOK'
  BY <1>1, <1>2, <1>9, <1>12 DEF TypeOK
<1> QED BY <1>1, <1>3, <1>5, <1>9, <1>10, <1>12, <1>13

LEMMA ExpireBase ==
  ASSUME BaseInv, NEW s \in Slots, Expire(s)
  PROVE  BaseInv'
<1>0. PICK b : b = At(req[s])
  OBVIOUS
<1>1. /\ req[s].stage = "expire" /\ UNCHANGED <<now, passed, hitters, alerts, struck, late, slow>>
      /\ TypeOK' /\ Others(s) /\ b \in Buckets
      /\ req'[s].stage = "counted" /\ req'[s].user = req[s].user /\ req'[s].checks = req[s].checks
      /\ req'[s].at = req[s].at /\ req'[s].count = req[s].count
      /\ req'[s].cleared = req[s].cleared
      /\ store'[b].count = store[b].count /\ store'[b].expiresAt = now + Ttl
      /\ store[b].count > 0
      /\ \A c \in Buckets : c # b => store'[c] = store[c]
  BY <1>0, ExpireIs
<1>2. At(req'[s]) = b
  BY <1>0, <1>1 DEF At
<1>3. /\ req[s] \in Request /\ now \in Nat /\ Shaped(req[s]) /\ req[s].at <= now
      /\ TypeOK
  BY <1>1, Constants DEF BaseInv, TypeOK, RequestInv, Active
<1>4. b[2] = req[s].at \div Window /\ req[s].at \in Nat /\ req[s].at <= now
  <2>1. req[s].at <= now
    BY <1>3 DEF Request
  <2> QED BY <1>0, <2>1, <1>3, AtIs DEF Request
<1>5. \A t \in Slots : RequestInv(t)'
  <2>1. Shaped(req'[s])
    BY <1>1, <1>3 DEF Shaped
  <2>2. req[s].at <= now'
    BY <1>1, <1>3 
  <2>3. RequestInv(s)'
    BY <2>1, <2>2, <1>1 DEF RequestInv
  <2> QED BY <2>3, <1>1, OwnRequest
<1>6. \A c \in Buckets : EntryInv(c)'
  <2>1. EntryInv(b)'
    <3>1. ASSUME NEW t \in Nat, ~Gone(b, t) PROVE t < now + Ttl
      <4>1. t < req[s].at + Ttl
        BY <3>1, <1>1, <1>4, TtlIsEnough
      <4> QED BY <4>1, <1>3, <1>4, Constants DEF Ttl
    <3> QED BY <3>1, <1>1, Constants DEF EntryInv
  <2> QED BY <2>1, <1>1 DEF BaseInv, EntryInv
<1>7. \A c \in Buckets : store'[c].count = store[c].count
  BY <1>1
<1>8. \A t \in Slots : HitInv(t)'
  <2>1. ASSUME NEW t \in Slots, req[t].stage \in {"expire", "counted", "denied"} PROVE HitInv(t)'
    <3>1. /\ At(req'[t]) = At(req[t]) /\ req'[t].count = req[t].count /\ req'[t].user = req[t].user
          /\ req'[t].stage = req[t].stage \/ (t = s)
      BY <1>0, <1>1, <1>2 DEF Others
    <3>2. store'[At(req[t])].count = store[At(req[t])].count
      BY <1>7, <2>1, HitAt
    <3> QED BY <3>1, <3>2, <1>1 DEF BaseInv, HitInv, Guarded
  <2>2. ASSUME NEW t \in Slots, req[t].stage \notin {"expire", "counted", "denied"} PROVE HitInv(t)'
    BY <2>2, <1>1 DEF Others, HitInv
  <2> QED BY <2>1, <2>2
<1>9. FirstInv'
  <2>1. ASSUME NEW t \in Slots, req'[t].stage = "expire"
        PROVE  /\ t # s /\ req'[t] = req[t] /\ At(req[t]) # b
               /\ store'[At(req[t])] = store[At(req[t])]
    <3>1. t # s /\ req'[t] = req[t]
      BY <1>1, <2>1 DEF Others
    <3>2. At(req[t]) # b
      BY <1>0, <3>1, <2>1, <1>1 DEF BaseInv, FirstInv
    <3>3. At(req[t]) \in Buckets
      <4>1. req[t].stage = "expire"
        BY <3>1, <2>1
      <4> QED BY <4>1, HitAt
    <3> QED BY <3>1, <3>2, <3>3, <1>1
  <2> QED BY <2>1 DEF BaseInv, FirstInv
<1>10. \A c \in Buckets : TtlInv(c)'
  <2>1. TtlInv(b)'
    BY <1>1, <1>3, Constants DEF TtlInv, NoTtl, Ttl
  <2>2. ASSUME NEW c \in Buckets, c # b PROVE TtlInv(c)'
    <3>1. store'[c] = store[c] /\ TtlInv(c) /\ struck' = struck
      BY <2>2, <1>1 DEF BaseInv
    <3>2. \A t \in Slots : req[t].stage = "expire" /\ At(req[t]) = c => req'[t] = req[t]
      BY <1>0, <2>2, <1>1 DEF Others
    <3> QED BY <3>1, <3>2 DEF TtlInv
  <2> QED BY <2>1, <2>2
<1> QED BY <1>1, <1>5, <1>6, <1>8, <1>9, <1>10 DEF BaseInv

-----------------------------------------------------------------------------
(* Steps that end or only wait.                                            *)

Ends(s) ==
  /\ req'[s].stage \in {"idle", "closed", "observed"}
  /\ \/ ~Active(req[s])
     \/ At(req[s]) \in struck'
     \/ req[s].stage = "counted" /\ ~Guarded(req[s])

LEMMA ActiveAt ==
  ASSUME BaseInv, NEW s \in Slots, Active(req[s])
  PROVE  At(req[s]) \in Buckets /\ At(req[s])[1] = Head(req[s].checks) /\ At(req[s])[1] \in Keys
<1>1. req[s] \in Request /\ now \in Nat /\ TypeOK
  BY Constants DEF BaseInv, TypeOK
<1>2. Shaped(req[s]) /\ req[s].at <= now
  BY <1>1 DEF BaseInv, RequestInv, Active, Request
<1> QED BY <1>1, <1>2, AtIs, ShapeIs

LEMMA EscalateBase ==
  ASSUME BaseInv, NEW s \in Slots, Escalate(s)
  PROVE  /\ BaseInv' /\ Others(s) /\ Ends(s) /\ At(req[s]) \in Buckets
         /\ UNCHANGED <<store, now, passed, hitters, struck, late, slow>>
         /\ Holds(s, At(req[s])) /\ At(req[s])[1] \in Signals
         /\ alerts' = IF Tripped(req[s].count) THEN [alerts EXCEPT ![At(req[s])] = @ + 1] ELSE alerts
<1> DEFINE d == [req[s] EXCEPT !.stage = "observed"]
<1>1. /\ req[s].stage = "counted" /\ ~Guarded(req[s])
      /\ alerts' = IF Tripped(req[s].count) THEN [alerts EXCEPT ![At(req[s])] = @ + 1] ELSE alerts
      /\ Become(s, d)
      /\ UNCHANGED <<store, now, passed, hitters, struck, late, slow>>
  BY DEF Escalate
<1>2. req[s] \in Request /\ TypeOK /\ Shaped(req[s])
  BY <1>1 DEF BaseInv, TypeOK, RequestInv, Active
<1>3. At(req[s]) \in Buckets /\ At(req[s])[1] \in Signals
  BY <1>1, <1>2, ActiveAt, ShapeIs DEF Active
<1>4. d \in Request /\ d.stage = "observed"
  BY <1>2 DEF Request, Stages
<1> HIDE DEF d
<1>5. /\ UNCHANGED <<store, now, hitters>>
      /\ passed' \in [Buckets -> Nat] /\ alerts' \in [Buckets -> Nat]
      /\ struck \subseteq struck' /\ struck' \subseteq Buckets
  BY <1>1, <1>2, <1>3 DEF TypeOK
<1>6. BaseInv' /\ Others(s) /\ req'[s] = d
  BY <1>1, <1>4, <1>5, EndBase
<1>7. Ends(s)
  BY <1>1, <1>4, <1>6 DEF Ends
<1>8. Holds(s, At(req[s]))
  BY <1>1 DEF Holds
<1> QED BY <1>1, <1>3, <1>6, <1>7, <1>8

LEMMA ReplyBase ==
  ASSUME BaseInv, NEW s \in Slots, Reply(s)
  PROVE  BaseInv' /\ Others(s) /\ Ends(s) /\ UNCHANGED <<store, now, passed, hitters, alerts, struck, late, slow>>
<1>1. /\ req[s].stage \in {"admitted", "denied", "closed", "observed"} /\ Become(s, Idle)
      /\ UNCHANGED <<store, now, passed, hitters, alerts, struck, late, slow>>
  BY DEF Reply
<1>2. /\ UNCHANGED <<store, now, hitters>>
      /\ passed' \in [Buckets -> Nat] /\ alerts' \in [Buckets -> Nat]
      /\ struck \subseteq struck' /\ struck' \subseteq Buckets
  BY <1>1 DEF BaseInv, TypeOK
<1>3. BaseInv' /\ Others(s) /\ req'[s] = Idle
  BY <1>1, <1>2, IdleIs, EndBase
<1> QED BY <1>1, <1>3, IdleIs DEF Ends, Active

LEMMA GoDownBase ==
  ASSUME BaseInv, NEW s \in Slots, GoDown(s)
  PROVE  /\ BaseInv' /\ Others(s) /\ Ends(s)
         /\ UNCHANGED <<store, now, passed, hitters, alerts, late, slow>> /\ struck \subseteq struck'
<1>1. /\ Active(req[s]) /\ Become(s, Idle) /\ struck' = struck \cup {At(req[s])}
      /\ UNCHANGED <<store, now, passed, hitters, alerts, late, slow>>
  BY DEF GoDown, Active
<1>2. At(req[s]) \in Buckets
  BY <1>1, ActiveAt
<1>3. /\ UNCHANGED <<store, now, hitters, late, slow>>
      /\ passed' \in [Buckets -> Nat] /\ alerts' \in [Buckets -> Nat]
      /\ struck \subseteq struck' /\ struck' \subseteq Buckets /\ At(req[s]) \in struck'
  BY <1>1, <1>2 DEF BaseInv, TypeOK
<1>4. BaseInv' /\ Others(s) /\ req'[s] = Idle
  BY <1>1, <1>3, IdleIs, EndBase
<1> QED BY <1>1, <1>3, <1>4, IdleIs DEF Ends

(* A rejected command leaves its bucket struck, whether it hit or not.     *)
LEMMA RejectBase ==
  ASSUME BaseInv, NEW s \in Slots, Reject(s)
  PROVE  /\ BaseInv' /\ Others(s) /\ Ends(s)
         /\ UNCHANGED <<now, passed, alerts, slow>> /\ struck \subseteq struck' /\ At(req[s]) \in struck'
         /\ UNCHANGED <<store, hitters, late>> \/ (req[s].stage = "increment" /\ Hit(s))
<1> DEFINE d == Rejected(req[s])
<1>1. /\ Active(req[s]) /\ Become(s, d) /\ struck' = struck \cup {At(req[s])}
      /\ UNCHANGED <<now, passed, alerts, slow>>
      /\ UNCHANGED <<store, hitters, late>> \/ (req[s].stage = "increment" /\ Hit(s))
  BY DEF Reject, Active
<1>2. At(req[s]) \in Buckets /\ req[s] \in Request /\ TypeOK
  BY <1>1, ActiveAt DEF BaseInv, TypeOK
<1>3. d \in Request /\ d.stage \in {"closed", "observed"}
  BY <1>2 DEF Rejected, Request, Stages
<1> HIDE DEF d
<1>4. /\ passed' \in [Buckets -> Nat] /\ alerts' \in [Buckets -> Nat]
      /\ struck \subseteq struck' /\ struck' \subseteq Buckets /\ At(req[s]) \in struck'
  BY <1>1, <1>2 DEF TypeOK
<1>5. BaseInv' /\ Others(s) /\ req'[s] = d
  <2>1. CASE UNCHANGED <<store, hitters, late>>
    <3>1. UNCHANGED <<store, now, hitters, late, slow>>
      BY <2>1, <1>1
    <3> QED BY <3>1, <1>1, <1>3, <1>4, EndBase
  <2>2. CASE req[s].stage = "increment" /\ Hit(s)
    <3>1. req'[s] = d /\ req' \in [Slots -> Request] /\ Others(s)
      BY <1>1, <1>2, <1>3, BecomeIs DEF TypeOK, Others
    <3>2. /\ store' \in [Buckets -> Entry] /\ hitters' \in [Buckets -> SUBSET Users]
          /\ late' \subseteq Buckets
      BY <2>2, HitIs
    <3>3. TypeOK'
      BY <1>1, <1>2, <1>4, <3>1, <3>2 DEF TypeOK
    <3>4. RequestInv(s)' /\ HitInv(s)' /\ req'[s].stage # "expire"
      BY <1>3, <3>1 DEF RequestInv, HitInv, Active
    <3>5. PICK b : b = At(req[s])
      OBVIOUS
    <3>6. BaseInv'
      BY <2>2, <3>1, <3>3, <3>4, <3>5, <1>1, <1>4, HitBase
    <3> QED BY <3>1, <3>6
  <2> QED BY <2>1, <2>2, <1>1
<1> QED BY <1>1, <1>3, <1>4, <1>5 DEF Ends

LEMMA TickBase ==
  ASSUME BaseInv, Tick
  PROVE  BaseInv' /\ UNCHANGED <<store, req, passed, hitters, alerts, struck, late, slow>>
<1>1. UNCHANGED <<store, req, passed, hitters, alerts, struck, late, slow>> /\ now' = now + 1 /\ now < MaxNow
  BY DEF Tick
<1>2. now \in Nat /\ TypeOK /\ now' \in 0..MaxNow
  BY <1>1, Constants DEF BaseInv, TypeOK
<1>3. TypeOK'
  BY <1>1, <1>2 DEF TypeOK
<1>4. ASSUME NEW s \in Slots PROVE RequestInv(s)'
  <2>1. req[s] \in Request /\ RequestInv(s)
    BY DEF BaseInv, TypeOK
  <2>2. Active(req[s]) => req[s].at <= now'
    BY <2>1, <1>1, <1>2 DEF RequestInv, Request
  <2>3. req[s].stage = "denied" => req[s].at <= now'
    BY <2>1, <1>1, <1>2 DEF RequestInv, Request
  <2> QED BY <2>1, <2>2, <2>3, <1>1 DEF RequestInv
<1>5. /\ \A b \in Buckets : EntryInv(b)'
      /\ \A s \in Slots : HitInv(s)'
      /\ FirstInv'
      /\ \A b \in Buckets : TtlInv(b)'
  BY <1>1 DEF BaseInv, EntryInv, HitInv, FirstInv, TtlInv
<1> QED BY <1>1, <1>3, <1>4, <1>5 DEF BaseInv

-----------------------------------------------------------------------------
(* Within the limit.                                                       *)

LEMMA CountTypes ==
  ASSUME TypeOK, NEW b \in Buckets
  PROVE  /\ store[b].count \in Nat /\ passed[b] \in Nat /\ alerts[b] \in Nat
         /\ b[1] \in Keys /\ LimitOf(b[1]) \in Nat
  BY LimitIs DEF TypeOK, Entry, Buckets

LEMMA CountQuiet ==
  ASSUME TypeOK, TypeOK', NEW b \in Buckets, CountInv(b), Passing(b)' \subseteq Passing(b),
         late \subseteq late',
         passed'[b] = passed[b], b \notin late' => store'[b].count >= store[b].count
  PROVE  CountInv(b)'
<1> SUFFICES ASSUME b[1] \notin Signals, b \notin late'
             PROVE  /\ IsFiniteSet(Passing(b)')
                    /\ passed'[b] + Cardinality(Passing(b)') <= LimitOf(b[1])
                    /\ passed'[b] + Cardinality(Passing(b)') <= store'[b].count
  BY DEF CountInv
<1>1. /\ IsFiniteSet(Passing(b)') /\ Cardinality(Passing(b)') <= Cardinality(Passing(b))
      /\ Cardinality(Passing(b)) \in Nat /\ Cardinality(Passing(b)') \in Nat
  BY FS_Subset, FS_CardinalityType DEF CountInv
<1>2. store[b].count \in Nat /\ passed[b] \in Nat /\ LimitOf(b[1]) \in Nat
  BY CountTypes
<1>3. store'[b].count \in Nat
  BY DEF TypeOK, Entry
<1> QED BY <1>1, <1>2, <1>3 DEF CountInv

LEMMA CountHit ==
  ASSUME TypeOK, TypeOK', NEW b \in Buckets, CountInv(b), NEW s \in Slots,
         Passing(b)' \subseteq Passing(b) \cup {s},
         passed'[b] = passed[b], late \subseteq late', b \notin late' => Adds(b),
         s \in Passing(b)' => store'[b].count <= LimitOf(b[1])
  PROVE  CountInv(b)'
<1>1. store[b].count \in Nat /\ passed[b] \in Nat /\ LimitOf(b[1]) \in Nat /\ b[1] \in Keys
  BY CountTypes
<1>2. CASE s \notin Passing(b)'
  <2>1. b \notin late' => store'[b].count >= store[b].count
    BY <1>1, BumpedIs DEF Adds
  <2> QED BY <2>1, <1>2, CountQuiet
<1>3. CASE s \in Passing(b)' /\ b[1] \notin Signals /\ b \notin late'
  <2>1. store'[b].count = store[b].count + 1 /\ store'[b].count <= LimitOf(b[1])
    BY <1>1, <1>3, BumpedIs, LimitIs DEF Adds
  <2>2. IsFiniteSet(Passing(b)) /\ Cardinality(Passing(b)) \in Nat
    BY <1>3, FS_CardinalityType DEF CountInv
  <2>3. /\ IsFiniteSet(Passing(b) \cup {s})
        /\ Cardinality(Passing(b) \cup {s}) <= Cardinality(Passing(b)) + 1
        /\ Cardinality(Passing(b) \cup {s}) \in Nat
    <3>1. /\ IsFiniteSet(Passing(b) \cup {s})
          /\ \/ Cardinality(Passing(b) \cup {s}) = Cardinality(Passing(b))
             \/ Cardinality(Passing(b) \cup {s}) = Cardinality(Passing(b)) + 1
      BY <2>2, FS_AddElement
    <3> QED BY <3>1, <2>2
  <2>4. /\ IsFiniteSet(Passing(b)') /\ Cardinality(Passing(b)') \in Nat
        /\ Cardinality(Passing(b)') <= Cardinality(Passing(b) \cup {s})
    BY <2>3, FS_Subset, FS_CardinalityType
  <2>5. passed[b] + Cardinality(Passing(b)) <= store[b].count
    BY <1>3 DEF CountInv
  <2>6. passed'[b] + Cardinality(Passing(b)') <= store'[b].count
    BY <2>1, <2>2, <2>3, <2>4, <2>5, <1>1
  <2>7. passed'[b] + Cardinality(Passing(b)') <= LimitOf(b[1])
    BY <2>1, <2>4, <2>6, <1>1
  <2> QED BY <2>4, <2>6, <2>7 DEF CountInv
<1>4. CASE b[1] \in Signals \/ b \in late'
  BY <1>4 DEF CountInv
<1> QED BY <1>2, <1>3, <1>4

LEMMA CountPass ==
  ASSUME TypeOK, NEW b \in Buckets, CountInv(b), NEW s \in Passing(b),
         Passing(b)' \subseteq Passing(b) \ {s},
         passed'[b] = passed[b] + 1, store'[b].count = store[b].count, late' = late
  PROVE  CountInv(b)'
<1> SUFFICES ASSUME b[1] \notin Signals, b \notin late
             PROVE  /\ IsFiniteSet(Passing(b)')
                    /\ passed'[b] + Cardinality(Passing(b)') <= LimitOf(b[1])
                    /\ passed'[b] + Cardinality(Passing(b)') <= store'[b].count
  BY DEF CountInv
<1>1. store[b].count \in Nat /\ passed[b] \in Nat /\ LimitOf(b[1]) \in Nat
  BY CountTypes
<1>2. IsFiniteSet(Passing(b)) /\ Cardinality(Passing(b)) \in Nat
  BY FS_CardinalityType DEF CountInv
<1>3. /\ IsFiniteSet(Passing(b) \ {s})
      /\ Cardinality(Passing(b) \ {s}) = Cardinality(Passing(b)) - 1
  BY <1>2, FS_RemoveElement
<1>4. /\ IsFiniteSet(Passing(b)') /\ Cardinality(Passing(b)') \in Nat
      /\ Cardinality(Passing(b)') <= Cardinality(Passing(b) \ {s})
  BY <1>3, FS_Subset, FS_CardinalityType
<1>5. /\ passed[b] + Cardinality(Passing(b)) <= LimitOf(b[1])
      /\ passed[b] + Cardinality(Passing(b)) <= store[b].count
  BY DEF CountInv
<1> QED BY <1>1, <1>2, <1>3, <1>4, <1>5

(* A step that neither hits nor lets a hit through.                        *)
LEMMA CountStays ==
  ASSUME TypeOK, TypeOK', \A b \in Buckets : CountInv(b), NEW s \in Slots, Others(s),
         passed' = passed, late \subseteq late',
         \A b \in Buckets : b \notin late' => store'[b].count >= store[b].count,
         \A b \in Buckets : Holds(s, b)' => Holds(s, b) /\ req'[s].count = req[s].count
  PROVE  \A b \in Buckets : CountInv(b)'
<1> SUFFICES ASSUME NEW b \in Buckets PROVE CountInv(b)'
  OBVIOUS
<1>1. Passing(b)' \subseteq Passing(b)
  BY DEF Passing, Holds, Others
<1> QED BY <1>1, CountQuiet

LEMMA CountIncrement ==
  ASSUME BaseInv, BaseInv', \A b \in Buckets : CountInv(b), NEW s \in Slots, Increment(s)
  PROVE  \A b \in Buckets : CountInv(b)'
<1> SUFFICES ASSUME NEW b \in Buckets PROVE CountInv(b)'
  OBVIOUS
<1>1. PICK a : a = At(req[s])
  OBVIOUS
<1>2. /\ req[s].stage = "increment" /\ Hit(s) /\ passed' = passed /\ Others(s) /\ Holds(s, a)'
      /\ req'[s].count = store'[a].count
  BY <1>1, IncrementIs
<1>3. /\ a \in Buckets
      /\ Adds(a) \/ Restarts(a)
      /\ \A c \in Buckets : c # a => store'[c] = store[c]
      /\ late \subseteq late'
  BY <1>1, <1>2, HitIs
<1>4. TypeOK /\ TypeOK'
  BY DEF BaseInv
<1>5. CASE b = a
  <2>1. Passing(b)' \subseteq Passing(b) \cup {s}
    BY <1>2 DEF Passing, Holds, Others
  <2>2. s \in Passing(b)' => store'[b].count <= LimitOf(b[1])
    BY <1>5, <1>2 DEF Passing
  <2>3. b \notin late' => Adds(b)
    BY <1>3, <1>5 DEF Restarts
  <2> QED BY <2>1, <2>2, <2>3, <1>2, <1>3, <1>4, <1>5, CountHit
<1>6. CASE b # a
  <2>1. Passing(b)' \subseteq Passing(b)
    BY <1>2, <1>6 DEF Passing, Holds, Others
  <2>2. store'[b].count >= store[b].count
    BY <1>3, <1>4, <1>6, CountTypes
  <2> QED BY <2>1, <2>2, <1>2, <1>3, <1>4, CountQuiet
<1> QED BY <1>5, <1>6

LEMMA JudgeGrows ==
  ASSUME BaseInv, NEW s \in Slots, Judge(s), NEW c \in Buckets
  PROVE  passed'[c] >= passed[c]
<1>1. PICK a : a = At(req[s])
  OBVIOUS
<1>2. /\ TypeOK /\ a \in Buckets /\ passed[c] \in Nat
      /\ JudgeDenies(s) \/ JudgePasses(s)
  BY <1>1, JudgeIs, CountTypes DEF BaseInv
<1>3. CASE passed' = passed
  BY <1>2, <1>3
<1>4. CASE passed' = [passed EXCEPT ![a] = passed[a] + 1]
  BY <1>2, <1>4 DEF TypeOK
<1> QED BY <1>1, <1>2, <1>3, <1>4 DEF JudgeDenies, JudgePasses

LEMMA CountJudge ==
  ASSUME BaseInv, BaseInv', \A b \in Buckets : CountInv(b), NEW s \in Slots, Judge(s)
  PROVE  \A b \in Buckets : CountInv(b)'
<1>1. PICK a : a = At(req[s])
  OBVIOUS
<1>2. /\ TypeOK /\ TypeOK' /\ Others(s) /\ store' = store /\ late' = late /\ a \in Buckets /\ Holds(s, a)
      /\ req[s].stage = "counted"
      /\ JudgeDenies(s) \/ (JudgePasses(s) /\ (JudgeAdmits(s) \/ JudgeGoesOn(s)))
  BY <1>1, JudgeIs DEF BaseInv, Judge
<1>3. \A b \in Buckets : ~Holds(s, b)'
  BY <1>2 DEF JudgeDenies, JudgeAdmits, JudgeGoesOn, Holds
<1>4. \A b \in Buckets : store'[b].count >= store[b].count
  BY <1>2, CountTypes
<1>5. CASE JudgeDenies(s)
  <2>1. passed' = passed
    BY <1>5 DEF JudgeDenies
  <2> QED BY <2>1, <1>2, <1>3, <1>4, CountStays
<1>6. CASE JudgePasses(s)
  <2> SUFFICES ASSUME NEW b \in Buckets PROVE CountInv(b)'
    OBVIOUS
  <2>1. passed' = [passed EXCEPT ![a] = passed[a] + 1] /\ req[s].count <= LimitOf(a[1])
    BY <1>1, <1>6 DEF JudgePasses
  <2>2. Passing(b)' \subseteq Passing(b) \ {s}
    BY <1>2, <1>3 DEF Passing, Holds, Others
  <2>3. CASE b = a
    <3>1. passed'[b] = passed[b] + 1
      BY <2>1, <2>3, <1>2 DEF TypeOK
    <3>2. s \in Passing(b)
      BY <1>2, <2>1, <2>3 DEF Passing
    <3> QED BY <3>1, <3>2, <2>2, <1>2, CountPass
  <2>4. CASE b # a
    <3>1. passed'[b] = passed[b]
      BY <2>1, <2>4, <1>2 DEF TypeOK
    <3> QED BY <3>1, <2>2, <1>2, <1>4, CountQuiet
  <2> QED BY <2>3, <2>4
<1> QED BY <1>2, <1>5, <1>6

-----------------------------------------------------------------------------
(* One alert a window.                                                     *)

LEMMA AlertQuiet ==
  ASSUME NEW b \in Buckets, AlertInv(b), NEW s \in Slots, Others(s),
         alerts'[b] = alerts[b], store'[b].count = store[b].count, struck \subseteq struck',
         late \subseteq late',
         Reaching(s, b)' => Reaching(s, b),
         Reaching(s, b) /\ b[1] \in Signals => Reaching(s, b)' \/ b \in struck'
  PROVE  AlertInv(b)'
<1>1. \A t \in Slots : t # s => (Reaching(t, b)' <=> Reaching(t, b))
  BY DEF Reaching, Holds, Others
<1>2. \A t \in Slots : Reaching(t, b)' => Reaching(t, b)
  BY <1>1
<1>3. b[1] \in Signals /\ b \notin struck' => \A t \in Slots : Reaching(t, b) => Reaching(t, b)'
  BY <1>1
<1> HIDE DEF Reaching
<1> QED BY <1>2, <1>3 DEF AlertInv

LEMMA AlertStays ==
  ASSUME \A b \in Buckets : AlertInv(b), NEW s \in Slots, Others(s),
         alerts' = alerts, \A b \in Buckets : store'[b].count = store[b].count, struck \subseteq struck',
         late \subseteq late',
         \A b \in Buckets : Holds(s, b)' => Holds(s, b) /\ req'[s].count = req[s].count,
         \A b \in Buckets : Holds(s, b) /\ b[1] \in Signals =>
           (Holds(s, b)' /\ req'[s].count = req[s].count) \/ b \in struck'
  PROVE  \A b \in Buckets : AlertInv(b)'
<1> SUFFICES ASSUME NEW b \in Buckets PROVE AlertInv(b)'
  OBVIOUS
<1>1. Reaching(s, b)' => Reaching(s, b)
  BY DEF Reaching
<1>2. Reaching(s, b) /\ b[1] \in Signals => Reaching(s, b)' \/ b \in struck'
  BY DEF Reaching
<1> QED BY <1>1, <1>2, AlertQuiet

LEMMA AlertHit ==
  ASSUME BaseInv, \A b \in Buckets : AlertInv(b), NEW s \in Slots, Others(s),
         req[s].stage = "increment", Hit(s), NEW a, a = At(req[s]),
         alerts' = alerts, struck \subseteq struck',
         \A b \in Buckets : Holds(s, b)' => b = a /\ req'[s].count = store'[a].count,
         Holds(s, a)' \/ a \in struck'
  PROVE  \A b \in Buckets : AlertInv(b)'
<1>1. /\ a \in Buckets /\ a[1] \in Keys /\ (Adds(a) \/ Restarts(a))
      /\ \A c \in Buckets : c # a => store'[c] = store[c]
      /\ late \subseteq late'
  BY HitIs
<1>2. TypeOK /\ Threshold \in Nat \ {0} /\ store[a].count \in Nat /\ alerts[a] \in Nat
  BY <1>1, CountTypes, Constants DEF BaseInv
<1>3. \A b \in Buckets : ~Holds(s, b) /\ ~Reaching(s, b)
  BY DEF Holds, Reaching
<1>4. ASSUME NEW b \in Buckets, b # a PROVE AlertInv(b)'
  <2>1. ~Reaching(s, b)' /\ ~Reaching(s, b)
    BY <1>3, <1>4 DEF Reaching
  <2>2. store'[b].count = store[b].count
    BY <1>1, <1>4
  <2> QED BY <2>1, <2>2, <1>1, AlertQuiet
<1>5. AlertInv(a)'
  <2>1. CASE a[1] \notin Signals
    <3>1. alerts'[a] = 0
      BY <2>1, <1>1 DEF AlertInv
    <3>2. TypeOK /\ Threshold \in Nat
      BY <1>2
    <3>3. store[a].count >= Threshold \/ ~(store[a].count >= Threshold)
      OBVIOUS
    <3> QED BY <3>1, <2>1 DEF AlertInv
  <2>2. CASE a[1] \in Signals
    <3>1. /\ store'[a].count \in Nat
          /\ Adds(a) => /\ store'[a].count >= store[a].count
                        /\ store'[a].count = Threshold => store[a].count = Threshold - 1
                        /\ store[a].count < Threshold => store'[a].count <= Threshold
          /\ ~Adds(a) => store'[a].count = 1
      BY <1>1, <1>2, <2>2, BumpedIs, LimitIs DEF Adds, Restarts
    <3>2. \A t \in Slots : t # s => (Reaching(t, a)' <=> Reaching(t, a))
      BY DEF Reaching, Holds, Others
    <3>3. Reaching(s, a)' => store'[a].count = Threshold
      BY <1>1 DEF Reaching
    <3>4. ASSUME a \notin late'
          PROVE  /\ alerts'[a] <= 1
                 /\ alerts'[a] = 1 => store'[a].count >= Threshold
                 /\ \A t \in Slots : Reaching(t, a)' =>
                      alerts'[a] = 0 /\ \A v \in Slots : Reaching(v, a)' => v = t
      <4>1. Adds(a) /\ a \notin late
        BY <3>4, <1>1 DEF Restarts
      <4>2. \A t \in Slots : Reaching(t, a) => store[a].count >= Threshold
        <5> SUFFICES ASSUME NEW t \in Slots, Reaching(t, a) PROVE store[a].count >= Threshold
          OBVIOUS
        <5>1. req[t].stage \in {"expire", "counted"} /\ At(req[t]) = a /\ req[t].count = Threshold
          BY DEF Reaching, Holds
        <5>2. req[t].count <= store[a].count
          BY <4>1, <5>1 DEF BaseInv, HitInv
        <5> QED BY <5>1, <5>2, <1>2
      <4>3. alerts'[a] <= 1 /\ (alerts'[a] = 1 => store'[a].count >= Threshold)
        BY <1>1, <1>2, <3>1, <4>1 DEF AlertInv
      <4>4. ASSUME NEW t \in Slots, Reaching(t, a)'
            PROVE  alerts'[a] = 0 /\ \A v \in Slots : Reaching(v, a)' => v = t
        <5>1. CASE t = s
          <6>1. store[a].count = Threshold - 1
            BY <5>1, <4>4, <3>3, <3>1, <4>1
          <6>2. alerts[a] # 1
            BY <6>1, <1>1, <1>2, <4>1 DEF AlertInv
          <6>3. alerts'[a] = 0
            BY <6>2, <1>1, <1>2, <4>1 DEF AlertInv
          <6>4. \A v \in Slots : v # s => ~Reaching(v, a)'
            BY <6>1, <4>2, <3>2, <1>2
          <6> QED BY <5>1, <6>3, <6>4
        <5>2. CASE t # s
          <6>1. Reaching(t, a)
            BY <5>2, <4>4, <3>2
          <6>2. ~Reaching(s, a)'
            BY <6>1, <3>1, <4>1, <4>2, <3>3, <1>2
          <6>3. alerts[a] = 0 /\ \A v \in Slots : Reaching(v, a) => v = t
            BY <6>1, <2>2, <1>1, <4>1 DEF AlertInv
          <6>4. \A v \in Slots : Reaching(v, a)' => v = t
            BY <6>2, <6>3, <3>2
          <6> QED BY <6>3, <6>4
        <5> QED BY <5>1, <5>2
      <4> HIDE DEF Reaching
      <4> QED BY <4>3, <4>4
    <3>5. ASSUME store'[a].count >= Threshold, a \notin struck'
          PROVE  alerts'[a] >= 1 \/ \E t \in Slots : Reaching(t, a)'
      <4>1. CASE Adds(a) /\ store[a].count >= Threshold
        <5>1. alerts[a] >= 1 \/ \E t \in Slots : Reaching(t, a)
          BY <4>1, <3>5, <2>2, <1>1 DEF AlertInv
        <5> QED BY <5>1, <3>2, <1>1, <1>3
      <4>2. CASE ~(Adds(a) /\ store[a].count >= Threshold)
        <5>1. store'[a].count = Threshold
          BY <4>2, <3>5, <3>1, <1>2
        <5>2. Reaching(s, a)'
          BY <5>1, <3>5, <1>1 DEF Reaching
        <5> QED BY <5>2
      <4> QED BY <4>1, <4>2
    <3> HIDE DEF Reaching
    <3> QED BY <2>2, <3>4, <3>5 DEF AlertInv
  <2> QED BY <2>1, <2>2
<1> QED BY <1>4, <1>5

LEMMA AlertEscalate ==
  ASSUME BaseInv, \A b \in Buckets : AlertInv(b), NEW s \in Slots, Escalate(s)
  PROVE  \A b \in Buckets : AlertInv(b)'
<1>1. PICK a : a = At(req[s])
  OBVIOUS
<1>2. /\ Others(s) /\ Ends(s) /\ a \in Buckets /\ Holds(s, a) /\ a[1] \in Signals
      /\ UNCHANGED <<store, struck, late>>
      /\ alerts' = IF Tripped(req[s].count) THEN [alerts EXCEPT ![a] = alerts[a] + 1] ELSE alerts
  BY <1>1, EscalateBase
<1>3. \A b \in Buckets : ~Reaching(s, b)'
  BY <1>2 DEF Ends, Reaching, Holds
<1>4. TypeOK /\ alerts[a] \in Nat
  BY <1>2, CountTypes DEF BaseInv
<1>5. ASSUME NEW b \in Buckets, b # a \/ ~Tripped(req[s].count) PROVE AlertInv(b)'
  <2>1. alerts'[b] = alerts[b]
    BY <1>2, <1>4, <1>5 DEF TypeOK
  <2>2. ~Reaching(s, b)
    BY <1>1, <1>5 DEF Reaching, Holds, Tripped
  <2> QED BY <2>1, <2>2, <1>2, <1>3, AlertQuiet
<1>6. ASSUME Tripped(req[s].count) PROVE AlertInv(a)'
  <2>1. Reaching(s, a)
    BY <1>2, <1>6 DEF Reaching, Tripped
  <2>2. alerts'[a] = alerts[a] + 1
    BY <1>2, <1>4, <1>6 DEF TypeOK
  <2>3. ASSUME a \notin late'
        PROVE  /\ alerts'[a] <= 1
               /\ store'[a].count >= Threshold
               /\ \A t \in Slots : ~Reaching(t, a)'
    <3>1. alerts[a] = 0 /\ \A t \in Slots : Reaching(t, a) => t = s
      BY <2>1, <2>3, <1>2 DEF AlertInv
    <3>2. \A t \in Slots : ~Reaching(t, a)'
      <4>1. \A t \in Slots : t # s => (Reaching(t, a)' <=> Reaching(t, a))
        BY <1>2 DEF Reaching, Holds, Others
      <4> QED BY <4>1, <3>1, <1>2, <1>3
    <3>3. store'[a].count >= Threshold
      <4>1. req[s].count <= store[a].count /\ req[s].count = Threshold
        BY <2>1, <2>3, <1>2 DEF Reaching, Holds, BaseInv, HitInv
      <4>2. store'[a].count = store[a].count /\ store[a].count \in Nat
        BY <1>2, <1>4, CountTypes
      <4> QED BY <4>1, <4>2, Constants
    <3> QED BY <3>1, <3>2, <3>3, <2>2
  <2>4. alerts'[a] >= 1
    BY <2>2, <1>4
  <2> HIDE DEF Reaching
  <2> QED BY <2>3, <2>4, <1>2 DEF AlertInv
<1> QED BY <1>5, <1>6, <1>2

-----------------------------------------------------------------------------
(* Alone on an ip.                                                         *)

LEMMA CreditIs ==
  ASSUME TypeOK, NEW u \in Users, NEW w \in Windows
  PROVE  /\ <<u, w>> \in Buckets /\ passed[<<u, w>>] \in Nat /\ Before(u, w) \in Nat
         /\ Credit(u, w) \in Nat
         /\ w # 0 => <<u, w - 1>> \in Buckets /\ passed[<<u, w - 1>>] \in Nat
<1>1. MaxNow \div Window \in Nat
  BY Constants, DivType
<1>2. w \in Nat /\ (w # 0 => w - 1 \in Windows)
  BY <1>1 DEF Windows
<1>3. <<u, w>> \in Buckets /\ (w # 0 => <<u, w - 1>> \in Buckets)
  BY <1>2 DEF Buckets, Keys
<1>4. passed[<<u, w>>] \in Nat /\ (w # 0 => passed[<<u, w - 1>>] \in Nat)
  BY <1>3 DEF TypeOK
<1> QED BY <1>3, <1>4 DEF Before, Credit

LEMMA CreditNext ==
  ASSUME TypeOK, TypeOK', NEW u \in Users, NEW w \in Windows
  PROVE  Credit(u, w)' \in Nat
<1>1. <<u, w>> \in Buckets /\ (w # 0 => <<u, w - 1>> \in Buckets)
  BY CreditIs
<1>2. passed'[<<u, w>>] \in Nat /\ (w # 0 => passed'[<<u, w - 1>>] \in Nat)
  BY <1>1 DEF TypeOK
<1> QED BY <1>2 DEF Credit, Before

LEMMA CreditGrows ==
  ASSUME TypeOK, TypeOK', \A c \in Buckets : passed'[c] >= passed[c], NEW u \in Users, NEW w \in Windows
  PROVE  Credit(u, w)' >= Credit(u, w)
<1>1. /\ <<u, w>> \in Buckets /\ passed[<<u, w>>] \in Nat
      /\ w # 0 => <<u, w - 1>> \in Buckets /\ passed[<<u, w - 1>>] \in Nat
  BY CreditIs
<1>2. passed'[<<u, w>>] \in Nat /\ (w # 0 => passed'[<<u, w - 1>>] \in Nat)
  BY <1>1 DEF TypeOK
<1> QED BY <1>1, <1>2 DEF Credit, Before

LEMMA LoneQuiet ==
  ASSUME TypeOK, TypeOK', NEW u \in Users, NEW b \in Buckets, LoneInv(u, b),
         hitters[b] \subseteq hitters'[b], slow \subseteq slow', store'[b].count = store[b].count,
         \A c \in Buckets : passed'[c] >= passed[c], Waiting(u, b)' \subseteq Waiting(u, b)
  PROVE  LoneInv(u, b)'
<1> SUFFICES ASSUME Alone(u, b)'
             PROVE  /\ IsFiniteSet(Waiting(u, b)')
                    /\ store'[b].count + Cardinality(Waiting(u, b)') <= Credit(u, b[2])'
  BY DEF LoneInv
<1>1. IsFiniteSet(Waiting(u, b)) /\ store[b].count + Cardinality(Waiting(u, b)) <= Credit(u, b[2])
  BY DEF LoneInv, Alone
<1>2. /\ IsFiniteSet(Waiting(u, b)') /\ Cardinality(Waiting(u, b)') <= Cardinality(Waiting(u, b))
      /\ Cardinality(Waiting(u, b)) \in Nat /\ Cardinality(Waiting(u, b)') \in Nat
  BY <1>1, FS_Subset, FS_CardinalityType
<1>3. b[2] \in Windows /\ store[b].count \in Nat
  BY CountTypes DEF Buckets
<1>4. Credit(u, b[2])' >= Credit(u, b[2]) /\ Credit(u, b[2]) \in Nat /\ Credit(u, b[2])' \in Nat
  <2>1. Credit(u, b[2])' \in Nat
    BY <1>3, CreditNext
  <2> QED BY <2>1, <1>3, CreditIs, CreditGrows
<1> QED BY <1>1, <1>2, <1>3, <1>4

LEMMA LoneStays ==
  ASSUME TypeOK, TypeOK', \A u \in Users, b \in Buckets : LoneInv(u, b),
         NEW s \in Slots, Others(s), hitters' = hitters, passed' = passed, slow' = slow,
         \A b \in Buckets : store'[b].count = store[b].count,
         req'[s].stage = "increment" => At(req'[s])[1] \notin Ips
  PROVE  \A u \in Users, b \in Buckets : LoneInv(u, b)'
<1> SUFFICES ASSUME NEW u \in Users, NEW b \in Buckets PROVE LoneInv(u, b)'
  OBVIOUS
<1>1. CASE b[1] \in Ips
  <2>1. Waiting(u, b)' \subseteq Waiting(u, b)
    BY <1>1 DEF Waiting, Others
  <2>2. \A c \in Buckets : passed'[c] >= passed[c]
    BY CountTypes
  <2> QED BY <2>1, <2>2, LoneQuiet
<1>2. CASE b[1] \notin Ips
  BY <1>2 DEF LoneInv, Alone
<1> QED BY <1>1, <1>2

LEMMA LoneHit ==
  ASSUME BaseInv, TypeOK', \A u \in Users, b \in Buckets : LoneInv(u, b),
         NEW s \in Slots, Others(s), req[s].stage = "increment", Hit(s), passed' = passed, slow' = slow,
         req'[s].stage # "increment"
  PROVE  \A u \in Users, b \in Buckets : LoneInv(u, b)'
<1> SUFFICES ASSUME NEW u \in Users, NEW b \in Buckets, Alone(u, b)'
             PROVE  LoneInv(u, b)'
  BY DEF LoneInv
<1>0. b[1] \in Ips /\ hitters'[b] \subseteq {u} /\ u \notin slow
  BY DEF Alone
<1>1. PICK a : a = At(req[s])
  OBVIOUS
<1>2. /\ a \in Buckets /\ a[1] = Head(req[s].checks) /\ a[1] \in Keys /\ Shaped(req[s])
      /\ Adds(a) \/ Restarts(a)
      /\ hitters'[a] = hitters[a] \cup (Users \cap {req[s].user})
      /\ \A c \in Buckets : c # a => store'[c] = store[c] /\ hitters'[c] = hitters[c]
  BY <1>1, HitIs
<1>3. TypeOK /\ \A c \in Buckets : passed'[c] >= passed[c]
  BY CountTypes DEF BaseInv
<1>4. Waiting(u, b)' \subseteq Waiting(u, b)
  BY DEF Waiting, Others
<1>5. CASE b # a
  BY <1>5, <1>2, <1>3, <1>4, LoneQuiet
<1>6. CASE b = a
  <2>1. req[s] \in Request
    BY <1>3 DEF TypeOK
  <2>2. req[s].user = u
    BY <2>1, <1>0, <1>2, <1>6, ShapeIs, SubjectAssumption
  <2>3. s \in Waiting(u, b) /\ Waiting(u, b)' \subseteq Waiting(u, b) \ {s}
    BY <2>2, <1>1, <1>4, <1>6 DEF Waiting
  <2>4. /\ IsFiniteSet(Waiting(u, b)) /\ store[b].count + Cardinality(Waiting(u, b)) <= Credit(u, b[2])
    <3>1. Alone(u, b)
      BY <1>0, <1>2, <1>6 DEF Alone
    <3> QED BY <3>1 DEF LoneInv
  <2>5. /\ IsFiniteSet(Waiting(u, b) \ {s})
        /\ Cardinality(Waiting(u, b) \ {s}) = Cardinality(Waiting(u, b)) - 1
        /\ Cardinality(Waiting(u, b)) \in Nat
    BY <2>3, <2>4, FS_RemoveElement, FS_CardinalityType
  <2>6. /\ IsFiniteSet(Waiting(u, b)') /\ Cardinality(Waiting(u, b)') \in Nat
        /\ Cardinality(Waiting(u, b)') <= Cardinality(Waiting(u, b) \ {s})
    BY <2>3, <2>5, FS_Subset, FS_CardinalityType
  <2>7. store[b].count \in Nat /\ store'[b].count \in Nat /\ store'[b].count <= store[b].count + 1
    BY <1>2, <1>3, <1>6, CountTypes, BumpedIs DEF Adds, Restarts
  <2>8. b[2] \in Windows
    BY DEF Buckets
  <2>9. Credit(u, b[2]) \in Nat /\ Credit(u, b[2])' = Credit(u, b[2])
    BY <2>8, <1>3, CreditIs DEF Credit, Before
  <2>10. store'[b].count + Cardinality(Waiting(u, b)') <= Credit(u, b[2])'
    BY <2>4, <2>5, <2>6, <2>7, <2>9
  <2> QED BY <2>6, <2>10 DEF LoneInv
<1> QED BY <1>5, <1>6

(* The user scope lets a hit through: it is a credit in the window in      *)
(* which the ip scope counts it, or in the one before, unless it is slow.  *)
LEMMA LoneJudge ==
  ASSUME BaseInv, BaseInv', \A u \in Users, b \in Buckets : LoneInv(u, b), NEW s \in Slots, Judge(s)
  PROVE  \A u \in Users, b \in Buckets : LoneInv(u, b)'
<1> SUFFICES ASSUME NEW u \in Users, NEW b \in Buckets PROVE LoneInv(u, b)'
  OBVIOUS
<1>1. PICK a : a = At(req[s])
  OBVIOUS
<1>2. /\ TypeOK /\ TypeOK' /\ Others(s) /\ UNCHANGED <<store, now, hitters>> /\ a \in Buckets
      /\ Shaped(req[s]) /\ req[s].at <= now /\ req[s].stage = "counted"
      /\ JudgeDenies(s) \/ (JudgePasses(s) /\ (JudgeAdmits(s) \/ JudgeGoesOn(s)))
      /\ req[s] \in Request /\ now \in Nat /\ slow \subseteq slow'
  <2>1. TypeOK /\ TypeOK' /\ req[s].stage = "counted"
    BY DEF BaseInv, Judge
  <2>2. req[s] \in Request /\ now \in Nat
    BY <2>1, Constants DEF TypeOK
  <2> QED BY <1>1, <2>1, <2>2, JudgeIs
<1>3. JudgePasses(s) => passed' = [passed EXCEPT ![a] = passed[a] + 1]
  BY <1>1 DEF JudgePasses
<1>4. \A c \in Buckets : passed'[c] >= passed[c]
  BY JudgeGrows
<1>5. CASE Waiting(u, b)' \subseteq Waiting(u, b)
  BY <1>5, <1>2, <1>4, LoneQuiet
<1>6. CASE ~(Waiting(u, b)' \subseteq Waiting(u, b)) /\ Alone(u, b)'
  <2>0. Alone(u, b) /\ u \notin slow'
    BY <1>2, <1>6 DEF Alone
  <2>1. /\ req'[s].stage = "increment" /\ req'[s].user = u /\ At(req'[s]) = b
        /\ Waiting(u, b)' \subseteq Waiting(u, b) \cup {s}
    BY <1>2, <1>6 DEF Waiting, Others
  <2>2. JudgePasses(s) /\ JudgeGoesOn(s)
    BY <2>1, <1>2 DEF JudgeDenies, JudgeAdmits
  <2>3. /\ req[s].user = u /\ a[1] = u /\ b[2] = now \div Window
        /\ ~(now \div Window > a[2] + 1)
    BY <2>0, <2>1, <2>2, <1>1 DEF JudgeGoesOn, At, Bucket
  <2>4. /\ req[s].at \in Nat /\ req[s].at <= now
        /\ a[2] = req[s].at \div Window
    BY <1>1, <1>2, AtIs DEF Request
  <2>5. b[2] = a[2] \/ b[2] = a[2] + 1
    <3>1. a[2] \in Nat /\ b[2] \in Nat /\ a[2] <= b[2]
      BY <2>3, <2>4, <1>2, DivType, DivMonotone
    <3> QED BY <2>3, <3>1
  <2>6. /\ a = <<u, a[2]>> /\ a[2] \in Nat /\ b[2] \in Windows /\ b[2] \in Nat
    <3>1. a[2] \in Nat
      BY <2>4, DivType
    <3>2. b[2] \in Nat
      BY <2>3, <1>2, DivType
    <3> QED BY <2>3, <3>1, <3>2, <1>2 DEF Buckets
  <2>7. Credit(u, b[2])' = Credit(u, b[2]) + 1 /\ Credit(u, b[2]) \in Nat
    <3>1. /\ <<u, b[2]>> \in Buckets /\ passed[<<u, b[2]>>] \in Nat
          /\ b[2] # 0 => <<u, b[2] - 1>> \in Buckets /\ passed[<<u, b[2] - 1>>] \in Nat
          /\ Credit(u, b[2]) \in Nat
      BY <2>6, <1>2, CreditIs
    <3>2. passed' = [passed EXCEPT ![a] = passed[a] + 1] /\ passed \in [Buckets -> Nat]
      BY <2>2, <1>2, <1>3 DEF TypeOK
    <3>3. CASE b[2] = a[2]
      <4>1. passed'[<<u, b[2]>>] = passed[<<u, b[2]>>] + 1
        BY <3>1, <3>2, <3>3, <2>6
      <4>2. b[2] # 0 => passed'[<<u, b[2] - 1>>] = passed[<<u, b[2] - 1>>]
        BY <3>1, <3>2, <3>3, <2>6
      <4> QED BY <4>1, <4>2, <3>1 DEF Credit, Before
    <3>4. CASE b[2] = a[2] + 1
      <4>1. b[2] # 0 /\ b[2] - 1 = a[2]
        BY <3>4, <2>6
      <4>2. passed'[<<u, b[2]>>] = passed[<<u, b[2]>>]
        BY <3>1, <3>2, <3>4, <2>6
      <4>3. passed'[<<u, b[2] - 1>>] = passed[<<u, b[2] - 1>>] + 1
        BY <3>1, <3>2, <4>1, <2>6
      <4> QED BY <4>1, <4>2, <4>3, <3>1 DEF Credit, Before
    <3> QED BY <3>3, <3>4, <2>5
  <2>8. /\ IsFiniteSet(Waiting(u, b)) /\ store[b].count + Cardinality(Waiting(u, b)) <= Credit(u, b[2])
    BY <2>0 DEF LoneInv
  <2>9. /\ IsFiniteSet(Waiting(u, b) \cup {s}) /\ Cardinality(Waiting(u, b)) \in Nat
        /\ \/ Cardinality(Waiting(u, b) \cup {s}) = Cardinality(Waiting(u, b))
           \/ Cardinality(Waiting(u, b) \cup {s}) = Cardinality(Waiting(u, b)) + 1
    BY <2>8, FS_AddElement, FS_CardinalityType
  <2>10. /\ IsFiniteSet(Waiting(u, b)') /\ Cardinality(Waiting(u, b)') \in Nat
         /\ Cardinality(Waiting(u, b)') <= Cardinality(Waiting(u, b) \cup {s})
    BY <2>1, <2>9, FS_Subset, FS_CardinalityType
  <2>11. store[b].count \in Nat /\ store'[b].count = store[b].count
    BY <1>2, CountTypes
  <2>12. store'[b].count + Cardinality(Waiting(u, b)') <= Credit(u, b[2])'
    BY <2>7, <2>8, <2>9, <2>10, <2>11
  <2> QED BY <2>10, <2>12 DEF LoneInv
<1>7. CASE ~Alone(u, b)'
  BY <1>7 DEF LoneInv
<1> QED BY <1>5, <1>6, <1>7

(* A count in hand keeps its cover.                                        *)
LEMMA CoveredStays ==
  ASSUME BaseInv, BaseInv', \A t \in Slots : CoveredInv(t), NEW s \in Slots, Others(s),
         \A c \in Buckets : hitters[c] \subseteq hitters'[c], slow \subseteq slow',
         \A c \in Buckets : passed'[c] >= passed[c],
         req'[s].stage \in {"expire", "counted", "denied"} =>
           /\ req[s].stage \in {"expire", "counted"}
           /\ req'[s].user = req[s].user /\ req'[s].count = req[s].count /\ At(req'[s]) = At(req[s]),
         NEW t \in Slots
  PROVE  CoveredInv(t)'
<1> SUFFICES ASSUME NEW u \in Users, NEW b \in Buckets, Reached(t, u, b)', Alone(u, b)'
             PROVE  req'[t].count <= Credit(u, b[2])'
  BY DEF CoveredInv
<1>1. Reached(t, u, b) /\ req'[t].count = req[t].count
  BY DEF Reached, Others
<1>2. Alone(u, b)
  BY DEF Alone
<1>3. req[t].count <= Credit(u, b[2])
  BY <1>1, <1>2 DEF CoveredInv
<1>4. b[2] \in Windows /\ req[t].count \in Nat /\ TypeOK /\ TypeOK'
  BY <1>1, HitAt DEF Reached, Buckets, BaseInv
<1>5. Credit(u, b[2])' >= Credit(u, b[2]) /\ Credit(u, b[2]) \in Nat /\ Credit(u, b[2])' \in Nat
  BY <1>4, CreditIs, CreditGrows, CreditNext
<1> QED BY <1>1, <1>3, <1>4, <1>5

(* The count that a hit comes back with is covered.                        *)
LEMMA CoveredIncrement ==
  ASSUME BaseInv, BaseInv', \A u \in Users, b \in Buckets : LoneInv(u, b)',
         \A t \in Slots : CoveredInv(t), NEW s \in Slots, Increment(s), NEW t \in Slots
  PROVE  CoveredInv(t)'
<1> SUFFICES ASSUME NEW u \in Users, NEW b \in Buckets, Reached(t, u, b)', Alone(u, b)'
             PROVE  req'[t].count <= Credit(u, b[2])'
  BY DEF CoveredInv
<1>1. PICK a : a = At(req[s])
  OBVIOUS
<1>2. /\ req[s].stage = "increment" /\ Hit(s) /\ UNCHANGED <<passed, slow>>
      /\ Others(s) /\ Holds(s, a)' /\ req'[s].count = store'[a].count
  BY <1>1, IncrementIs
<1>3. /\ a \in Buckets
      /\ \A c \in Buckets : hitters[c] \subseteq hitters'[c]
  <2>1. /\ a \in Buckets
        /\ hitters'[a] = hitters[a] \cup (Users \cap {req[s].user})
        /\ \A c \in Buckets : c # a => store'[c] = store[c] /\ hitters'[c] = hitters[c]
    BY <1>1, <1>2, HitIs
  <2> QED BY <2>1
<1>4. TypeOK /\ TypeOK'
  BY DEF BaseInv
<1>5. CASE t = s
  <2>1. a = b
    BY <1>2, <1>5 DEF Holds, Reached
  <2>2. IsFiniteSet(Waiting(u, b)') /\ store'[b].count + Cardinality(Waiting(u, b)') <= Credit(u, b[2])'
    BY DEF LoneInv
  <2>3. Cardinality(Waiting(u, b)') \in Nat /\ store'[b].count \in Nat
    BY <2>2, <1>4, FS_CardinalityType DEF TypeOK, Entry
  <2>4. Credit(u, b[2])' \in Nat
    BY <1>4, CreditNext DEF Buckets
  <2> QED BY <2>1, <2>2, <2>3, <2>4, <1>2, <1>5
<1>6. CASE t # s
  <2>1. Reached(t, u, b) /\ Alone(u, b) /\ req'[t] = req[t]
    BY <1>2, <1>3, <1>6 DEF Reached, Alone, Others
  <2>2. req[t].count <= Credit(u, b[2])
    BY <2>1 DEF CoveredInv
  <2> QED BY <2>1, <2>2, <1>2 DEF Credit, Before
<1> QED BY <1>5, <1>6

-----------------------------------------------------------------------------
(* The invariant holds.                                                    *)

LEMMA InitInv ==
  ASSUME Init
  PROVE  IInv
<1>2. Absent \in Entry /\ Absent.count = 0 /\ Absent.expiresAt = NoTtl
  BY DEF Absent, Entry, NoTtl
<1>3. Idle \in Request /\ Idle.stage = "idle"
  BY IdleIs
<1>4. TypeOK
  BY <1>2, <1>3, Constants DEF Init, TypeOK
<1>5. \A s \in Slots : req[s] = Idle
  BY DEF Init
<1>6. \A b \in Buckets : store[b] = Absent /\ passed[b] = 0 /\ alerts[b] = 0 /\ hitters[b] = {}
  BY DEF Init
<1>7. BaseInv
  <2>1. \A s \in Slots : RequestInv(s) /\ HitInv(s)
    BY <1>3, <1>5 DEF RequestInv, HitInv, Active
  <2>2. \A b \in Buckets : EntryInv(b) /\ TtlInv(b)
    BY <1>2, <1>6 DEF EntryInv, TtlInv
  <2>3. FirstInv
    BY <1>3, <1>5 DEF FirstInv
  <2> QED BY <1>4, <2>1, <2>2, <2>3 DEF BaseInv
<1>8. ASSUME NEW b \in Buckets PROVE CountInv(b)
  <2>1. Passing(b) = {}
    BY <1>3, <1>5 DEF Passing, Holds
  <2>2. IsFiniteSet(Passing(b)) /\ Cardinality(Passing(b)) = 0
    BY <2>1, FS_EmptySet
  <2>3. LimitOf(b[1]) \in Nat
    BY <1>4, CountTypes
  <2> QED BY <2>2, <2>3, <1>2, <1>6 DEF CountInv
<1>9. ASSUME NEW b \in Buckets PROVE AlertInv(b)
  <2>1. \A s \in Slots : ~Reaching(s, b)
    BY <1>3, <1>5 DEF Reaching, Holds
  <2> QED BY <2>1, <1>2, <1>6, Constants DEF AlertInv
<1>10. ASSUME NEW u \in Users, NEW b \in Buckets PROVE LoneInv(u, b)
  <2>1. Waiting(u, b) = {}
    BY <1>3, <1>5 DEF Waiting
  <2>2. IsFiniteSet(Waiting(u, b)) /\ Cardinality(Waiting(u, b)) = 0
    BY <2>1, FS_EmptySet
  <2>3. Credit(u, b[2]) \in Nat
    BY <1>4, CreditIs DEF Buckets
  <2> QED BY <2>2, <2>3, <1>2, <1>6 DEF LoneInv
<1>11. \A s \in Slots : CoveredInv(s)
  BY <1>3, <1>5 DEF CoveredInv, Reached
<1> QED BY <1>7, <1>8, <1>9, <1>10, <1>11 DEF IInv

(* A step that neither hits, nor judges, nor escalates.                    *)
LEMMA Calm ==
  ASSUME IInv, BaseInv', NEW s \in Slots, Others(s), UNCHANGED <<passed, hitters, alerts, late, slow>>,
         struck \subseteq struck', \A b \in Buckets : store'[b].count = store[b].count,
         \A b \in Buckets : Holds(s, b)' => Holds(s, b) /\ req'[s].count = req[s].count,
         \A b \in Buckets : Holds(s, b) /\ b[1] \in Signals =>
           (Holds(s, b)' /\ req'[s].count = req[s].count) \/ b \in struck',
         req'[s].stage = "increment" => At(req'[s])[1] \notin Ips,
         req'[s].stage \in {"expire", "counted", "denied"} =>
           /\ req[s].stage \in {"expire", "counted"}
           /\ req'[s].user = req[s].user /\ req'[s].count = req[s].count /\ At(req'[s]) = At(req[s])
  PROVE  IInv'
<1>1. TypeOK /\ TypeOK'
  BY DEF IInv, BaseInv
<1>2. \A b \in Buckets : store'[b].count >= store[b].count
  BY <1>1, CountTypes
<1>3. \A b \in Buckets : CountInv(b)'
  BY <1>1, <1>2, CountStays DEF IInv
<1>4. \A b \in Buckets : AlertInv(b)'
  BY AlertStays DEF IInv
<1>5. \A u \in Users, b \in Buckets : LoneInv(u, b)'
  BY <1>1, LoneStays DEF IInv
<1>6. \A t \in Slots : CoveredInv(t)'
  <2>1. /\ BaseInv /\ \A t \in Slots : CoveredInv(t)
        /\ \A c \in Buckets : passed'[c] >= passed[c] /\ hitters[c] \subseteq hitters'[c]
    BY <1>1, CountTypes DEF IInv
  <2> QED BY <2>1, CoveredStays
<1> QED BY <1>3, <1>4, <1>5, <1>6 DEF IInv

(* A request ends, and gives up its bucket.                                *)
LEMMA CalmEnd ==
  ASSUME IInv, BaseInv', NEW s \in Slots, Others(s), Ends(s),
         UNCHANGED <<store, passed, hitters, alerts, late, slow>>, struck \subseteq struck',
         ~(req[s].stage = "counted" /\ ~Guarded(req[s])) \/ At(req[s]) \in struck'
  PROVE  IInv'
<1>1. \A b \in Buckets : ~Holds(s, b)'
  BY DEF Ends, Holds
<1>2. \A b \in Buckets : Holds(s, b) => b \in struck'
  BY DEF Ends, Holds, Active
<1>3. req'[s].stage \notin {"increment", "expire", "counted", "denied"}
  BY DEF Ends
<1> QED BY <1>1, <1>2, <1>3, Calm

(* Nothing but the clock.                                                  *)
LEMMA CalmTick ==
  ASSUME IInv, UNCHANGED <<store, req, passed, hitters, alerts, struck, late, slow>>
  PROVE  /\ \A b \in Buckets : CountInv(b)'
         /\ \A b \in Buckets : AlertInv(b)'
         /\ \A u \in Users, b \in Buckets : LoneInv(u, b)'
         /\ \A s \in Slots : CoveredInv(s)'
<1>1. ASSUME NEW b \in Buckets PROVE CountInv(b)'
  <2>1. CountInv(b)
    BY DEF IInv
  <2> QED BY <2>1 DEF CountInv, Passing, Holds
<1>2. ASSUME NEW b \in Buckets PROVE AlertInv(b)'
  <2>1. AlertInv(b)
    BY DEF IInv
  <2> QED BY <2>1 DEF AlertInv, Reaching, Holds
<1>3. ASSUME NEW u \in Users, NEW b \in Buckets PROVE LoneInv(u, b)'
  <2>1. LoneInv(u, b)
    BY DEF IInv
  <2> QED BY <2>1 DEF LoneInv, Alone, Waiting, Credit, Before
<1>4. ASSUME NEW s \in Slots PROVE CoveredInv(s)'
  <2>1. CoveredInv(s)
    BY DEF IInv
  <2> QED BY <2>1 DEF CoveredInv, Reached, Alone, Credit, Before
<1> QED BY <1>1, <1>2, <1>3, <1>4

LEMMA NextInv ==
  ASSUME IInv, [Next]_vars
  PROVE  IInv'
<1>1. BaseInv
  BY DEF IInv
<1>2. ASSUME NEW s \in Slots, NEW u \in Users, NEW i \in Ips, Guard(s, u, i) PROVE IInv'
  <2>1. BaseInv' /\ Others(s) /\ req'[s].stage = "increment" /\ At(req'[s])[1] = u
    BY <1>1, <1>2, GuardBase
  <2>2. req[s].stage = "idle" /\ UNCHANGED <<store, now, passed, hitters, alerts, struck, late, slow>>
    BY <1>2 DEF Guard
  <2>3. \A b \in Buckets : ~Holds(s, b)' /\ ~Holds(s, b)
    BY <2>1, <2>2 DEF Holds
  <2>4. At(req'[s])[1] \notin Ips
    BY <2>1, SubjectAssumption
  <2> QED BY <2>1, <2>2, <2>3, <2>4, Calm
<1>3. ASSUME NEW s \in Slots, NEW sig \in Signals, Observe(s, sig) PROVE IInv'
  <2>1. BaseInv' /\ Others(s) /\ req'[s].stage = "increment" /\ At(req'[s])[1] = sig
    BY <1>1, <1>3, ObserveBase
  <2>2. req[s].stage = "idle" /\ UNCHANGED <<store, now, passed, hitters, alerts, struck, late, slow>>
    BY <1>3 DEF Observe
  <2>3. \A b \in Buckets : ~Holds(s, b)' /\ ~Holds(s, b)
    BY <2>1, <2>2 DEF Holds
  <2>4. At(req'[s])[1] \notin Ips
    BY <2>1, SubjectAssumption
  <2> QED BY <2>1, <2>2, <2>3, <2>4, Calm
<1>4. ASSUME NEW s \in Slots, Increment(s) PROVE IInv'
  <2>1. BaseInv'
    BY <1>1, <1>4, IncrementBase
  <2>2. PICK a : a = At(req[s])
    OBVIOUS
  <2>3. /\ req[s].stage = "increment" /\ Hit(s) /\ UNCHANGED <<now, passed, alerts, struck, slow>>
        /\ Others(s) /\ Holds(s, a)' /\ req'[s].count = store'[a].count
    BY <1>1, <1>4, <2>2, IncrementIs
  <2>4. \A b \in Buckets : CountInv(b)'
    BY <1>1, <1>4, <2>1, CountIncrement DEF IInv
  <2>5. \A b \in Buckets : AlertInv(b)'
    <3>1. \A b \in Buckets : Holds(s, b)' => b = a
      BY <2>3 DEF Holds
    <3> QED BY <1>1, <2>2, <2>3, <3>1, AlertHit DEF IInv
  <2>6. \A u \in Users, b \in Buckets : LoneInv(u, b)'
    <3>1. req'[s].stage # "increment" /\ TypeOK'
      BY <2>1, <2>3 DEF Holds, BaseInv
    <3> QED BY <1>1, <2>3, <3>1, LoneHit DEF IInv
  <2>7. \A t \in Slots : CoveredInv(t)'
    BY <1>1, <1>4, <2>1, <2>6, CoveredIncrement DEF IInv
  <2> QED BY <2>1, <2>4, <2>5, <2>6, <2>7 DEF IInv
<1>5. ASSUME NEW s \in Slots, Expire(s) PROVE IInv'
  <2>1. BaseInv'
    BY <1>1, <1>5, ExpireBase
  <2>2. PICK a : a = At(req[s])
    OBVIOUS
  <2>3. /\ req[s].stage = "expire" /\ UNCHANGED <<now, passed, hitters, alerts, struck, late, slow>>
        /\ Others(s) /\ req'[s].stage = "counted" /\ req'[s].checks = req[s].checks
        /\ req'[s].user = req[s].user /\ req'[s].at = req[s].at /\ req'[s].count = req[s].count
        /\ store'[a].count = store[a].count
        /\ \A c \in Buckets : c # a => store'[c] = store[c]
    BY <1>1, <1>5, <2>2, ExpireIs
  <2>4. \A b \in Buckets : Holds(s, b)' <=> Holds(s, b)
    BY <2>3 DEF Holds, At
  <2>5. \A b \in Buckets : store'[b].count = store[b].count
    BY <2>3
  <2>6. At(req'[s]) = At(req[s])
    BY <2>3 DEF At
  <2> QED BY <2>1, <2>3, <2>4, <2>5, <2>6, Calm
<1>6. ASSUME NEW s \in Slots, Judge(s) PROVE IInv'
  <2>1. BaseInv'
    BY <1>1, <1>6, JudgeBase
  <2>2. /\ Others(s) /\ UNCHANGED <<store, hitters, alerts, struck, late>> /\ slow \subseteq slow'
        /\ Holds(s, At(req[s]))
        /\ At(req[s])[1] \notin Signals
        /\ JudgeDenies(s) \/ JudgeAdmits(s) \/ JudgeGoesOn(s)
    BY <1>1, <1>6, JudgeIs
  <2>3. \A b \in Buckets : ~Holds(s, b)' /\ (Holds(s, b) => b[1] \notin Signals)
    BY <2>2 DEF JudgeDenies, JudgeAdmits, JudgeGoesOn, Holds
  <2>4. \A b \in Buckets : CountInv(b)'
    BY <1>1, <1>6, <2>1, CountJudge DEF IInv
  <2>5. \A b \in Buckets : AlertInv(b)'
    BY <2>2, <2>3, AlertStays DEF IInv
  <2>6. \A u \in Users, b \in Buckets : LoneInv(u, b)'
    BY <1>1, <1>6, <2>1, LoneJudge DEF IInv
  <2>7. \A t \in Slots : CoveredInv(t)'
    <3>1. \A c \in Buckets : passed'[c] >= passed[c]
      BY <1>1, <1>6, JudgeGrows
    <3>2. req'[s].stage \in {"expire", "counted", "denied"} =>
            /\ req[s].stage \in {"expire", "counted"}
            /\ req'[s].user = req[s].user /\ req'[s].count = req[s].count /\ At(req'[s]) = At(req[s])
      BY <2>2 DEF JudgeDenies, JudgeAdmits, JudgeGoesOn, Holds, At
    <3> QED BY <1>1, <2>1, <2>2, <3>1, <3>2, CoveredStays DEF IInv
  <2> QED BY <2>1, <2>4, <2>5, <2>6, <2>7 DEF IInv
<1>7. ASSUME NEW s \in Slots, Escalate(s) PROVE IInv'
  <2>1. /\ BaseInv' /\ Others(s) /\ Ends(s) /\ UNCHANGED <<store, now, passed, hitters, struck, late, slow>>
    BY <1>1, <1>7, EscalateBase
  <2>2. \A b \in Buckets : ~Holds(s, b)'
    BY <2>1 DEF Ends, Holds
  <2>3. TypeOK /\ TypeOK' /\ req'[s].stage # "increment"
    BY <1>1, <2>1 DEF BaseInv, Ends
  <2>4. \A b \in Buckets : store'[b].count >= store[b].count
    BY <2>1, <2>3, CountTypes
  <2>5. \A b \in Buckets : CountInv(b)'
    BY <2>1, <2>2, <2>3, <2>4, CountStays DEF IInv
  <2>6. \A b \in Buckets : AlertInv(b)'
    BY <1>1, <1>7, AlertEscalate DEF IInv
  <2>7. \A u \in Users, b \in Buckets : LoneInv(u, b)'
    BY <2>1, <2>3, LoneStays DEF IInv
  <2>8. \A t \in Slots : CoveredInv(t)'
    <3>1. \A c \in Buckets : passed'[c] >= passed[c]
      BY <2>1, <2>3, CountTypes
    <3>2. req'[s].stage \notin {"expire", "counted", "denied"}
      BY <2>1 DEF Ends
    <3> QED BY <1>1, <2>1, <3>1, <3>2, CoveredStays DEF IInv
  <2> QED BY <2>1, <2>5, <2>6, <2>7, <2>8 DEF IInv
<1>8. ASSUME NEW s \in Slots, Reply(s) PROVE IInv'
  <2>1. BaseInv' /\ Others(s) /\ Ends(s) /\ UNCHANGED <<store, now, passed, hitters, alerts, struck, late, slow>>
    BY <1>1, <1>8, ReplyBase
  <2>2. req[s].stage # "counted"
    BY <1>8 DEF Reply
  <2> QED BY <2>1, <2>2, CalmEnd
<1>9. ASSUME NEW s \in Slots, Reject(s) PROVE IInv'
  <2>1. /\ BaseInv' /\ Others(s) /\ Ends(s)
        /\ UNCHANGED <<now, passed, alerts, slow>> /\ struck \subseteq struck' /\ At(req[s]) \in struck'
        /\ UNCHANGED <<store, hitters, late>> \/ (req[s].stage = "increment" /\ Hit(s))
    BY <1>1, <1>9, RejectBase
  <2>2. CASE UNCHANGED <<store, hitters, late>>
    BY <2>1, <2>2, CalmEnd
  <2>3. CASE req[s].stage = "increment" /\ Hit(s)
    <3>1. PICK a : a = At(req[s])
      OBVIOUS
    <3>2. /\ a \in Buckets /\ a[1] \in Keys /\ (Adds(a) \/ Restarts(a))
          /\ \A c \in Buckets : c # a => store'[c] = store[c] /\ hitters'[c] = hitters[c]
          /\ hitters'[a] = hitters[a] \cup (Users \cap {req[s].user})
          /\ late \subseteq late'
      BY <1>1, <2>3, <3>1, HitIs
    <3>3. TypeOK /\ TypeOK' /\ req'[s].stage # "increment" /\ passed' = passed /\ alerts' = alerts
      BY <1>1, <2>1 DEF BaseInv, Ends
    <3>4. ASSUME NEW b \in Buckets, b \notin late' PROVE store'[b].count >= store[b].count
      <4>1. store[b].count \in Nat /\ store[a].count \in Nat
        BY <3>2, <3>3, CountTypes
      <4>2. Bumped(store[a].count, a[1]) >= store[a].count
        BY <4>1, <3>2, BumpedIs
      <4> QED BY <4>1, <4>2, <3>2, <3>4 DEF Adds, Restarts
    <3>5. \A b \in Buckets : ~Holds(s, b)'
      BY <2>1 DEF Ends, Holds
    <3>6. \A b \in Buckets : CountInv(b)'
      BY <2>1, <3>2, <3>3, <3>4, <3>5, CountStays DEF IInv
    <3>7. \A b \in Buckets : AlertInv(b)'
      BY <1>1, <2>1, <2>3, <3>1, <3>3, <3>5, AlertHit DEF IInv
    <3>8. \A u \in Users, b \in Buckets : LoneInv(u, b)'
      BY <1>1, <2>1, <2>3, <3>3, LoneHit DEF IInv
    <3>9. \A t \in Slots : CoveredInv(t)'
      <4>1. \A c \in Buckets : passed'[c] >= passed[c] /\ hitters[c] \subseteq hitters'[c]
        BY <3>2, <3>3, CountTypes
      <4>2. req'[s].stage \notin {"expire", "counted", "denied"}
        BY <2>1 DEF Ends
      <4> QED BY <1>1, <2>1, <4>1, <4>2, CoveredStays DEF IInv
    <3> QED BY <2>1, <3>6, <3>7, <3>8, <3>9 DEF IInv
  <2> QED BY <2>1, <2>2, <2>3
<1>10. ASSUME NEW s \in Slots, GoDown(s) PROVE IInv'
  <2>1. /\ BaseInv' /\ Others(s) /\ Ends(s)
        /\ UNCHANGED <<store, now, passed, hitters, alerts, late, slow>> /\ struck \subseteq struck'
    BY <1>1, <1>10, GoDownBase
  <2>2. At(req[s]) \in struck'
    BY <1>10 DEF GoDown
  <2> QED BY <2>1, <2>2, CalmEnd
<1>11. CASE Tick
  <2>1. BaseInv' /\ UNCHANGED <<store, req, passed, hitters, alerts, struck, late, slow>>
    BY <1>1, <1>11, TickBase
  <2>2. /\ \A b \in Buckets : CountInv(b)'
        /\ \A b \in Buckets : AlertInv(b)'
        /\ \A u \in Users, b \in Buckets : LoneInv(u, b)'
        /\ \A s \in Slots : CoveredInv(s)'
    BY <2>1, CalmTick
  <2> QED BY <2>1, <2>2 DEF IInv
<1>12. CASE UNCHANGED vars
  <2>1. UNCHANGED <<store, now, req, passed, hitters, alerts, struck, late, slow>>
    BY <1>12 DEF vars
  <2>2. BaseInv'
    <3>1. TypeOK' /\ FirstInv'
      BY <2>1, <1>1 DEF BaseInv, TypeOK, FirstInv
    <3>2. \A s \in Slots : RequestInv(s)' /\ HitInv(s)'
      BY <2>1, <1>1 DEF BaseInv, RequestInv, HitInv
    <3>3. \A b \in Buckets : EntryInv(b)' /\ TtlInv(b)'
      BY <2>1, <1>1 DEF BaseInv, EntryInv, TtlInv
    <3> QED BY <3>1, <3>2, <3>3 DEF BaseInv
  <2>3. /\ \A b \in Buckets : CountInv(b)'
        /\ \A b \in Buckets : AlertInv(b)'
        /\ \A u \in Users, b \in Buckets : LoneInv(u, b)'
        /\ \A s \in Slots : CoveredInv(s)'
    BY <2>1, CalmTick
  <2> QED BY <2>2, <2>3 DEF IInv
<1> QED BY <1>2, <1>3, <1>4, <1>5, <1>6, <1>7, <1>8, <1>9, <1>10, <1>11, <1>12 DEF Next

(* The invariant is what every reachable state has.                        *)
THEOREM AbuseInductive == Spec => []IInv
<1>1. Init => IInv
  BY InitInv
<1>2. IInv /\ [Next]_vars => IInv'
  BY NextInv
<1> QED BY <1>1, <1>2, PTL DEF Spec

-----------------------------------------------------------------------------
(* Type correctness: the counters of the store, the requests in flight and *)
(* the histories of rateLimiter.ts, abuseGuard.ts and detection.ts keep    *)
(* their shape.                                                            *)
THEOREM AbuseTypeCorrect == Spec => []TypeOK
<1>1. IInv => TypeOK
  BY DEF IInv, BaseInv
<1> QED BY <1>1, AbuseInductive, PTL

(* However many requests of however many instances read the clock, hit and *)
(* are judged in whatever order, no more than the limit get through a      *)
(* scope in one window, as long as no hit on it comes after the headroom   *)
(* of its TTL: check counts atomically, and such a hit finds its bucket.   *)
(* How long a command takes is not assumed.                                *)
THEOREM NeverOverLimit == Spec => []WithinLimit
<1>1. IInv => WithinLimit
  <2> SUFFICES ASSUME IInv, NEW b \in Buckets, b[1] \notin Signals, b \notin late
               PROVE  passed[b] <= LimitOf(b[1])
    BY DEF WithinLimit
  <2>1. IsFiniteSet(Passing(b)) /\ passed[b] + Cardinality(Passing(b)) <= LimitOf(b[1])
    BY DEF IInv, CountInv
  <2>2. Cardinality(Passing(b)) \in Nat /\ passed[b] \in Nat /\ LimitOf(b[1]) \in Nat
    BY <2>1, FS_CardinalityType, CountTypes DEF IInv, BaseInv
  <2> QED BY <2>1, <2>2
<1> QED BY <1>1, AbuseInductive, PTL

(* A store that fails at any command of any scope never admits: a request  *)
(* is admitted with both of its scopes cleared (evaluateAbuseChecks).      *)
THEOREM NeverFailsOpen == Spec => []FailsClosed
<1>1. IInv => FailsClosed
  BY DEF IInv, BaseInv, RequestInv, FailsClosed
<1> QED BY <1>1, AbuseInductive, PTL

(* A bucket with hits has its TTL once nobody works on it, unless a fault  *)
(* fell between INCR and EXPIRE (check, record).                           *)
THEOREM NoBucketForEver == Spec => []BucketsSelfExpire
<1>1. IInv => BucketsSelfExpire
  BY DEF IInv, BaseInv, TtlInv, BucketsSelfExpire, Quiet
<1> QED BY <1>1, AbuseInductive, PTL

(* A detection window that has reached the threshold has escalated, for    *)
(* any number of observations under way, and it does so once as long as no *)
(* hit on it comes after the headroom of its TTL (record).                 *)
THEOREM EscalatesExactlyOnce == Spec => []EscalatesOnce
<1>1. IInv => EscalatesOnce
  <2> SUFFICES ASSUME IInv, NEW b \in Buckets
               PROVE  /\ b \notin late => alerts[b] <= 1
                      /\ b[1] \in Signals /\ store[b].count >= Threshold /\ b \notin struck /\ Quiet(b)
                           => alerts[b] >= 1
    BY DEF EscalatesOnce
  <2>1. AlertInv(b)
    BY DEF IInv
  <2>2. Quiet(b) => \A s \in Slots : ~Reaching(s, b)
    BY DEF Quiet, Reaching, Holds
  <2> HIDE DEF Reaching
  <2> QED BY <2>1, <2>2 DEF AlertInv
<1> QED BY <1>1, AbuseInductive, PTL

(* RATE_RULES gives every ip at least twice what it gives a user: that is  *)
(* enough for a user who is alone on an ip never to be denied there,       *)
(* though a hit let through as user may count as ip in the next window.    *)
(* Only commands that take longer than that void it: a hit on a bucket of  *)
(* the user after its headroom, or a window between the two scopes.        *)
THEOREM LoneUserIsSafe == Spec => []LoneUserNeverTripsIp
<1>1. IInv => LoneUserNeverTripsIp
  <2> SUFFICES ASSUME IInv, NEW s \in Slots, req[s].stage = "denied", Head(req[s].checks) \in Ips,
                      hitters[At(req[s])] = {req[s].user}, req[s].user \notin slow,
                      \A w \in Windows : <<req[s].user, w>> \notin late
               PROVE  FALSE
    BY DEF LoneUserNeverTripsIp
  <2>1. PICK u : u = req[s].user
    OBVIOUS
  <2>2. PICK b : b = At(req[s])
    OBVIOUS
  <2>3. BaseInv /\ TypeOK /\ RequestInv(s) /\ HitInv(s) /\ CoveredInv(s)
    BY DEF IInv, BaseInv
  <2>4. b \in Buckets /\ b[1] \in Ips /\ b[1] = Head(req[s].checks) /\ req[s].count \in Nat
    BY <2>2, <2>3, HitAt
  <2>5. u \in Users /\ b[2] \in Windows
    BY <2>1, <2>2, <2>3, <2>4 DEF TypeOK, Buckets
  <2>6. req[s].count > IpLimit
    BY <2>3, <2>4, SubjectAssumption DEF RequestInv, LimitOf
  <2>7. Alone(u, b)
    BY <2>1, <2>2, <2>4 DEF Alone
  <2>8. req[s].count <= Credit(u, b[2])
    BY <2>1, <2>2, <2>3, <2>4, <2>5, <2>7 DEF CoveredInv, Reached
  <2>9. ASSUME NEW w \in Windows, <<u, w>> \in Buckets
        PROVE  passed[<<u, w>>] <= UserLimit /\ passed[<<u, w>>] \in Nat
    <3>1. PICK c \in Buckets : c = <<u, w>>
      BY <2>9
    <3>2. c[1] = u /\ c \notin late /\ c[1] \notin Signals
      BY <3>1, <2>1, <2>5, SubjectAssumption
    <3>3. IsFiniteSet(Passing(c)) /\ passed[c] + Cardinality(Passing(c)) <= LimitOf(c[1])
      BY <3>2 DEF IInv, CountInv
    <3>4. Cardinality(Passing(c)) \in Nat /\ passed[c] \in Nat /\ LimitOf(c[1]) = UserLimit
      BY <2>3, <2>5, <3>2, <3>3, FS_CardinalityType, CountTypes DEF LimitOf
    <3> QED BY <3>1, <3>3, <3>4, Constants
  <2>10. Credit(u, b[2]) <= 2 * UserLimit /\ Credit(u, b[2]) \in Nat
    <3>1. passed[<<u, b[2]>>] <= UserLimit /\ passed[<<u, b[2]>>] \in Nat
      BY <2>3, <2>5, <2>9, CreditIs
    <3>2. b[2] # 0 => passed[<<u, b[2] - 1>>] <= UserLimit /\ passed[<<u, b[2] - 1>>] \in Nat
      <4> SUFFICES ASSUME b[2] # 0
                   PROVE  passed[<<u, b[2] - 1>>] <= UserLimit /\ passed[<<u, b[2] - 1>>] \in Nat
        OBVIOUS
      <4>1. <<u, b[2] - 1>> \in Buckets
        BY <2>3, <2>5, CreditIs
      <4>2. b[2] - 1 \in Windows
        BY <4>1 DEF Buckets
      <4> QED BY <4>1, <4>2, <2>9
    <3> QED BY <3>1, <3>2, Constants DEF Credit, Before
  <2> QED BY <2>4, <2>6, <2>8, <2>10, Constants
<1> QED BY <1>1, AbuseInductive, PTL
=============================================================================
