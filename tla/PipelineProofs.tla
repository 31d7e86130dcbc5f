--------------------------- MODULE PipelineProofs ---------------------------
(***************************************************************************)
(* Theorems about RequestPipeline: on every route no service is called     *)
(* past a guard that should have stopped the request, and no answer says   *)
(* what is not so.                                                         *)
(*                                                                         *)
(* The argument is about the way that is left.  The way of each route has  *)
(* its guards before it acts, and what a service does comes in an order    *)
(* (Services and Ways, the only parts that look at the routes); a gate     *)
(* that is passed makes its condition true and the tail of the way keeps   *)
(* the rest (PassStep), and where a service goes on in another way, the    *)
(* conditions are true already (TurnStep); so at "write" every condition   *)
(* is true, and at the end the audit is written.                           *)
(***************************************************************************)
EXTENDS RequestPipeline, TLAPS

-----------------------------------------------------------------------------
(* The inductive invariant.                                                *)

(* Acts are gates behind which rows change, open gates those at which a    *)
(* service can still turn a request away.                                  *)
Acts == {"write", "begin"}

Open == {"check", "begin"}

Has(s, gate) == \E i \in DOMAIN s : s[i] = gate

Before(gate, s) == \A i \in DOMAIN s : s[i] \in Acts => \E j \in DOMAIN s : j < i /\ s[j] = gate

Decided(s) == \A i, j \in DOMAIN s : s[i] = "write" /\ i < j => s[j] \notin Open

WithBody == {"register", "login", "envCreate", "submit"}

(* What a request has not been asked for yet, it will be, before its call. *)
GuardsAhead ==
  /\ r.trusted \/ Before("origin", r.todo)
  /\ r.body # "malformed" \/ Before("parse", r.todo)
  /\ r.route \in WithBody => r.body = "good" \/ Before("body", r.todo)
  /\ r.route # "logout" => "limit" \in r.passed \/ Before("limit", r.todo)
  /\ r.route \notin {"register", "login"} => r.user \/ Before("auth", r.todo)
  /\ r.route \in AskFirst => "audit" \in r.passed \/ Before("audit", r.todo)

(* A change is audited, or will be.                                        *)
AuditAhead ==
  r.route # "envTouch" =>
    \/ "audit" \in r.passed \/ Has(r.todo, "audit")
    \/ "write" \notin r.passed /\ ~Has(r.todo, "write")

(* No service turns a request away once it has changed a row for it, and   *)
(* the session hook comes before everything else.                          *)
NothingYet ==
  /\ Decided(r.todo)
  /\ "write" \in r.passed => ~Has(r.todo, "check") /\ ~Has(r.todo, "begin")
  /\ \A i \in DOMAIN r.todo : i # 1 => r.todo[i] # "session"
  /\ Has(r.todo, "session") => r.passed = {}

(* What a request remembers of the dependencies.                           *)
HistoryTells ==
  /\ up["db"] = "down" => r.failed
  /\ \A d \in Deps : (up[d] = "up" => d \in r.seen) /\ (r.probe[d] = "ok" => d \in r.seen)

PipeInv ==
  /\ TypeOK
  /\ r.user => r.cookie = "live"
  /\ r.status = 0 => GuardsAhead /\ AuditAhead /\ NothingYet /\ HistoryTells
  /\ EffectsAreGuarded
  /\ AnswersAreTrue

-----------------------------------------------------------------------------
(* Sequences of gates.                                                     *)

GateNames ==
  {"session", "observe", "parse", "auth", "origin", "limit", "body", "read", "lookup", "check",
   "refused", "begin", "write", "audit", "monitor", "noRuntime", "stub", "unknown", "probes"}

LEMMA AppendIs ==
  ASSUME NEW T, NEW s \in Seq(T), NEW t \in Seq(T)
  PROVE  /\ s \o t \in Seq(T) /\ DOMAIN s = 1..Len(s) /\ DOMAIN t = 1..Len(t)
         /\ DOMAIN (s \o t) = 1..(Len(s) + Len(t)) /\ Len(s) \in Nat /\ Len(t) \in Nat
         /\ \A i \in 1..Len(s) : (s \o t)[i] = s[i]
         /\ \A i \in 1..(Len(s) + Len(t)) : i > Len(s) => (s \o t)[i] = t[i - Len(s)]
  OBVIOUS

LEMMA TailIs ==
  ASSUME NEW T, NEW s \in Seq(T), s # << >>
  PROVE  /\ Tail(s) \in Seq(T) /\ DOMAIN s = 1..Len(s) /\ Len(s) \in Nat \ {0} /\ Head(s) = s[1]
         /\ DOMAIN Tail(s) = 1..(Len(s) - 1)
         /\ \A i \in 1..(Len(s) - 1) : Tail(s)[i] = s[i + 1]
  OBVIOUS

(* A gate that has been passed is not missed: the others are still ahead.  *)
LEMMA BeforeTail ==
  ASSUME NEW T, NEW s \in Seq(T), s # << >>, NEW gate, Head(s) # gate, Before(gate, s)
  PROVE  Before(gate, Tail(s)) /\ Head(s) \notin Acts
<1>1. /\ DOMAIN s = 1..Len(s) /\ Len(s) \in Nat \ {0} /\ Head(s) = s[1]
      /\ DOMAIN Tail(s) = 1..(Len(s) - 1)
      /\ \A i \in 1..(Len(s) - 1) : Tail(s)[i] = s[i + 1]
  BY TailIs
<1>2. ASSUME NEW i \in DOMAIN Tail(s), Tail(s)[i] \in Acts
      PROVE  \E j \in DOMAIN Tail(s) : j < i /\ Tail(s)[j] = gate
  <2>1. i \in Nat /\ i + 1 \in DOMAIN s /\ s[i + 1] \in Acts
    BY <1>1, <1>2
  <2>2. PICK j \in DOMAIN s : j < i + 1 /\ s[j] = gate
    BY <2>1 DEF Before
  <2>3. j # 1 /\ j \in Nat
    BY <1>1, <2>2
  <2>4. j - 1 \in DOMAIN Tail(s) /\ j - 1 < i /\ Tail(s)[j - 1] = gate
    <3>1. j - 1 \in 1..(Len(s) - 1) /\ j - 1 < i
      BY <1>1, <2>1, <2>2, <2>3
    <3>2. Tail(s)[j - 1] = s[(j - 1) + 1] /\ (j - 1) + 1 = j
      BY <1>1, <2>3, <3>1
    <3> QED BY <1>1, <2>2, <3>1, <3>2
  <2> QED BY <2>4
<1>3. Head(s) \notin Acts
  BY <1>1 DEF Before
<1> QED BY <1>2, <1>3 DEF Before

(* What is ahead of the tail was ahead of the whole.                       *)
LEMMA TailAhead ==
  ASSUME NEW T, NEW s \in Seq(T), s # << >>
  PROVE  /\ \A gate : Has(Tail(s), gate) => Has(s, gate)
         /\ Decided(s) => Decided(Tail(s))
         /\ Decided(s) /\ Head(s) = "write" => ~Has(Tail(s), "check") /\ ~Has(Tail(s), "begin")
         /\ (\A i \in DOMAIN s : i # 1 => s[i] # "session") => ~Has(Tail(s), "session")
<1>1. /\ DOMAIN s = 1..Len(s) /\ Len(s) \in Nat \ {0} /\ Head(s) = s[1]
      /\ DOMAIN Tail(s) = 1..(Len(s) - 1)
      /\ \A i \in 1..(Len(s) - 1) : Tail(s)[i] = s[i + 1]
  BY TailIs
<1>2. \A i \in DOMAIN Tail(s) : i \in Nat /\ i + 1 \in DOMAIN s /\ i + 1 > 1 /\ Tail(s)[i] = s[i + 1]
  BY <1>1
<1>3. \A gate : Has(Tail(s), gate) => Has(s, gate)
  BY <1>2 DEF Has
<1>4. ASSUME Decided(s) PROVE Decided(Tail(s))
  <2> SUFFICES ASSUME NEW i \in DOMAIN Tail(s), NEW j \in DOMAIN Tail(s), Tail(s)[i] = "write", i < j
               PROVE  Tail(s)[j] \notin Open
    BY DEF Decided
  <2>1. i + 1 < j + 1
    BY <1>2
  <2> QED BY <1>2, <1>4, <2>1 DEF Decided
<1>5. ASSUME Decided(s), Head(s) = "write" PROVE ~Has(Tail(s), "check") /\ ~Has(Tail(s), "begin")
  <2>1. 1 \in DOMAIN s /\ s[1] = "write"
    BY <1>1, <1>5
  <2>2. \A i \in DOMAIN Tail(s) : Tail(s)[i] \notin Open
    BY <1>2, <1>5, <2>1 DEF Decided
  <2> QED BY <2>2 DEF Has, Open
<1>6. ASSUME \A i \in DOMAIN s : i # 1 => s[i] # "session" PROVE ~Has(Tail(s), "session")
  BY <1>2, <1>6 DEF Has
<1> QED BY <1>3, <1>4, <1>5, <1>6

LEMMA HasTail ==
  ASSUME NEW T, NEW s \in Seq(T), s # << >>, NEW gate, Has(s, gate), Head(s) # gate
  PROVE  Has(Tail(s), gate)
<1>1. /\ DOMAIN s = 1..Len(s) /\ Len(s) \in Nat \ {0} /\ Head(s) = s[1]
      /\ DOMAIN Tail(s) = 1..(Len(s) - 1)
      /\ \A i \in 1..(Len(s) - 1) : Tail(s)[i] = s[i + 1]
  BY TailIs
<1>2. PICK j \in DOMAIN s : s[j] = gate
  BY DEF Has
<1>3. j - 1 \in 1..(Len(s) - 1) /\ (j - 1) + 1 = j
  BY <1>1, <1>2
<1>4. Tail(s)[j - 1] = gate
  BY <1>1, <1>2, <1>3
<1> QED BY <1>1, <1>3, <1>4 DEF Has

-----------------------------------------------------------------------------
(* The routes.                                                             *)

(* What the services do on route x.                                        *)
Serving(x, q) ==
  /\ x \in AskFirst => Before("audit", q)
  /\ Decided(q) /\ ~Has(q, "session")
  /\ x # "envTouch" => Has(q, "audit") \/ ~Has(q, "write")

(* The gates that the way s of route x has to have, in their order.        *)
Guarding(x, s) ==
  /\ Before("origin", s) /\ Before("parse", s)
  /\ x \in WithBody => Before("body", s)
  /\ x # "logout" => Before("limit", s)
  /\ x \notin {"register", "login"} => Before("auth", s)
  /\ Serving(x, s)

(* A way that calls no service.                                            *)
LEMMA ReadWay ==
  ASSUME NEW x, NEW p, ~Has(p, "write"), ~Has(p, "begin"), ~Has(p, "session")
  PROVE  Guarding(x, p)
  BY DEF Guarding, Serving, Has, Before, Decided, Acts

(* A way that does, after its guards p.                                    *)
LEMMA ServedWay ==
  ASSUME NEW x, NEW p \in Seq(GateNames), NEW q \in Seq(GateNames), Serving(x, q),
         \A i \in DOMAIN p : p[i] \notin Acts \cup {"session"},
         Has(p, "origin"), Has(p, "parse"),
         x \in WithBody => Has(p, "body"), x # "logout" => Has(p, "limit"),
         x \notin {"register", "login"} => Has(p, "auth")
  PROVE  p \o q \in Seq(GateNames) /\ Guarding(x, p \o q)
<1> PICK w : w = p \o q
  OBVIOUS
<1>1. /\ w \in Seq(GateNames) /\ DOMAIN p = 1..Len(p) /\ DOMAIN q = 1..Len(q)
      /\ DOMAIN w = 1..(Len(p) + Len(q)) /\ Len(p) \in Nat /\ Len(q) \in Nat
      /\ \A i \in 1..Len(p) : w[i] = p[i]
      /\ \A i \in 1..(Len(p) + Len(q)) : i > Len(p) => w[i] = q[i - Len(p)]
  BY AppendIs
<1>2. ASSUME NEW i \in DOMAIN w
      PROVE  \/ i \in DOMAIN p /\ w[i] = p[i]
             \/ i > Len(p) /\ i - Len(p) \in DOMAIN q /\ w[i] = q[i - Len(p)]
  BY <1>1
<1>3. ASSUME NEW j \in DOMAIN q PROVE j + Len(p) \in DOMAIN w /\ w[j + Len(p)] = q[j]
  <2>1. j + Len(p) \in 1..(Len(p) + Len(q)) /\ j + Len(p) > Len(p) /\ (j + Len(p)) - Len(p) = j
    BY <1>1
  <2> QED BY <2>1, <1>1
<1>4. ASSUME NEW i \in DOMAIN w, w[i] \in Acts
      PROVE  i \in Nat /\ i > Len(p) /\ i - Len(p) \in DOMAIN q /\ q[i - Len(p)] = w[i]
  BY <1>1, <1>2, <1>4
<1>5. ASSUME NEW gate, Has(p, gate) PROVE Before(gate, w)
  <2>1. PICK k \in DOMAIN p : p[k] = gate
    BY <1>5 DEF Has
  <2>2. k \in DOMAIN w /\ w[k] = gate /\ k <= Len(p) /\ k \in Nat
    BY <1>1, <2>1
  <2>3. \A i \in DOMAIN w : w[i] \in Acts => k < i
    BY <1>1, <1>4, <2>2
  <2> QED BY <2>2, <2>3 DEF Before
<1>6. ASSUME x \in AskFirst PROVE Before("audit", w)
  <2> SUFFICES ASSUME NEW i \in DOMAIN w, w[i] \in Acts
               PROVE  \E j \in DOMAIN w : j < i /\ w[j] = "audit"
    BY DEF Before
  <2>1. PICK j \in DOMAIN q : j < i - Len(p) /\ q[j] = "audit"
    BY <1>4, <1>6 DEF Serving, Before
  <2>2. j + Len(p) < i
    BY <1>1, <1>4, <2>1
  <2> QED BY <1>3, <2>1, <2>2
<1>7. Decided(w)
  <2> SUFFICES ASSUME NEW i \in DOMAIN w, NEW j \in DOMAIN w, w[i] = "write", i < j
               PROVE  w[j] \notin Open
    BY DEF Decided
  <2>1. i - Len(p) \in DOMAIN q /\ q[i - Len(p)] = "write" /\ i > Len(p) /\ i \in Nat
    BY <1>4 DEF Acts
  <2>2. j \notin DOMAIN p /\ j \in Nat
    BY <1>1, <2>1
  <2>3. j - Len(p) \in DOMAIN q /\ w[j] = q[j - Len(p)] /\ i - Len(p) < j - Len(p)
    BY <1>1, <1>2, <2>1, <2>2
  <2> QED BY <2>1, <2>3 DEF Serving, Decided
<1>8. ~Has(w, "session")
  BY <1>2 DEF Has, Serving
<1>9. x # "envTouch" => Has(w, "audit") \/ ~Has(w, "write")
  <2>1. Has(q, "audit") => Has(w, "audit")
    BY <1>3 DEF Has
  <2>2. ~Has(q, "write") => ~Has(w, "write")
    BY <1>4 DEF Has, Acts
  <2> QED BY <2>1, <2>2 DEF Serving
<1> QED BY <1>1, <1>5, <1>6, <1>7, <1>8, <1>9 DEF Guarding, Serving

(* The services, one by one.                                               *)
LEMMA Services ==
  ASSUME NEW x \in DOMAIN Service
  PROVE  Service[x] \in Seq(GateNames) /\ Serving(x, Service[x])
<1>1. DOMAIN Service = {"register", "login", "logout", "envCreate", "envTouch", "envStart", "envReset",
                        "envStop", "envDestroy", "solveCreate", "solveReset", "submit"}
  BY DEF Service
<1>2. CASE x = "register"
  <2> DEFINE q == <<"check", "write", "audit", "monitor", "write">>
  <2>1. Service[x] = q
    BY <1>2 DEF Service
  <2>2. /\ q \in Seq(GateNames) /\ DOMAIN q = 1..5
        /\ q[1] = "check" /\ q[2] = "write" /\ q[3] = "audit" /\ q[4] = "monitor" /\ q[5] = "write"
    BY DEF GateNames
  <2> HIDE DEF q
  <2>3. Serving(x, q)
    BY <1>2, <2>2 DEF Serving, Before, Decided, Has, Acts, Open, AskFirst
  <2> QED BY <2>1, <2>2, <2>3
<1>3. CASE x \in {"login", "envStop"}
  <2> DEFINE q == <<"check", "audit", "monitor", "write">>
  <2>1. Service[x] = q
    BY <1>3 DEF Service
  <2>2. /\ q \in Seq(GateNames) /\ DOMAIN q = 1..4
        /\ q[1] = "check" /\ q[2] = "audit" /\ q[3] = "monitor" /\ q[4] = "write"
    BY DEF GateNames
  <2> HIDE DEF q
  <2>3. Serving(x, q)
    BY <1>3, <2>2 DEF Serving, Before, Decided, Has, Acts, Open, AskFirst
  <2> QED BY <2>1, <2>2, <2>3
<1>4. CASE x = "logout"
  <2> DEFINE q == <<"write", "audit", "monitor">>
  <2>1. Service[x] = q
    BY <1>4 DEF Service
  <2>2. /\ q \in Seq(GateNames) /\ DOMAIN q = 1..3
        /\ q[1] = "write" /\ q[2] = "audit" /\ q[3] = "monitor"
    BY DEF GateNames
  <2> HIDE DEF q
  <2>3. Serving(x, q)
    BY <1>4, <2>2 DEF Serving, Before, Decided, Has, Acts, Open, AskFirst
  <2> QED BY <2>1, <2>2, <2>3
<1>5. CASE x = "envCreate"
  <2> DEFINE q == <<"check", "write", "audit", "monitor">>
  <2>1. Service[x] = q
    BY <1>5 DEF Service
  <2>2. /\ q \in Seq(GateNames) /\ DOMAIN q = 1..4
        /\ q[1] = "check" /\ q[2] = "write" /\ q[3] = "audit" /\ q[4] = "monitor"
    BY DEF GateNames
  <2> HIDE DEF q
  <2>3. Serving(x, q)
    BY <1>5, <2>2 DEF Serving, Before, Decided, Has, Acts, Open, AskFirst
  <2> QED BY <2>1, <2>2, <2>3
<1>6. CASE x = "envTouch"
  <2> DEFINE q == <<"check", "write">>
  <2>1. Service[x] = q
    BY <1>6 DEF Service
  <2>2. /\ q \in Seq(GateNames) /\ DOMAIN q = 1..2
        /\ q[1] = "check" /\ q[2] = "write"
    BY DEF GateNames
  <2> HIDE DEF q
  <2>3. Serving(x, q)
    BY <1>6, <2>2 DEF Serving, Before, Decided, Has, Acts, Open, AskFirst
  <2> QED BY <2>1, <2>2, <2>3
<1>7. CASE x \in {"envStart", "envDestroy"}
  <2> DEFINE q == <<"check", "audit", "monitor", "begin">>
  <2>1. Service[x] = q
    BY <1>7 DEF Service
  <2>2. /\ q \in Seq(GateNames) /\ DOMAIN q = 1..4
        /\ q[1] = "check" /\ q[2] = "audit" /\ q[3] = "monitor" /\ q[4] = "begin"
    BY DEF GateNames
  <2> HIDE DEF q
  <2>3. Serving(x, q)
    BY <1>7, <2>2 DEF Serving, Before, Decided, Has, Acts, Open, AskFirst
  <2> QED BY <2>1, <2>2, <2>3
<1>8. CASE x = "envReset"
  <2> DEFINE q == <<"check", "audit", "monitor", "write", "write">>
  <2>1. Service[x] = q
    BY <1>8 DEF Service
  <2>2. /\ q \in Seq(GateNames) /\ DOMAIN q = 1..5
        /\ q[1] = "check" /\ q[2] = "audit" /\ q[3] = "monitor" /\ q[4] = "write" /\ q[5] = "write"
    BY DEF GateNames
  <2> HIDE DEF q
  <2>3. Serving(x, q)
    BY <1>8, <2>2 DEF Serving, Before, Decided, Has, Acts, Open, AskFirst
  <2> QED BY <2>1, <2>2, <2>3
<1>9. CASE x = "solveCreate"
  <2> DEFINE q == <<"lookup", "audit", "monitor", "check", "write", "audit", "monitor">>
  <2>1. Service[x] = q
    BY <1>9 DEF Service
  <2>2. /\ q \in Seq(GateNames) /\ DOMAIN q = 1..7
        /\ q[1] = "lookup" /\ q[2] = "audit" /\ q[3] = "monitor" /\ q[4] = "check" /\ q[5] = "write" /\ q[6] = "audit" /\ q[7] = "monitor"
    BY DEF GateNames
  <2> HIDE DEF q
  <2>3. Serving(x, q)
    BY <1>9, <2>2 DEF Serving, Before, Decided, Has, Acts, Open, AskFirst
  <2> QED BY <2>1, <2>2, <2>3
<1>10. CASE x = "solveReset"
  <2> DEFINE q == <<"lookup", "check", "check", "audit", "monitor", "write", "write", "audit", "monitor">>
  <2>1. Service[x] = q
    BY <1>10 DEF Service
  <2>2. /\ q \in Seq(GateNames) /\ DOMAIN q = 1..9
        /\ q[1] = "lookup" /\ q[2] = "check" /\ q[3] = "check" /\ q[4] = "audit" /\ q[5] = "monitor" /\ q[6] = "write" /\ q[7] = "write" /\ q[8] = "audit" /\ q[9] = "monitor"
    BY DEF GateNames
  <2> HIDE DEF q
  <2>3. Serving(x, q)
    BY <1>10, <2>2 DEF Serving, Before, Decided, Has, Acts, Open, AskFirst
  <2> QED BY <2>1, <2>2, <2>3
<1>11. CASE x = "submit"
  <2> DEFINE q == <<"lookup", "check", "begin">>
  <2>1. Service[x] = q
    BY <1>11 DEF Service
  <2>2. /\ q \in Seq(GateNames) /\ DOMAIN q = 1..3
        /\ q[1] = "lookup" /\ q[2] = "check" /\ q[3] = "begin"
    BY DEF GateNames
  <2> HIDE DEF q
  <2>3. Serving(x, q)
    BY <1>11, <2>2 DEF Serving, Before, Decided, Has, Acts, Open, AskFirst
  <2> QED BY <2>1, <2>2, <2>3
<1> QED BY <1>1, <1>2, <1>3, <1>4, <1>5, <1>6, <1>7, <1>8, <1>9, <1>10, <1>11

(* The way of every route, and the hooks before it.                        *)
LEMMA AuthWays ==
  ASSUME NEW x \in DOMAIN AuthGates
  PROVE  AuthGates[x] \in Seq(GateNames) /\ Guarding(x, AuthGates[x])
<1>1. DOMAIN AuthGates = {"register", "login", "logout", "me"}
  BY DEF AuthGates
<1>2. CASE x = "register"
  <2> DEFINE p == <<"parse", "origin", "limit", "body">>
  <2>1. AuthGates[x] = p \o Service[x]
    BY <1>2 DEF AuthGates
  <2>2. /\ p \in Seq(GateNames) /\ \A i \in DOMAIN p : p[i] \notin Acts \cup {"session"}
        /\ Has(p, "parse") /\ Has(p, "origin") /\ Has(p, "limit") /\ Has(p, "body")
    BY DEF Has, GateNames, Acts
  <2>3. x \in DOMAIN Service
    BY <1>2 DEF Service
  <2>4. Service[x] \in Seq(GateNames) /\ Serving(x, Service[x])
    BY <2>3, Services
  <2> HIDE DEF p
  <2> QED BY <1>2, <2>1, <2>2, <2>4, ServedWay DEF WithBody
<1>3. CASE x = "login"
  <2> DEFINE p == <<"parse", "origin", "body", "limit">>
  <2>1. AuthGates[x] = p \o Service[x]
    BY <1>3 DEF AuthGates
  <2>2. /\ p \in Seq(GateNames) /\ \A i \in DOMAIN p : p[i] \notin Acts \cup {"session"}
        /\ Has(p, "parse") /\ Has(p, "origin") /\ Has(p, "body") /\ Has(p, "limit")
    BY DEF Has, GateNames, Acts
  <2>3. x \in DOMAIN Service
    BY <1>3 DEF Service
  <2>4. Service[x] \in Seq(GateNames) /\ Serving(x, Service[x])
    BY <2>3, Services
  <2> HIDE DEF p
  <2> QED BY <1>3, <2>1, <2>2, <2>4, ServedWay DEF WithBody
<1>4. CASE x = "logout"
  <2> DEFINE p == <<"parse", "auth", "origin">>
  <2>1. AuthGates[x] = p \o Service[x]
    BY <1>4 DEF AuthGates
  <2>2. /\ p \in Seq(GateNames) /\ \A i \in DOMAIN p : p[i] \notin Acts \cup {"session"}
        /\ Has(p, "parse") /\ Has(p, "auth") /\ Has(p, "origin")
    BY DEF Has, GateNames, Acts
  <2>3. x \in DOMAIN Service
    BY <1>4 DEF Service
  <2>4. Service[x] \in Seq(GateNames) /\ Serving(x, Service[x])
    BY <2>3, Services
  <2> HIDE DEF p
  <2> QED BY <1>4, <2>1, <2>2, <2>4, ServedWay DEF WithBody
<1>5. CASE x = "me"
  <2>1. AuthGates[x] = <<"auth">>
    BY <1>5 DEF AuthGates
  <2> QED BY <2>1, ReadWay DEF Has, GateNames
<1> QED BY <1>1, <1>2, <1>3, <1>4, <1>5

LEMMA EnvironmentWays ==
  ASSUME NEW x \in DOMAIN EnvironmentGates
  PROVE  EnvironmentGates[x] \in Seq(GateNames) /\ Guarding(x, EnvironmentGates[x])
<1>1. DOMAIN EnvironmentGates = {"envCreate", "envList", "envGet", "envTouch", "envStart", "envReset", "envStop", "envDestroy"}
  BY DEF EnvironmentGates
<1>2. CASE x = "envCreate"
  <2> DEFINE p == <<"parse", "auth", "origin", "limit", "body">>
  <2>1. EnvironmentGates[x] = p \o Service[x]
    BY <1>2 DEF EnvironmentGates, Mutating
  <2>2. /\ p \in Seq(GateNames) /\ \A i \in DOMAIN p : p[i] \notin Acts \cup {"session"}
        /\ Has(p, "parse") /\ Has(p, "auth") /\ Has(p, "origin") /\ Has(p, "limit") /\ Has(p, "body")
    BY DEF Has, GateNames, Acts
  <2>3. x \in DOMAIN Service
    BY <1>2 DEF Service
  <2>4. Service[x] \in Seq(GateNames) /\ Serving(x, Service[x])
    BY <2>3, Services
  <2> HIDE DEF p
  <2> QED BY <1>2, <2>1, <2>2, <2>4, ServedWay DEF WithBody
<1>3. CASE x \in {"envList", "envGet"}
  <2>1. EnvironmentGates[x] = <<"auth", "read">>
    BY <1>3 DEF EnvironmentGates
  <2> QED BY <2>1, ReadWay DEF Has, GateNames
<1>4. CASE x \in {"envTouch", "envStart", "envReset", "envStop", "envDestroy"}
  <2> DEFINE p == <<"parse", "auth", "origin", "limit">>
  <2>1. EnvironmentGates[x] = p \o Service[x]
    <3>1. /\ EnvironmentGates["envTouch"] = p \o Service["envTouch"]
          /\ EnvironmentGates["envStart"] = p \o Service["envStart"]
      BY DEF EnvironmentGates, Mutating
    <3>2. EnvironmentGates["envReset"] = p \o Service["envReset"]
      BY DEF EnvironmentGates, Mutating
    <3>3. /\ EnvironmentGates["envStop"] = p \o Service["envStop"]
          /\ EnvironmentGates["envDestroy"] = p \o Service["envDestroy"]
      BY DEF EnvironmentGates, Mutating
    <3> HIDE DEF p
    <3> QED BY <1>4, <3>1, <3>2, <3>3
  <2>2. /\ p \in Seq(GateNames) /\ \A i \in DOMAIN p : p[i] \notin Acts \cup {"session"}
        /\ Has(p, "parse") /\ Has(p, "auth") /\ Has(p, "origin") /\ Has(p, "limit")
    BY DEF Has, GateNames, Acts
  <2>3. x \in DOMAIN Service
    BY <1>4 DEF Service
  <2>4. Service[x] \in Seq(GateNames) /\ Serving(x, Service[x])
    BY <2>3, Services
  <2> HIDE DEF p
  <2> QED BY <1>4, <2>1, <2>2, <2>4, ServedWay DEF WithBody
<1> QED BY <1>1, <1>2, <1>3, <1>4

LEMMA SandboxWays ==
  ASSUME NEW x \in DOMAIN SandboxGates
  PROVE  SandboxGates[x] \in Seq(GateNames) /\ Guarding(x, SandboxGates[x])
<1>1. DOMAIN SandboxGates = {"describe", "provision"}
  BY DEF SandboxGates
<1>2. CASE x = "describe"
  <2>1. SandboxGates[x] = <<"auth", "read">>
    BY <1>2 DEF SandboxGates
  <2> QED BY <2>1, ReadWay DEF Has, GateNames
<1>3. CASE x = "provision"
  <2> DEFINE p == <<"parse", "auth", "origin", "limit">>
             q == <<"read", "body", "audit", "monitor", "noRuntime">>
             Idle == GateNames \ {"write", "begin", "session"}
  <2>1. SandboxGates[x] = p \o q
    BY <1>3 DEF SandboxGates, Mutating
  <2>2. p \in Seq(Idle) /\ q \in Seq(Idle)
    BY DEF GateNames
  <2> HIDE DEF p, q
  <2>3. p \o q \in Seq(Idle)
    BY <2>2
  <2>4. SandboxGates[x] \in Seq(GateNames) /\ \A i \in DOMAIN SandboxGates[x] : SandboxGates[x][i] \in Idle
    BY <2>1, <2>3
  <2> QED BY <2>4, ReadWay DEF Has
<1> QED BY <1>1, <1>2, <1>3

LEMMA ChallengeWays ==
  ASSUME NEW x \in DOMAIN ChallengeGates
  PROVE  ChallengeGates[x] \in Seq(GateNames) /\ Guarding(x, ChallengeGates[x])
<1>1. DOMAIN ChallengeGates = {"challengeGet", "solveCreate", "solveGet", "solveReset", "submit", "progress"}
  BY DEF ChallengeGates
<1>2. CASE x = "challengeGet"
  <2>1. ChallengeGates[x] = <<"lookup">>
    BY <1>2 DEF ChallengeGates
  <2> QED BY <2>1, ReadWay DEF Has, GateNames
<1>3. CASE x \in {"solveCreate", "solveReset"}
  <2> DEFINE p == <<"parse", "auth", "origin", "limit">>
  <2>1. ChallengeGates[x] = p \o Service[x]
    BY <1>3 DEF ChallengeGates, Mutating
  <2>2. /\ p \in Seq(GateNames) /\ \A i \in DOMAIN p : p[i] \notin Acts \cup {"session"}
        /\ Has(p, "parse") /\ Has(p, "auth") /\ Has(p, "origin") /\ Has(p, "limit")
    BY DEF Has, GateNames, Acts
  <2>3. x \in DOMAIN Service
    BY <1>3 DEF Service
  <2>4. Service[x] \in Seq(GateNames) /\ Serving(x, Service[x])
    BY <2>3, Services
  <2> HIDE DEF p
  <2> QED BY <1>3, <2>1, <2>2, <2>4, ServedWay DEF WithBody
<1>4. CASE x = "solveGet"
  <2>1. ChallengeGates[x] = <<"auth", "lookup", "read">>
    BY <1>4 DEF ChallengeGates
  <2> QED BY <2>1, ReadWay DEF Has, GateNames
<1>5. CASE x = "progress"
  <2>1. ChallengeGates[x] = <<"auth", "read">>
    BY <1>5 DEF ChallengeGates
  <2> QED BY <2>1, ReadWay DEF Has, GateNames
<1>6. CASE x = "submit"
  <2> DEFINE p == <<"parse", "auth", "origin", "limit", "body">>
  <2>1. ChallengeGates[x] = p \o Service[x]
    BY <1>6 DEF ChallengeGates, Mutating
  <2>2. /\ p \in Seq(GateNames) /\ \A i \in DOMAIN p : p[i] \notin Acts \cup {"session"}
        /\ Has(p, "parse") /\ Has(p, "auth") /\ Has(p, "origin") /\ Has(p, "limit") /\ Has(p, "body")
    BY DEF Has, GateNames, Acts
  <2>3. x \in DOMAIN Service
    BY <1>6 DEF Service
  <2>4. Service[x] \in Seq(GateNames) /\ Serving(x, Service[x])
    BY <2>3, Services
  <2> HIDE DEF p
  <2> QED BY <1>6, <2>1, <2>2, <2>4, ServedWay DEF WithBody
<1> QED BY <1>1, <1>2, <1>3, <1>4, <1>5, <1>6

LEMMA PublicWays ==
  ASSUME NEW x \in DOMAIN PublicGates
  PROVE  PublicGates[x] \in Seq(GateNames) /\ Guarding(x, PublicGates[x])
<1>1. DOMAIN PublicGates = {"list", "health", "missionGet", "pathGet", "flags", "other", "ready"}
  BY DEF PublicGates
<1>2. CASE x \in {"list", "health"}
  <2>1. PublicGates[x] = <<>>
    BY <1>2 DEF PublicGates
  <2> QED BY <2>1, ReadWay DEF Has, GateNames
<1>3. CASE x \in {"missionGet", "pathGet"}
  <2>1. PublicGates[x] = <<"lookup">>
    BY <1>3 DEF PublicGates
  <2> QED BY <2>1, ReadWay DEF Has, GateNames
<1>4. CASE x = "flags"
  <2>1. PublicGates[x] = <<"parse", "stub">>
    BY <1>4 DEF PublicGates
  <2> QED BY <2>1, ReadWay DEF Has, GateNames
<1>5. CASE x = "other"
  <2>1. PublicGates[x] = <<"unknown">>
    BY <1>5 DEF PublicGates
  <2> QED BY <2>1, ReadWay DEF Has, GateNames
<1>6. CASE x = "ready"
  <2>1. PublicGates[x] = <<"probes">>
    BY <1>6 DEF PublicGates
  <2> QED BY <2>1, ReadWay DEF Has, GateNames
<1> QED BY <1>1, <1>2, <1>3, <1>4, <1>5, <1>6

(* The five tables have no route in common, so each route has its way.     *)
LEMMA Ways ==
  ASSUME NEW x \in Routes
  PROVE  Gates[x] \in Seq(GateNames) /\ Guarding(x, Gates[x])
<1>1. /\ x \in (DOMAIN AuthGates) \cup (DOMAIN EnvironmentGates) \cup (DOMAIN SandboxGates)
             \cup (DOMAIN ChallengeGates) \cup (DOMAIN PublicGates)
      /\ Gates[x] = CASE x \in DOMAIN AuthGates -> AuthGates[x]
                       [] x \in DOMAIN EnvironmentGates -> EnvironmentGates[x]
                       [] x \in DOMAIN SandboxGates -> SandboxGates[x]
                       [] x \in DOMAIN ChallengeGates -> ChallengeGates[x]
                       [] OTHER -> PublicGates[x]
  BY DEF Routes, Gates
<1>2. /\ DOMAIN AuthGates = {"register", "login", "logout", "me"}
      /\ DOMAIN EnvironmentGates = {"envCreate", "envList", "envGet", "envTouch", "envStart",
                                    "envReset", "envStop", "envDestroy"}
      /\ DOMAIN SandboxGates = {"describe", "provision"}
      /\ DOMAIN ChallengeGates = {"challengeGet", "solveCreate", "solveGet", "solveReset",
                                  "submit", "progress"}
  BY DEF AuthGates, EnvironmentGates, SandboxGates, ChallengeGates
<1>3. CASE x \in DOMAIN AuthGates
  BY <1>1, <1>2, <1>3, AuthWays
<1>4. CASE x \in DOMAIN EnvironmentGates
  BY <1>1, <1>2, <1>4, EnvironmentWays
<1>5. CASE x \in DOMAIN SandboxGates
  BY <1>1, <1>2, <1>5, SandboxWays
<1>6. CASE x \in DOMAIN ChallengeGates
  BY <1>1, <1>2, <1>6, ChallengeWays
<1>7. CASE x \notin ((DOMAIN AuthGates) \cup (DOMAIN EnvironmentGates) \cup (DOMAIN SandboxGates)
                     \cup (DOMAIN ChallengeGates))
  BY <1>1, <1>7, PublicWays
<1> QED BY <1>3, <1>4, <1>5, <1>6, <1>7

(* The hooks come first and call no service.                               *)
LEMMA Hooked ==
  ASSUME NEW s \in Seq(GateNames), NEW h, h = <<"session", "observe">>
  PROVE  /\ h \o s \in Seq(GateNames)
         /\ \A gate : Before(gate, s) => Before(gate, h \o s)
         /\ \A gate : gate \notin {"session", "observe"} => (Has(h \o s, gate) <=> Has(s, gate))
         /\ Decided(s) => Decided(h \o s)
         /\ ~Has(s, "session") => \A i \in DOMAIN (h \o s) : i # 1 => (h \o s)[i] # "session"
<1>1. h \in Seq(GateNames) /\ Len(h) = 2 /\ h[1] = "session" /\ h[2] = "observe"
  BY DEF GateNames
<1> PICK w : w = h \o s
  OBVIOUS
<1>2. /\ w \in Seq(GateNames) /\ DOMAIN s = 1..Len(s) /\ Len(s) \in Nat
      /\ DOMAIN w = 1..(Len(h) + Len(s))
      /\ \A i \in 1..Len(h) : w[i] = h[i]
      /\ \A i \in 1..(Len(h) + Len(s)) : i > Len(h) => w[i] = s[i - Len(h)]
  <2>1. \A t \in Seq(GateNames) :
           /\ t \o s \in Seq(GateNames) /\ DOMAIN s = 1..Len(s) /\ Len(s) \in Nat
           /\ DOMAIN (t \o s) = 1..(Len(t) + Len(s))
           /\ \A i \in 1..Len(t) : (t \o s)[i] = t[i]
           /\ \A i \in 1..(Len(t) + Len(s)) : i > Len(t) => (t \o s)[i] = s[i - Len(t)]
    BY AppendIs
  <2> QED BY <1>1, <2>1
<1>3. \A j \in DOMAIN s : j \in Nat /\ j + 2 \in DOMAIN w /\ j + 2 > 2 /\ w[j + 2] = s[j]
  <2> TAKE j \in DOMAIN s
  <2>1. j \in Nat /\ j + 2 \in DOMAIN w /\ j + 2 > 2 /\ (j + 2) - 2 = j
    BY <1>1, <1>2
  <2> QED BY <2>1, <1>1, <1>2
<1>4. ASSUME NEW i \in DOMAIN w
      PROVE  /\ i \in Nat
             /\ \/ i = 1 /\ w[i] = "session"
                \/ i = 2 /\ w[i] = "observe"
                \/ i > 2 /\ i - 2 \in DOMAIN s /\ s[i - 2] = w[i]
  BY <1>1, <1>2
<1>5. ASSUME NEW gate, Before(gate, s) PROVE Before(gate, w)
  <2> SUFFICES ASSUME NEW i \in DOMAIN w, w[i] \in Acts
               PROVE  \E j \in DOMAIN w : j < i /\ w[j] = gate
    BY DEF Before
  <2>1. i - 2 \in DOMAIN s /\ s[i - 2] \in Acts /\ i \in Nat
    BY <1>4 DEF Acts
  <2>2. PICK j \in DOMAIN s : j < i - 2 /\ s[j] = gate
    BY <2>1, <1>5 DEF Before
  <2>3. j + 2 < i
    BY <1>3, <2>1, <2>2
  <2> QED BY <1>3, <2>2, <2>3
<1>6. ASSUME NEW gate, gate \notin {"session", "observe"} PROVE Has(w, gate) <=> Has(s, gate)
  <2>1. ASSUME Has(w, gate) PROVE Has(s, gate)
    <3>1. PICK i \in DOMAIN w : w[i] = gate
      BY <2>1 DEF Has
    <3>2. i - 2 \in DOMAIN s /\ s[i - 2] = gate
      BY <3>1, <1>4, <1>6
    <3> QED BY <3>2 DEF Has
  <2>2. ASSUME Has(s, gate) PROVE Has(w, gate)
    BY <2>2, <1>3 DEF Has
  <2> QED BY <2>1, <2>2
<1>7. ASSUME Decided(s) PROVE Decided(w)
  <2> SUFFICES ASSUME NEW i \in DOMAIN w, NEW j \in DOMAIN w, w[i] = "write", i < j
               PROVE  w[j] \notin Open
    BY DEF Decided
  <2>1. i - 2 \in DOMAIN s /\ s[i - 2] = "write" /\ i > 2 /\ i \in Nat /\ j \in Nat
    BY <1>4
  <2>2. j - 2 \in DOMAIN s /\ s[j - 2] = w[j] /\ i - 2 < j - 2
    BY <1>4, <2>1
  <2> QED BY <1>7, <2>1, <2>2 DEF Decided
<1>8. ASSUME ~Has(s, "session") PROVE \A i \in DOMAIN w : i # 1 => w[i] # "session"
  BY <1>4, <1>8 DEF Has
<1> QED BY <1>2, <1>5, <1>6, <1>7, <1>8

-----------------------------------------------------------------------------
(* The steps of the request.                                               *)

StatusNames == {-1, 0, 200, 400, 401, 403, 404, 409, 422, 429, 500, 501, 503}

LEMMA RequestIs ==
  Request =
    [todo : Seq(GateNames), route : Routes, cookie : {"none", "dead", "live"}, trusted : BOOLEAN,
     body : {"good", "invalid", "malformed"}, user : BOOLEAN,
     passed : SUBSET {"limit", "write", "audit"}, probe : [Deps -> {"asked", "ok", "unavailable"}],
     status : StatusNames, seen : SUBSET Deps, failed : BOOLEAN]
  BY DEF Request, GateNames, StatusNames

LEMMA NoRequestHolds ==
  ASSUME up \in [Deps -> {"up", "down", "hung"}]
  PROVE  /\ NoRequest \in Request
         /\ NoRequest.status = -1 /\ NoRequest.passed = {} /\ ~NoRequest.user
<1> DEFINE a == Arriving("health", "none", TRUE, "good")
<1>1. "health" \in Routes /\ Gates["health"] \in Seq(GateNames)
  <2>1. "health" \in DOMAIN PublicGates
    BY DEF PublicGates
  <2>2. "health" \in Routes
    BY <2>1 DEF Routes, Gates
  <2> QED BY <2>2, Ways
<1>2. <<"session", "observe">> \o Gates["health"] \in Seq(GateNames)
  BY <1>1, Hooked
<1>3. a \in Request /\ a.passed = {} /\ ~a.user
  BY <1>1, <1>2, RequestIs DEF Arriving, Are, Deps, StatusNames
<1>4. NoRequest = [a EXCEPT !.todo = << >>, !.status = -1, !.seen = {}, !.failed = FALSE]
  BY DEF NoRequest
<1> HIDE DEF a
<1>5. << >> \in Seq(GateNames)
  OBVIOUS
<1>6. NoRequest = [todo |-> << >>, route |-> a.route, cookie |-> a.cookie, trusted |-> a.trusted,
                   body |-> a.body, user |-> a.user, passed |-> a.passed, probe |-> a.probe,
                   status |-> -1, seen |-> {}, failed |-> FALSE]
  BY <1>3, <1>4, RequestIs
<1>7. /\ a.route \in Routes /\ a.cookie \in {"none", "dead", "live"} /\ a.trusted \in BOOLEAN
      /\ a.body \in {"good", "invalid", "malformed"} /\ a.user \in BOOLEAN
      /\ a.passed \in SUBSET {"limit", "write", "audit"}
      /\ a.probe \in [Deps -> {"asked", "ok", "unavailable"}]
  BY <1>3, RequestIs
<1>8. NoRequest \in Request
  BY <1>5, <1>6, <1>7, RequestIs DEF StatusNames
<1> QED BY <1>3, <1>6, <1>8

(* A gate ahead, or behind.                                                *)
LEMMA OneGate ==
  ASSUME NEW s \in Seq(GateNames), s # << >>, NEW gate, NEW done,
         done \/ Before(gate, s), Head(s) = gate => done
  PROVE  /\ done \/ Before(gate, Tail(s))
         /\ Head(s) \in Acts => done
<1>1. CASE done
  BY <1>1
<1>2. CASE ~done
  BY <1>2, BeforeTail
<1> QED BY <1>1, <1>2

(* What is the same of two requests.                                       *)
SameArrival(q, p) ==
  /\ q.route = p.route /\ q.cookie = p.cookie /\ q.trusted = p.trusted /\ q.body = p.body
  /\ q.probe = p.probe /\ q.seen = p.seen /\ q.failed = p.failed

LEMMA PassStep ==
  ASSUME PipeInv, up' = up, r' \in Request, r.status = 0, r'.status = 0, r.todo # << >>,
         r'.todo = Tail(r.todo), SameArrival(r', r),
         r.passed \subseteq r'.passed, r.user => r'.user, r'.user => r'.cookie = "live",
         Head(r.todo) = "origin" => r.trusted,
         Head(r.todo) = "parse" => r.body # "malformed",
         Head(r.todo) = "body" => r.body = "good",
         Head(r.todo) = "limit" => "limit" \in r'.passed,
         Head(r.todo) = "auth" => r'.user,
         Head(r.todo) = "audit" => "audit" \in r'.passed,
         "write" \in r'.passed => "write" \in r.passed \/ Head(r.todo) = "write",
         Head(r.todo) = "session" => r'.passed = r.passed
  PROVE  PipeInv'
<1>1. PICK s : s = r.todo
  OBVIOUS
<1>2. s \in Seq(GateNames) /\ s # << >>
  BY <1>1, RequestIs DEF PipeInv, TypeOK
<1>3. /\ GuardsAhead /\ AuditAhead /\ NothingYet /\ HistoryTells /\ TypeOK
      /\ EffectsAreGuarded /\ AnswersAreTrue
  BY DEF PipeInv
<1>4. (r'.trusted \/ Before("origin", Tail(s))) /\ (Head(s) \in Acts => r'.trusted)
  BY <1>1, <1>2, <1>3, OneGate DEF GuardsAhead, SameArrival
<1>5. (r'.body # "malformed" \/ Before("parse", Tail(s))) /\ (Head(s) \in Acts => r'.body # "malformed")
  BY <1>1, <1>2, <1>3, OneGate DEF GuardsAhead, SameArrival
<1>6. r'.route \in WithBody =>
        (r'.body = "good" \/ Before("body", Tail(s))) /\ (Head(s) \in Acts => r'.body = "good")
  BY <1>1, <1>2, <1>3, OneGate DEF GuardsAhead, SameArrival
<1>7. r'.route # "logout" =>
        ("limit" \in r'.passed \/ Before("limit", Tail(s))) /\ (Head(s) \in Acts => "limit" \in r'.passed)
  BY <1>1, <1>2, <1>3, OneGate DEF GuardsAhead, SameArrival
<1>8. r'.route \notin {"register", "login"} =>
        (r'.user \/ Before("auth", Tail(s))) /\ (Head(s) \in Acts => r'.user)
  BY <1>1, <1>2, <1>3, OneGate DEF GuardsAhead, SameArrival
<1>9. r'.route \in AskFirst =>
        ("audit" \in r'.passed \/ Before("audit", Tail(s))) /\ (Head(s) \in Acts => "audit" \in r'.passed)
  BY <1>1, <1>2, <1>3, OneGate DEF GuardsAhead, SameArrival
<1>10. GuardsAhead'
  BY <1>1, <1>4, <1>5, <1>6, <1>7, <1>8, <1>9 DEF GuardsAhead
<1>11. AuditAhead'
  <2> SUFFICES ASSUME r'.route # "envTouch", "audit" \notin r'.passed, ~Has(Tail(s), "audit")
               PROVE  "write" \notin r'.passed /\ ~Has(Tail(s), "write")
    BY <1>1 DEF AuditAhead
  <2>1. Head(s) # "audit" /\ "audit" \notin r.passed
    BY <1>1
  <2>2. ~Has(s, "audit")
    BY <1>2, <2>1, HasTail
  <2>3. "write" \notin r.passed /\ ~Has(s, "write")
    BY <1>1, <1>3, <2>1, <2>2 DEF AuditAhead, SameArrival
  <2>4. Head(s) # "write"
    BY <1>2, <2>3, TailIs DEF Has
  <2> QED BY <1>1, <1>2, <2>3, <2>4, TailAhead
<1>12. NothingYet'
  <2>1. /\ Decided(s) /\ ("write" \in r.passed => ~Has(s, "check") /\ ~Has(s, "begin"))
        /\ \A i \in DOMAIN s : i # 1 => s[i] # "session"
    BY <1>1, <1>3 DEF NothingYet
  <2>2. /\ Decided(Tail(s)) /\ ~Has(Tail(s), "session")
        /\ "write" \in r'.passed => ~Has(Tail(s), "check") /\ ~Has(Tail(s), "begin")
    BY <1>1, <1>2, <2>1, TailAhead
  <2> QED BY <1>1, <2>2 DEF NothingYet, Has
<1>13. HistoryTells'
  BY <1>3 DEF HistoryTells, SameArrival
<1>14. EffectsAreGuarded'
  <2> SUFFICES ASSUME "write" \in r'.passed
               PROVE  /\ r'.trusted /\ r'.body # "malformed"
                      /\ r'.route \in WithBody => r'.body = "good"
                      /\ r'.route # "logout" => "limit" \in r'.passed
                      /\ r'.route \notin {"register", "login"} => r'.cookie = "live"
    BY DEF EffectsAreGuarded, WithBody
  <2>1. CASE "write" \in r.passed
    BY <2>1, <1>3 DEF EffectsAreGuarded, SameArrival, WithBody
  <2>2. CASE Head(s) = "write"
    BY <2>2, <1>4, <1>5, <1>6, <1>7, <1>8 DEF Acts
  <2> QED BY <1>1, <2>1, <2>2
<1>15. AnswersAreTrue' /\ TypeOK'
  <2>1. "write" \in r'.passed /\ r'.route \in AskFirst => "audit" \in r'.passed
    BY <1>1, <1>3, <1>9 DEF AnswersAreTrue, SameArrival, Acts, AskFirst
  <2> QED BY <1>3, <2>1 DEF AnswersAreTrue, TypeOK
<1> QED BY <1>10, <1>11, <1>12, <1>13, <1>14, <1>15 DEF PipeInv

(* The rest of the way is another one: where a service goes on, and where  *)
(* it has nothing to do or only a refusal to record.                       *)
LEMMA TurnStep ==
  ASSUME PipeInv, NEW gate \in Open, At(gate), NEW w \in Seq(GateNames), GoOn(w),
         \A i \in DOMAIN w : w[i] \notin Open \cup {"session"},
         Has(w, "write") => gate = "begin" /\ Has(w, "audit")
  PROVE  PipeInv'
<1>1. PICK s : s = r.todo
  OBVIOUS
<1>2. /\ r \in Request /\ s \in Seq(GateNames) /\ s # << >> /\ Head(s) = gate /\ r.status = 0
      /\ up' = up /\ (r.user => r.cookie = "live")
      /\ GuardsAhead /\ AuditAhead /\ NothingYet /\ HistoryTells /\ TypeOK
      /\ EffectsAreGuarded /\ AnswersAreTrue
  BY <1>1, RequestIs DEF PipeInv, TypeOK, At, GoOn
<1>3. /\ r' \in Request /\ r'.todo = w /\ r'.status = 0 /\ r'.user = r.user /\ r'.passed = r.passed
      /\ SameArrival(r', r)
  BY <1>2, RequestIs DEF GoOn, SameArrival
<1>4. Has(s, gate)
  BY <1>2, TailIs DEF Has
<1>5. "write" \notin r.passed
  BY <1>1, <1>2, <1>4 DEF NothingYet, Open
<1>6. ASSUME NEW g, NEW done \in BOOLEAN, done \/ Before(g, s), g # gate PROVE done \/ Before(g, w)
  <2>1. CASE gate = "begin"
    BY <1>2, <1>6, <2>1, OneGate DEF Acts
  <2>2. CASE gate # "begin"
    BY <2>2 DEF Before, Has, Acts, Open
  <2> QED BY <2>1, <2>2
<1>7. GuardsAhead'
  <2>1. gate \notin {"origin", "parse", "body", "limit", "auth", "audit"}
    BY DEF Open
  <2>2. r.trusted \in BOOLEAN /\ r.user \in BOOLEAN
    BY <1>2, RequestIs
  <2>3. /\ r.trusted \/ Before("origin", w)
        /\ r.body # "malformed" \/ Before("parse", w)
        /\ r.route \in WithBody => r.body = "good" \/ Before("body", w)
        /\ r.route # "logout" => "limit" \in r.passed \/ Before("limit", w)
        /\ r.route \notin {"register", "login"} => r.user \/ Before("auth", w)
        /\ r.route \in AskFirst => "audit" \in r.passed \/ Before("audit", w)
    BY <1>1, <1>2, <1>6, <2>1, <2>2 DEF GuardsAhead
  <2> QED BY <1>3, <2>3 DEF GuardsAhead, SameArrival
<1>8. AuditAhead'
  BY <1>3, <1>5 DEF AuditAhead
<1>9. NothingYet'
  BY <1>3, <1>5 DEF NothingYet, Decided, Has, Open
<1>10. HistoryTells'
  BY <1>2, <1>3 DEF HistoryTells, SameArrival
<1>11. EffectsAreGuarded' /\ AnswersAreTrue' /\ TypeOK'
  BY <1>2, <1>3, <1>5 DEF EffectsAreGuarded, AnswersAreTrue, TypeOK
<1>12. r'.user => r'.cookie = "live"
  BY <1>2, <1>3 DEF SameArrival
<1> QED BY <1>3, <1>7, <1>8, <1>9, <1>10, <1>11, <1>12 DEF PipeInv

LEMMA FailStep ==
  ASSUME PipeInv, r.status = 0, NEW n \in StatusNames \ {-1, 0, 200}, Fail(n),
         n = 500 =>
           \/ up["db"] = "down"
           \/ r.cookie = "live" /\ r.passed = {}
           \/ r.route = "register" /\ "write" \notin r.passed
           \/ r.route = "envStart" /\ "audit" \in r.passed /\ "write" \notin r.passed
  PROVE  PipeInv'
<1>1. r \in Request /\ << >> \in Seq(GateNames)
  BY DEF PipeInv, TypeOK
<1>2. /\ r' \in Request /\ r'.status = n /\ r'.user = r.user /\ r'.passed = r.passed
      /\ SameArrival(r', r) /\ up' = up
  <2>1. PICK p : p = [r EXCEPT !.status = n, !.todo = << >>]
    OBVIOUS
  <2>2. /\ p.todo = << >> /\ p.status = n /\ p.user = r.user /\ p.passed = r.passed
        /\ p.route = r.route /\ p.cookie = r.cookie /\ p.trusted = r.trusted /\ p.body = r.body
        /\ p.probe = r.probe /\ p.seen = r.seen /\ p.failed = r.failed
    BY <1>1, <2>1, RequestIs
  <2>3. PICK t : t = p.todo
    OBVIOUS
  <2>4. t \in Seq(GateNames) /\ n \in StatusNames
    BY <1>1, <2>2, <2>3
  <2>5. p \in Request
    BY <1>1, <2>1, <2>2, <2>3, <2>4, RequestIs
  <2> QED BY <2>1, <2>2, <2>5 DEF Fail, SameArrival
<1>3. n # 0 /\ n # 200
  BY DEF StatusNames
<1>4. EffectsAreGuarded'
  BY <1>2 DEF PipeInv, EffectsAreGuarded, SameArrival
<1>5. AnswersAreTrue'
  BY <1>2, <1>3 DEF PipeInv, AnswersAreTrue, HistoryTells, SameArrival
<1>6. TypeOK' /\ (r'.user => r'.cookie = "live") /\ r'.status # 0
  BY <1>2, <1>3 DEF PipeInv, TypeOK, SameArrival
<1> QED BY <1>4, <1>5, <1>6 DEF PipeInv

(* Past a gate: the request q with the rest of its way.                    *)
LEMMA ThroughIs ==
  ASSUME NEW q \in Request, q.todo # << >>, Through(q)
  PROVE  /\ r' \in Request /\ r'.todo = Tail(q.todo) /\ SameArrival(r', q)
         /\ r'.passed = q.passed /\ r'.user = q.user /\ r'.status = q.status /\ up' = up
<1>1. Tail(q.todo) \in Seq(GateNames)
  BY RequestIs, TailIs
<1> QED BY <1>1, RequestIs DEF Through, SameArrival

(* A gate that only lets the request through.                              *)
LEMMA JustPass ==
  ASSUME PipeInv, NEW gate, At(gate), Pass, gate \notin {"limit", "audit"},
         gate = "origin" => r.trusted, gate = "parse" => r.body # "malformed",
         gate = "body" => r.body = "good", gate = "auth" => r.user
  PROVE  PipeInv'
<1>1. r \in Request /\ r.status = 0 /\ r.todo # << >> /\ Head(r.todo) = gate /\ Through(r)
      /\ (r.user => r.cookie = "live")
  BY DEF PipeInv, TypeOK, At, Pass
<1>2. /\ r' \in Request /\ r'.todo = Tail(r.todo) /\ SameArrival(r', r)
      /\ r'.passed = r.passed /\ r'.user = r.user /\ r'.status = r.status /\ up' = up
  BY <1>1, ThroughIs
<1>3. r.passed \subseteq r'.passed /\ (r'.user => r'.cookie = "live")
      /\ ("write" \in r'.passed => "write" \in r.passed)
  BY <1>1, <1>2 DEF SameArrival
<1> QED BY <1>1, <1>2, <1>3, PassStep

(* A gate that marks what it has done, or finds the user.                  *)
LEMMA MarkPass ==
  ASSUME PipeInv, NEW mark \in {"limit", "write", "audit"}, At(mark),
         Through([r EXCEPT !.passed = @ \cup {mark}])
  PROVE  PipeInv'
<1> PICK q : q = [r EXCEPT !.passed = @ \cup {mark}]
  OBVIOUS
<1>1. r \in Request /\ r.status = 0 /\ r.todo # << >> /\ Head(r.todo) = mark
      /\ (r.user => r.cookie = "live")
  BY DEF PipeInv, TypeOK, At
<1>2. /\ q \in Request /\ q.todo = r.todo /\ SameArrival(q, r) /\ q.user = r.user
      /\ q.passed = r.passed \cup {mark} /\ q.status = r.status
  BY <1>1, RequestIs DEF SameArrival
<1>3. /\ r' \in Request /\ r'.todo = Tail(r.todo) /\ SameArrival(r', q)
      /\ r'.passed = q.passed /\ r'.user = q.user /\ r'.status = q.status /\ up' = up
  BY <1>1, <1>2, ThroughIs
<1>4. /\ SameArrival(r', r) /\ r.passed \subseteq r'.passed /\ (r'.user => r'.cookie = "live")
      /\ mark \in r'.passed
      /\ ("write" \in r'.passed => "write" \in r.passed \/ mark = "write")
  BY <1>1, <1>2, <1>3 DEF SameArrival
<1> QED BY <1>1, <1>2, <1>3, <1>4, PassStep

LEMMA SessionStep ==
  ASSUME PipeInv, Session
  PROVE  PipeInv'
<1>1. r \in Request /\ At("session") /\ r.status = 0 /\ r.todo # << >> /\ Head(r.todo) = "session"
      /\ (r.user => r.cookie = "live")
  BY DEF PipeInv, TypeOK, At, Session
<1>2. CASE Pass
  BY <1>1, <1>2, JustPass
<1>3. CASE Through([r EXCEPT !.user = r.cookie = "live"])
  <2> PICK q : q = [r EXCEPT !.user = r.cookie = "live"]
    OBVIOUS
  <2>1. /\ q \in Request /\ q.todo = r.todo /\ SameArrival(q, r) /\ q.user = (r.cookie = "live")
        /\ q.passed = r.passed /\ q.status = r.status
    BY <1>1, RequestIs DEF SameArrival
  <2>2. /\ r' \in Request /\ r'.todo = Tail(r.todo) /\ SameArrival(r', q)
        /\ r'.passed = q.passed /\ r'.user = q.user /\ r'.status = q.status /\ up' = up
    BY <1>1, <1>3, <2>1, ThroughIs
  <2>3. /\ SameArrival(r', r) /\ r.passed \subseteq r'.passed /\ (r'.user => r'.cookie = "live")
        /\ (r.user => r'.user) /\ ("write" \in r'.passed => "write" \in r.passed)
    BY <1>1, <2>1, <2>2 DEF SameArrival
  <2> QED BY <1>1, <2>1, <2>2, <2>3, PassStep
<1>4. CASE up["db"] = "down" /\ Fail(500)
  BY <1>1, <1>4, FailStep DEF StatusNames
<1>5. CASE r.cookie = "live" /\ Fail(500)
  <2>1. Has(r.todo, "session")
    <3>1. r.todo \in Seq(GateNames)
      BY <1>1, RequestIs
    <3> QED BY <1>1, <3>1, TailIs DEF Has
  <2>2. r.passed = {}
    BY <1>1, <2>1 DEF PipeInv, NothingYet
  <2> QED BY <1>1, <1>5, <2>2, FailStep DEF StatusNames
<1> QED BY <1>2, <1>3, <1>4, <1>5 DEF Session

(* Every other gate lets the request through, turns it or answers it, and  *)
(* most of them say 500 only when the database is down.                    *)
LEMMA Answered ==
  ASSUME PipeInv, NEW gate, At(gate), NEW n \in {400, 401, 403, 404, 409, 422, 429, 501, 503}, Fail(n)
  PROVE  PipeInv'
  BY FailStep DEF At, StatusNames

LEMMA Broken ==
  ASSUME PipeInv, NEW gate, At(gate), up["db"] = "down", Fail(500)
  PROVE  PipeInv'
  BY FailStep DEF At, StatusNames

(* The first statement of a registration finds nothing written.            *)
LEMMA StatementStep ==
  ASSUME PipeInv, Statement
  PROVE  PipeInv'
<1>1. At("write") /\ r.status = 0
  BY DEF Statement, At
<1>2. CASE r.route = "register" /\ "write" \notin r.passed /\ Fail(500)
  BY <1>1, <1>2, FailStep DEF StatusNames
<1>3. CASE Through([r EXCEPT !.passed = @ \cup {"write"}])
  BY <1>1, <1>3, MarkPass
<1>4. CASE up["db"] = "down" /\ Fail(500)
  BY <1>1, <1>4, Broken
<1> QED BY <1>2, <1>3, <1>4 DEF Statement

LEMMA CheckStep ==
  ASSUME PipeInv, Check
  PROVE  PipeInv'
<1>1. At("check") /\ "check" \in Open
  BY DEF Check, Open
<1>2. CASE Pass
  BY <1>1, <1>2, JustPass
<1>3. CASE GoOn(<<"audit", "monitor", "refused">>)
  <2>1. PICK w : w = <<"audit", "monitor", "refused">>
    OBVIOUS
  <2>2. /\ w \in Seq(GateNames) /\ \A i \in DOMAIN w : w[i] \notin Open \cup {"session"}
        /\ ~Has(w, "write")
    BY <2>1 DEF GateNames, Open, Has
  <2> QED BY <1>1, <1>3, <2>1, <2>2, TurnStep
<1>4. CASE GoOn(<< >>)
  <2>1. << >> \in Seq(GateNames) /\ DOMAIN << >> = {}
    OBVIOUS
  <2> QED BY <1>1, <1>4, <2>1, TurnStep DEF Has
<1>5. ASSUME NEW n \in Refusals(r.route), Fail(n) PROVE PipeInv'
  <2>1. n \in {400, 404, 409}
    BY <1>5 DEF Refusals
  <2> QED BY <1>1, <1>5, <2>1, Answered
<1>6. CASE up["db"] = "down" /\ Fail(500)
  BY <1>1, <1>6, Broken
<1> QED BY <1>2, <1>3, <1>4, <1>5, <1>6 DEF Check

(* However a service goes on, it audits; a start that throws has changed   *)
(* no row.                                                                 *)
LEMMA TurnsAre ==
  ASSUME NEW x, NEW w \in Turns(x)
  PROVE  /\ w \in Seq(GateNames) /\ \A i \in DOMAIN w : w[i] \notin Open \cup {"session"}
         /\ Has(w, "audit")
<1>1. w \in {<<"write", "write", "audit", "monitor", "write", "audit", "monitor">>,
            <<"write", "audit", "monitor", "write", "audit", "monitor">>,
            <<"write", "audit", "monitor">>, <<"write", "write", "audit", "monitor">>,
            <<"write", "write", "write", "audit", "monitor", "audit", "monitor">>}
  BY DEF Turns
<1>2. CASE w = <<"write", "write", "audit", "monitor", "write", "audit", "monitor">>
  <2>1. w[3] = "audit" /\ 3 \in DOMAIN w
    BY <1>2
  <2> QED BY <1>2, <2>1 DEF GateNames, Open, Has
<1>3. CASE w = <<"write", "audit", "monitor", "write", "audit", "monitor">>
  <2>1. w[2] = "audit" /\ 2 \in DOMAIN w
    BY <1>3
  <2> QED BY <1>3, <2>1 DEF GateNames, Open, Has
<1>4. CASE w = <<"write", "audit", "monitor">>
  <2>1. w[2] = "audit" /\ 2 \in DOMAIN w
    BY <1>4
  <2> QED BY <1>4, <2>1 DEF GateNames, Open, Has
<1>5. CASE w = <<"write", "write", "audit", "monitor">>
  <2>1. w[3] = "audit" /\ 3 \in DOMAIN w
    BY <1>5
  <2> QED BY <1>5, <2>1 DEF GateNames, Open, Has
<1>6. CASE w = <<"write", "write", "write", "audit", "monitor", "audit", "monitor">>
  <2>1. w[4] = "audit" /\ 4 \in DOMAIN w
    BY <1>6
  <2> QED BY <1>6, <2>1 DEF GateNames, Open, Has
<1> QED BY <1>1, <1>2, <1>3, <1>4, <1>5, <1>6

LEMMA BeginStep ==
  ASSUME PipeInv, Begin
  PROVE  PipeInv'
<1>1. At("begin") /\ "begin" \in Open /\ r.status = 0
  BY DEF Begin, Open, At
<1>2. ASSUME NEW w \in Turns(r.route), GoOn(w) PROVE PipeInv'
  BY <1>1, <1>2, TurnsAre, TurnStep
<1>3. CASE Fail(409)
  BY <1>1, <1>3, Answered
<1>4. CASE r.route = "envStart" /\ Fail(500)
  <2>1. PICK s : s = r.todo
    OBVIOUS
  <2>2. s \in Seq(GateNames) /\ s # << >> /\ Head(s) = "begin" /\ GuardsAhead /\ NothingYet
    BY <1>1, <2>1, RequestIs DEF PipeInv, TypeOK, At
  <2>3. Has(s, "begin")
    BY <2>2, TailIs DEF Has
  <2>4. "write" \notin r.passed
    BY <2>1, <2>2, <2>3 DEF NothingYet
  <2>5. "audit" \in r.passed \/ Before("audit", s)
    BY <1>4, <2>1, <2>2 DEF GuardsAhead, AskFirst
  <2>6. "audit" \in r.passed
    BY <2>2, <2>5, BeforeTail DEF Acts
  <2> QED BY <1>1, <1>4, <2>4, <2>6, FailStep DEF StatusNames
<1> QED BY <1>2, <1>3, <1>4 DEF Begin

LEMMA GuardStep ==
  ASSUME PipeInv,
         \/ Observe \/ Parse \/ RequireAuth \/ AssertTrustedOrigin \/ EnforceLimit \/ ParseBody
         \/ Lookup \/ Read \/ Check \/ Refused \/ Begin \/ Statement \/ Record \/ Monitor
         \/ NoRuntime \/ Stub \/ Unknown \/ Report
  PROVE  PipeInv'
<1>1. CASE Observe
  BY <1>1, JustPass DEF Observe
<1>2. CASE Parse
  BY <1>2, JustPass, Answered DEF Parse
<1>3. CASE RequireAuth
  BY <1>3, JustPass, Answered DEF RequireAuth
<1>4. CASE AssertTrustedOrigin
  BY <1>4, JustPass, Answered DEF AssertTrustedOrigin
<1>5. CASE EnforceLimit
  BY <1>5, MarkPass, Answered DEF EnforceLimit
<1>6. CASE ParseBody
  BY <1>6, JustPass, Answered DEF ParseBody
<1>7. CASE Lookup
  BY <1>7, JustPass, Answered DEF Lookup
<1>8. CASE Read
  BY <1>8, JustPass, Answered, Broken DEF Read
<1>9. CASE Check \/ Begin \/ Statement
  BY <1>9, CheckStep, BeginStep, StatementStep
<1>10. CASE Record
  BY <1>10, MarkPass, Broken DEF Record
<1>11. CASE Monitor
  BY <1>11, JustPass DEF Monitor
<1>12. CASE NoRuntime
  BY <1>12, Answered DEF NoRuntime
<1>13. CASE Stub
  BY <1>13, Answered DEF Stub
<1>14. CASE Unknown
  BY <1>14, Answered DEF Unknown
<1>15. CASE Report
  BY <1>15, JustPass DEF Report
<1>16. CASE Refused
  BY <1>16, Answered DEF Refused
<1> QED BY <1>1, <1>2, <1>3, <1>4, <1>5, <1>6, <1>7, <1>8, <1>9, <1>10, <1>11, <1>12, <1>13, <1>14, <1>15,
         <1>16

(* The end of the way: what was still ahead is nothing now.                *)
LEMMA SucceedStep ==
  ASSUME PipeInv, Succeed
  PROVE  PipeInv'
<1>1. PICK n \in {200, 503} :
        /\ r' = [r EXCEPT !.status = n]
        /\ n = 200 => r.route # "ready" \/ \A d \in Deps : r.probe[d] = "ok"
  BY DEF Succeed
<1>2. r \in Request /\ r.status = 0 /\ r.todo = << >> /\ up' = up
  BY DEF PipeInv, TypeOK, Succeed
<1>3. /\ r'.status = n /\ r'.passed = r.passed /\ r'.user = r.user /\ SameArrival(r', r)
  BY <1>1, <1>2, RequestIs DEF SameArrival
<1>4. n \in StatusNames /\ n # 0 /\ n # 500
  BY DEF StatusNames
<1>5. r' \in Request
  BY <1>1, <1>2, <1>4, RequestIs
<1>6. ~Has(<< >>, "audit")
  BY DEF Has
<1>7. "write" \in r.passed => "audit" \in r.passed \/ r.route = "envTouch"
  BY <1>2, <1>6 DEF PipeInv, AuditAhead
<1>8. (\A d \in Deps : r.probe[d] = "ok") => r.seen = Deps
  <2>1. r.seen \subseteq Deps
    BY <1>2, RequestIs
  <2>2. \A d \in Deps : r.probe[d] = "ok" => d \in r.seen
    BY <1>2 DEF PipeInv, HistoryTells
  <2> QED BY <2>1, <2>2
<1>9. AnswersAreTrue'
  BY <1>1, <1>3, <1>4, <1>7, <1>8 DEF AnswersAreTrue, SameArrival
<1>10. EffectsAreGuarded' /\ TypeOK' /\ (r'.user => r'.cookie = "live")
  BY <1>2, <1>3, <1>5 DEF PipeInv, EffectsAreGuarded, TypeOK, SameArrival
<1> QED BY <1>3, <1>4, <1>9, <1>10 DEF PipeInv

(* A step that touches only what the request remembers of the              *)
(* dependencies leaves its gates as they are.                              *)
LEMMA MemoryStep ==
  ASSUME PipeInv, r.status = 0, r' \in Request, up' \in [Deps -> {"up", "down", "hung"}],
         r'.todo = r.todo, r'.route = r.route, r'.cookie = r.cookie, r'.trusted = r.trusted,
         r'.body = r.body, r'.user = r.user, r'.passed = r.passed, r'.status = r.status,
         HistoryTells'
  PROVE  PipeInv'
<1>1. GuardsAhead' /\ AuditAhead' /\ NothingYet'
  BY DEF PipeInv, GuardsAhead, AuditAhead, NothingYet
<1>2. EffectsAreGuarded' /\ AnswersAreTrue'
  BY DEF PipeInv, EffectsAreGuarded, AnswersAreTrue
<1> QED BY <1>1, <1>2 DEF PipeInv, TypeOK

LEMMA VerdictStep ==
  ASSUME PipeInv, NEW d \in Deps, ProbeAnswers(d) \/ ProbeTimesOut(d)
  PROVE  PipeInv'
<1>1. PICK v \in {"ok", "unavailable"} : Verdict(d, v) /\ (v = "ok" => up[d] = "up")
  BY DEF ProbeAnswers, ProbeTimesOut
<1>2. r \in Request /\ r.status = 0 /\ up' = up /\ r' = [r EXCEPT !.probe[d] = v]
  BY <1>1 DEF PipeInv, TypeOK, Verdict, At
<1>3. r.probe \in [Deps -> {"asked", "ok", "unavailable"}]
  BY <1>2, RequestIs
<1>4. r'.probe = [r.probe EXCEPT ![d] = v]
  BY <1>2, RequestIs
<1>5. r'.probe \in [Deps -> {"asked", "ok", "unavailable"}]
  BY <1>3, <1>4
<1>6. /\ r'.todo = r.todo /\ r'.route = r.route /\ r'.cookie = r.cookie /\ r'.trusted = r.trusted
      /\ r'.body = r.body /\ r'.user = r.user /\ r'.passed = r.passed /\ r'.status = r.status
      /\ r'.seen = r.seen /\ r'.failed = r.failed
  BY <1>2, RequestIs
<1>7. r' \in Request
  BY <1>2, <1>3, RequestIs
<1>8. HistoryTells
  BY <1>2 DEF PipeInv
<1>9. HistoryTells'
  BY <1>1, <1>2, <1>3, <1>4, <1>6, <1>8 DEF HistoryTells
<1> QED BY <1>2, <1>6, <1>7, <1>9, MemoryStep DEF PipeInv, TypeOK

LEMMA ChangeStep ==
  ASSUME PipeInv, NEW d \in Deps, NEW state \in {"up", "down", "hung"}, Change(d, state)
  PROVE  PipeInv'
<1>1. /\ r \in Request /\ up \in [Deps -> {"up", "down", "hung"}] /\ up' = [up EXCEPT ![d] = state]
      /\ up' \in [Deps -> {"up", "down", "hung"}]
  BY DEF PipeInv, TypeOK, Change
<1>2. CASE r.status # 0
  <2>1. r' = r
    BY <1>2 DEF Change
  <2>2. EffectsAreGuarded' /\ AnswersAreTrue' /\ TypeOK'
    BY <2>1, <1>1 DEF PipeInv, EffectsAreGuarded, AnswersAreTrue, TypeOK
  <2> QED BY <2>1, <2>2, <1>2 DEF PipeInv
<1>3. CASE r.status = 0 /\ state = "up"
  <2>1. r' = [r EXCEPT !.seen = @ \cup {d}]
    BY <1>3 DEF Change
  <2>2. r.seen \subseteq Deps
    BY <1>1, RequestIs
  <2>3. /\ r'.todo = r.todo /\ r'.route = r.route /\ r'.cookie = r.cookie /\ r'.trusted = r.trusted
        /\ r'.body = r.body /\ r'.user = r.user /\ r'.passed = r.passed /\ r'.status = r.status
        /\ r'.seen = r.seen \cup {d} /\ r'.failed = r.failed /\ r'.probe = r.probe
    BY <1>1, <2>1, RequestIs
  <2>4. r' \in Request
    BY <1>1, <2>1, <2>2, RequestIs
  <2>5. HistoryTells'
    BY <1>1, <1>3, <2>3 DEF PipeInv, HistoryTells
  <2> QED BY <1>1, <1>3, <2>3, <2>4, <2>5, MemoryStep
<1>4. CASE r.status = 0 /\ state # "up"
  <2>1. r' = [r EXCEPT !.failed = @ \/ (d = "db" /\ state = "down")]
    BY <1>4 DEF Change
  <2>2. r.failed \in BOOLEAN
    BY <1>1, RequestIs
  <2>3. /\ r'.todo = r.todo /\ r'.route = r.route /\ r'.cookie = r.cookie /\ r'.trusted = r.trusted
        /\ r'.body = r.body /\ r'.user = r.user /\ r'.passed = r.passed /\ r'.status = r.status
        /\ r'.seen = r.seen /\ r'.failed = (r.failed \/ (d = "db" /\ state = "down"))
        /\ r'.probe = r.probe
    BY <1>1, <2>1, RequestIs
  <2>4. r' \in Request
    BY <1>1, <2>1, <2>2, RequestIs
  <2>5. HistoryTells'
    <3>1. up'["db"] = "down" => r'.failed
      BY <1>1, <1>4, <2>2, <2>3 DEF PipeInv, HistoryTells, Deps
    <3>2. \A e \in Deps : up'[e] = "up" => up[e] = "up"
      BY <1>1, <1>4
    <3> QED BY <1>4, <2>3, <3>1, <3>2 DEF PipeInv, HistoryTells
  <2> QED BY <1>1, <1>4, <2>3, <2>4, <2>5, MemoryStep
<1> QED BY <1>2, <1>3, <1>4

LEMMA ArriveStep ==
  ASSUME PipeInv, NEW route \in Routes, NEW cookie \in {"none", "dead", "live"},
         NEW trusted \in BOOLEAN, NEW body \in {"good", "invalid", "malformed"},
         Arrive(route, cookie, trusted, body)
  PROVE  PipeInv'
<1> PICK w : w = <<"session", "observe">> \o Gates[route]
  OBVIOUS
<1>1. up \in [Deps -> {"up", "down", "hung"}] /\ up' = up
  BY DEF PipeInv, TypeOK, Arrive
<1>2. Gates[route] \in Seq(GateNames) /\ Guarding(route, Gates[route])
  BY Ways
<1>3. /\ w \in Seq(GateNames)
      /\ Before("origin", w) /\ Before("parse", w)
      /\ route \in WithBody => Before("body", w)
      /\ route # "logout" => Before("limit", w)
      /\ route \notin {"register", "login"} => Before("auth", w)
      /\ route \in AskFirst => Before("audit", w)
      /\ Decided(w) /\ \A i \in DOMAIN w : i # 1 => w[i] # "session"
      /\ route # "envTouch" => Has(w, "audit") \/ ~Has(w, "write")
  BY <1>2, Hooked DEF Guarding, Serving
<1>4. r' = [todo |-> w, route |-> route, cookie |-> cookie, trusted |-> trusted, body |-> body,
            user |-> FALSE, passed |-> {}, probe |-> [d \in Deps |-> "asked"], status |-> 0,
            seen |-> Are("up"), failed |-> up["db"] = "down"]
  BY DEF Arrive, Arriving
<1>5. r' \in Request
  BY <1>3, <1>4, RequestIs DEF StatusNames, Are
<1>6. GuardsAhead'
  BY <1>3, <1>4 DEF GuardsAhead
<1>7. AuditAhead' /\ NothingYet'
  BY <1>3, <1>4 DEF AuditAhead, NothingYet
<1>8. HistoryTells'
  BY <1>1, <1>4 DEF HistoryTells, Are
<1>9. EffectsAreGuarded' /\ AnswersAreTrue'
  BY <1>4 DEF EffectsAreGuarded, AnswersAreTrue
<1> QED BY <1>1, <1>4, <1>5, <1>6, <1>7, <1>8, <1>9 DEF PipeInv, TypeOK

LEMMA LeaveStep ==
  ASSUME PipeInv, Leave
  PROVE  PipeInv'
<1>1. up \in [Deps -> {"up", "down", "hung"}] /\ up' = up /\ r' = NoRequest
  BY DEF PipeInv, TypeOK, Leave
<1>2. /\ NoRequest \in Request
      /\ NoRequest.status = -1 /\ NoRequest.passed = {} /\ ~NoRequest.user
  BY <1>1, NoRequestHolds
<1> QED BY <1>1, <1>2 DEF PipeInv, TypeOK, EffectsAreGuarded, AnswersAreTrue

-----------------------------------------------------------------------------
(* The theorems.                                                           *)

(* Whatever a request has not been asked for, it is asked for before its   *)
(* service is called, and whatever its service did is still to be audited: *)
(* the handlers keep their order on all routes, and through every outage.  *)
THEOREM PipelineInductive == Spec => []PipeInv
<1>1. ASSUME Init PROVE PipeInv
  <2>1. up \in [Deps -> {"up", "down", "hung"}] /\ r = NoRequest
    BY <1>1 DEF Init
  <2>2. /\ NoRequest \in Request
        /\ NoRequest.status = -1 /\ NoRequest.passed = {} /\ ~NoRequest.user
    BY <2>1, NoRequestHolds
  <2> QED BY <2>1, <2>2 DEF PipeInv, TypeOK, EffectsAreGuarded, AnswersAreTrue
<1>2. ASSUME PipeInv, [Next]_vars PROVE PipeInv'
  <2>1. ASSUME NEW route \in Routes, NEW cookie \in {"none", "dead", "live"}, NEW trusted \in BOOLEAN,
               NEW body \in {"good", "invalid", "malformed"}, Arrive(route, cookie, trusted, body)
        PROVE  PipeInv'
    BY <1>2, <2>1, ArriveStep
  <2>2. CASE Leave
    BY <1>2, <2>2, LeaveStep
  <2>3. CASE Gate
    BY <1>2, <2>3, SessionStep, GuardStep, VerdictStep, SucceedStep DEF Gate
  <2>4. CASE \E d \in Deps : ProbeAnswers(d)
    BY <1>2, <2>4, VerdictStep
  <2>5. CASE \E d \in Deps, state \in {"up", "down", "hung"} : Change(d, state)
    BY <1>2, <2>5, ChangeStep
  <2>6. CASE UNCHANGED vars
    BY <1>2, <2>6 DEF vars, PipeInv, TypeOK, GuardsAhead, AuditAhead, NothingYet, HistoryTells,
                      EffectsAreGuarded, AnswersAreTrue
  <2> QED BY <1>2, <2>1, <2>2, <2>3, <2>4, <2>5, <2>6 DEF Next
<1> QED BY <1>1, <1>2, PTL DEF Spec

(* The variables of the pipeline hold values of their types.               *)
THEOREM PipelineTypeCorrect == Spec => []TypeOK
<1>1. PipeInv => TypeOK
  BY DEF PipeInv
<1> QED BY <1>1, PipelineInductive, PTL

(* No service is called for a request that its origin, its body, its       *)
(* limits or its session should have stopped, on any route and whatever    *)
(* goes down or comes back on the way.                                     *)
THEOREM EffectsGuarded == Spec => []EffectsAreGuarded
<1>1. PipeInv => EffectsAreGuarded
  BY DEF PipeInv
<1> QED BY <1>1, PipelineInductive, PTL

(* An answer is true whatever fails or recovers meanwhile: a 500 means     *)
(* that the database failed, or that one of three conflicts broke off the  *)
(* request before it changed a row; a success, that the change is audited; *)
(* and a ready instance, that each dependency was up during the request.   *)
THEOREM AnswersTrue == Spec => []AnswersAreTrue
<1>1. PipeInv => AnswersAreTrue
  BY DEF PipeInv
<1> QED BY <1>1, PipelineInductive, PTL
=============================================================================
