------------------------ MODULE SandboxOrchestratorProofs ------------------------
(***************************************************************************)
(* Theorems about SandboxOrchestrator, for any number of calls,            *)
(* environments and keys.                                                  *)
(***************************************************************************)
EXTENDS SandboxOrchestrator, TLAPS

-----------------------------------------------------------------------------
(* What each call has earned so far.  A teardown that has come past the    *)
(* cache left nothing of its environment there: what is there by now was   *)
(* put there by a provision it overlaps.                                   *)
CallInv(s) ==
  LET c == call[s] IN
  /\ c.stage \in {"request", "start"} => c.result = "pending"
  /\ c.stage \in {"start", "runtime"} => configured
  /\ c.stage = "start" => c.op = "provision"
  /\ c.op = "provision" /\ c.result = "ok" => c.env \in born
  /\ c.op = "provision" /\ c.result = "ok" /\ c.stage \in {"runtime", "report"}
       => c.env \in sandboxes \cup crossed
  /\ c.op = "provision" /\ c.stage = "report" /\ c.answer = 200 => c.result = "ok"
  /\ c.op = "provision" /\ c.stage = "done" /\ c.answer = 200 => c.env \in born
  /\ c.op \in {"stop", "destroy"} /\ c.stage \in {"report", "done"} /\ c.answer = 200
       => c.result # "pending" \/ ~configured
  /\ c.op = "destroy" /\ c.stage \in {"runtime", "report"}
       => \A k \in Keys : <<c.env, k>> \in provisioned => c.env \in crossed

CacheInv ==
  \A e \in Envs, k \in Keys : <<e, k>> \in provisioned => e \in born /\ e \in sandboxes \cup crossed

LateInv ==
  \A e \in Envs :
    /\ <<"provision", e>> \in late => configured
    /\ <<"destroy", e>> \in late => \A k \in Keys : <<e, k>> \in provisioned => e \in crossed

BornInv == born # {} => configured

CrossedInv == \A e \in Envs : Crossing(e) => e \in crossed

SharedInv == TypeOK /\ CacheInv /\ LateInv /\ BornInv

SInv == SharedInv /\ CrossedInv /\ \A s \in Slots : CallInv(s)

-----------------------------------------------------------------------------
(* A call that waits keeps what it has earned, as long as sandboxes go     *)
(* only by a destroy, and provisions are remembered only by a provision.   *)
Mild ==
  /\ born \subseteq born'
  /\ \A e \in Envs : e \in sandboxes /\ e \notin sandboxes' => Pending("destroy", e)
  /\ \A e \in Envs, k \in Keys :
       <<e, k>> \in provisioned' /\ <<e, k>> \notin provisioned => Pending("provision", e)

LEMMA CallType ==
  ASSUME TypeOK, NEW s \in Slots
  PROVE  /\ call[s] \in Call /\ call[s].env \in Envs /\ call[s].op \in Ops
         /\ call[s].key \in Keys \cup {NoKey}
  BY DEF TypeOK, Call

LEMMA WaitingKeeps ==
  ASSUME SInv, Watch, Mild, NEW t \in Slots, call'[t] = call[t]
  PROVE  CallInv(t)'
<1> DEFINE c == call[t]
<1>1. c \in Call /\ c.env \in Envs
  BY CallType DEF SInv, SharedInv
<1>2. CallInv(t)
  BY DEF SInv
<1>3. configured' = configured /\ crossed \subseteq crossed'
  BY DEF Watch
<1>4. ASSUME c.op = "provision", c.stage \in {"runtime", "report"}, c.env \in sandboxes \cup crossed
      PROVE c.env \in sandboxes' \cup crossed'
  <2>1. Pending("provision", c.env)
    BY <1>4 DEF Pending
  <2>2. CASE Pending("destroy", c.env)
    BY <1>1, <1>3, <2>1, <2>2 DEF SInv, CrossedInv, Crossing
  <2>3. CASE ~Pending("destroy", c.env)
    BY <1>1, <1>3, <1>4, <2>3 DEF Mild
  <2> QED BY <2>2, <2>3
<1>5. ASSUME c.op = "destroy", c.stage \in {"runtime", "report"}, NEW k \in Keys,
             <<c.env, k>> \in provisioned'
      PROVE c.env \in crossed'
  <2>1. Pending("destroy", c.env)
    BY <1>5 DEF Pending
  <2>2. CASE <<c.env, k>> \in provisioned
    BY <1>2, <1>3, <1>5, <2>2 DEF CallInv
  <2>3. CASE <<c.env, k>> \notin provisioned
    BY <1>1, <1>3, <1>5, <2>1, <2>3 DEF Mild, SInv, CrossedInv, Crossing
  <2> QED BY <2>2, <2>3
<1> QED BY <1>2, <1>3, <1>4, <1>5 DEF CallInv, Mild

(* So a step of one call has to look at that call and at what is shared.   *)
LEMMA OneCallSteps ==
  ASSUME SInv, Watch, Mild, NEW s \in Slots, NEW c, Become(s, c), SharedInv', CallInv(s)'
  PROVE  SInv'
<1>1. \A t \in Slots : CallInv(t)'
  <2> SUFFICES ASSUME NEW t \in Slots, t # s PROVE CallInv(t)'
    OBVIOUS
  <2>1. call'[t] = call[t]
    BY DEF Become, SInv, SharedInv, TypeOK
  <2> QED BY <2>1, WaitingKeeps
<1>2. CrossedInv'
  BY DEF Watch, CrossedInv
<1> QED BY <1>1, <1>2 DEF SInv

LEMMA WatchTypes ==
  ASSUME TypeOK, Watch
  PROVE  configured' \in BOOLEAN /\ configured' = configured /\ crossed' \subseteq Envs
         /\ crossed \subseteq crossed'
  BY DEF TypeOK, Watch

(* A step that changes one call and nothing else but, at most, the history *)
(* of crossings.                                                           *)
LEMMA QuietStep ==
  ASSUME SInv, Watch, NEW s \in Slots, NEW c \in Call, Become(s, c),
         UNCHANGED <<provisioned, sandboxes, late, born>>, CallInv(s)'
  PROVE  SInv'
<1>1. Mild
  BY DEF Mild
<1>2. TypeOK'
  BY WatchTypes DEF SInv, SharedInv, TypeOK, Become
<1>3. CacheInv' /\ LateInv' /\ BornInv'
  BY WatchTypes DEF SInv, SharedInv, CacheInv, LateInv, BornInv
<1> QED BY <1>1, <1>2, <1>3, OneCallSteps DEF SharedInv

-----------------------------------------------------------------------------
(* The records of calls.                                                   *)
Answers == {0, 200, 422, 500, 502, 503, 504}

LEMMA DoneIs ==
  ASSUME NEW c \in Call, NEW a \in Answers
  PROVE  /\ Done(c, a) \in Call /\ Done(c, a).stage = "done" /\ Done(c, a).answer = a
         /\ Done(c, a).op = c.op /\ Done(c, a).env = c.env /\ Done(c, a).result = c.result
<1> DEFINE d == [c EXCEPT !.stage = "done"]
<1>1. d \in Call /\ d.stage = "done" /\ d.op = c.op /\ d.env = c.env /\ d.result = c.result
  BY DEF Call
<1>2. Done(c, a) = [d EXCEPT !.answer = a]
  BY DEF Done, Call
<1> HIDE DEF d
<1>3. [d EXCEPT !.answer = a] \in Call
  BY <1>1 DEF Call, Answers
<1> QED BY <1>1, <1>2, <1>3 DEF Call

LEMMA ReportIs ==
  ASSUME NEW c \in Call, NEW a \in Answers
  PROVE  /\ Report(c, a) \in Call /\ Report(c, a).stage = "report" /\ Report(c, a).answer = a
         /\ Report(c, a).op = c.op /\ Report(c, a).env = c.env /\ Report(c, a).result = c.result
<1> DEFINE d == [c EXCEPT !.stage = "report"]
<1>1. d \in Call /\ d.stage = "report" /\ d.op = c.op /\ d.env = c.env /\ d.result = c.result
  BY DEF Call
<1>2. Report(c, a) = [d EXCEPT !.answer = a]
  BY DEF Report, Call
<1> HIDE DEF d
<1>3. [d EXCEPT !.answer = a] \in Call
  BY <1>1 DEF Call, Answers
<1> QED BY <1>1, <1>2, <1>3 DEF Call

LEMMA StageIs ==
  ASSUME NEW c \in Call, NEW x \in {"start", "runtime"}
  PROVE  /\ [c EXCEPT !.stage = x] \in Call
         /\ [c EXCEPT !.stage = x].stage = x /\ [c EXCEPT !.stage = x].op = c.op
         /\ [c EXCEPT !.stage = x].env = c.env /\ [c EXCEPT !.stage = x].result = c.result
  BY DEF Call

LEMMA NewIs ==
  ASSUME NEW op \in Ops, NEW e \in Envs, NEW k \in Keys \cup {NoKey}, NEW permitted \in BOOLEAN
  PROVE  /\ New(op, e, k, permitted) \in Call /\ New(op, e, k, permitted).stage = "request"
         /\ New(op, e, k, permitted).op = op /\ New(op, e, k, permitted).env = e
         /\ New(op, e, k, permitted).result = "pending"
  BY DEF New, Call

(* What a call becomes, when it is all that changes.                       *)
LEMMA CallBecomes ==
  ASSUME SInv, NEW s \in Slots, NEW c, Become(s, c)
  PROVE  call'[s] = c
  BY DEF SInv, SharedInv, TypeOK, Become

-----------------------------------------------------------------------------
LEMMA ArriveStep ==
  ASSUME SInv, Watch, NEW s \in Slots, NEW op \in Ops, NEW e \in Envs,
         NEW k \in Keys \cup {NoKey}, NEW permitted \in BOOLEAN, Arrive(s, op, e, k, permitted)
  PROVE  SInv'
<1> DEFINE d == New(op, e, k, permitted)
<1>1. d \in Call /\ d.stage = "request" /\ d.result = "pending"
  BY NewIs
<1>2. Become(s, d) /\ UNCHANGED <<provisioned, sandboxes, late, born>>
  BY DEF Arrive
<1> HIDE DEF d
<1>3. CallInv(s)'
  BY <1>1, <1>2, CallBecomes DEF CallInv
<1> QED BY <1>1, <1>2, <1>3, QuietStep

LEMMA DescribeStep ==
  ASSUME SInv, Watch, NEW s \in Slots, NEW e \in Envs, NEW permitted \in BOOLEAN,
         Describe(s, e, permitted)
  PROVE  SInv'
<1> DEFINE n == New("start", e, NoKey, permitted)
           m == [n EXCEPT !.result = "ok"]
           a == IF permitted THEN 200 ELSE 422
           d == Done(m, a)
<1>1. n \in Call /\ n.op = "start"
  BY NewIs DEF Ops
<1>2. Become(s, d) /\ UNCHANGED <<provisioned, sandboxes, late, born>>
  BY DEF Describe
<1> HIDE DEF n
<1>3. m \in Call /\ m.op = "start" /\ a \in Answers
  BY <1>1 DEF Call, Answers
<1> HIDE DEF m, a
<1>4. d \in Call /\ d.stage = "done" /\ d.op = "start"
  BY <1>3, DoneIs
<1> HIDE DEF d
<1>5. CallInv(s)'
  BY <1>2, <1>4, CallBecomes DEF CallInv
<1> QED BY <1>2, <1>4, <1>5, QuietStep

LEMMA ProvisionStep ==
  ASSUME SInv, Watch, NEW s \in Slots, Provision(s)
  PROVE  SInv'
<1> DEFINE c == call[s]
<1>1. /\ c \in Call /\ c.env \in Envs /\ c.op = "provision" /\ c.result = "pending"
      /\ UNCHANGED <<provisioned, sandboxes, late, born>> /\ configured' = configured
  BY CallType DEF SInv, SharedInv, Provision, CallInv, Watch
<1>2. CASE <<c.env, c.key>> \in provisioned /\ Become(s, Done(c, 200))
  <2>1. c.env \in born
    <3>1. c.key \in Keys
      BY <1>2 DEF SInv, SharedInv, TypeOK
    <3> QED BY <1>1, <1>2, <3>1 DEF SInv, SharedInv, CacheInv
  <2> DEFINE d == Done(c, 200)
  <2>2. d \in Call /\ d.stage = "done" /\ d.op = "provision" /\ d.env = c.env /\ d.result = "pending"
    BY <1>1, DoneIs DEF Answers
  <2> HIDE DEF d
  <2>3. CallInv(s)'
    BY <1>1, <1>2, <2>1, <2>2, CallBecomes DEF CallInv, d
  <2> QED BY <1>1, <1>2, <2>2, <2>3, QuietStep DEF d
<1>3. ASSUME NEW a \in {422, 503}, Become(s, Report(c, a)) PROVE SInv'
  <2> DEFINE d == Report(c, a)
  <2>1. /\ d \in Call /\ d.stage = "report" /\ d.op = "provision" /\ d.result = "pending"
        /\ d.answer = a
    BY <1>1, ReportIs DEF Answers
  <2> HIDE DEF d
  <2>2. CallInv(s)'
    BY <1>1, <1>3, <2>1, CallBecomes DEF CallInv, d
  <2> QED BY <1>1, <1>3, <2>1, <2>2, QuietStep DEF d
<1>4. CASE configured /\ Become(s, [c EXCEPT !.stage = "start"])
  <2> DEFINE d == [c EXCEPT !.stage = "start"]
  <2>1. d \in Call /\ d.stage = "start" /\ d.op = "provision" /\ d.result = "pending"
    BY <1>1, StageIs
  <2> HIDE DEF d
  <2>2. CallInv(s)'
    BY <1>1, <1>4, <2>1, CallBecomes DEF CallInv, d
  <2> QED BY <1>1, <1>4, <2>1, <2>2, QuietStep DEF d
<1> QED BY <1>2, <1>3, <1>4 DEF Provision

LEMMA InvokeStep ==
  ASSUME SInv, Watch, NEW s \in Slots, Invoke(s)
  PROVE  SInv'
<1> DEFINE c == call[s]
           d == [c EXCEPT !.stage = "runtime"]
<1>1. c \in Call /\ c.result = "pending" /\ configured /\ configured' = configured
  BY CallType DEF SInv, SharedInv, CallInv, Invoke, Watch
<1>2. d \in Call /\ d.stage = "runtime" /\ d.op = c.op /\ d.env = c.env /\ d.result = "pending"
  BY <1>1, StageIs
<1>3. Become(s, d) /\ UNCHANGED <<provisioned, sandboxes, late, born>>
  BY DEF Invoke
<1> HIDE DEF d
<1>4. c.op # "destroy"
  BY DEF SInv, CallInv, Invoke
<1>5. CallInv(s)'
  BY <1>1, <1>2, <1>3, <1>4, CallBecomes DEF CallInv
<1> QED BY <1>2, <1>3, <1>5, QuietStep

LEMMA StartOrResetStep ==
  ASSUME SInv, Watch, NEW s \in Slots, StartOrReset(s)
  PROVE  SInv'
<1> DEFINE c == call[s]
<1>1. /\ c \in Call /\ c.op \in {"start", "reset"} /\ configured' = configured
      /\ UNCHANGED <<provisioned, sandboxes, late, born>>
  BY CallType DEF SInv, SharedInv, StartOrReset, Watch
<1>2. ASSUME NEW d \in Call, Become(s, d), d.op = c.op, d.stage \notin {"request", "start"},
             d.stage = "runtime" => configured
      PROVE  SInv'
  <2>1. CallInv(s)'
    BY <1>1, <1>2, CallBecomes DEF CallInv
  <2> QED BY <1>1, <1>2, <2>1, QuietStep
<1>3. CASE configured /\ Become(s, [c EXCEPT !.stage = "runtime"])
  BY <1>1, <1>2, <1>3, StageIs
<1>4. CASE Become(s, Report(c, 503))
  BY <1>1, <1>2, <1>4, ReportIs DEF Answers
<1> QED BY <1>3, <1>4 DEF StartOrReset

LEMMA TearDownStep ==
  ASSUME SInv, Watch, NEW s \in Slots, TearDown(s)
  PROVE  SInv'
<1> DEFINE c == call[s]
<1>1. /\ c \in Call /\ c.env \in Envs /\ c.op \in {"stop", "destroy"} /\ configured' = configured
      /\ UNCHANGED <<sandboxes, late, born>>
      /\ provisioned' = IF c.op = "destroy" THEN {p \in provisioned : p[1] # c.env} ELSE provisioned
  BY CallType DEF SInv, SharedInv, TearDown, Watch
<1>2. /\ provisioned' \subseteq provisioned
      /\ c.op = "destroy" => \A k \in Keys : <<c.env, k>> \notin provisioned'
  BY <1>1
<1>3. Mild
  BY <1>1, <1>2 DEF Mild
<1>4. PICK d \in Call :
        /\ Become(s, d) /\ d.op = c.op /\ d.env = c.env
        /\ d.stage = IF configured THEN "runtime" ELSE "report"
  <2>1. CASE configured
    <3>1. Become(s, [c EXCEPT !.stage = "runtime"])
      BY <2>1 DEF TearDown
    <3> QED BY <1>1, <2>1, <3>1, StageIs
  <2>2. CASE ~configured
    <3>1. Become(s, Report(c, 200))
      BY <2>2 DEF TearDown
    <3> QED BY <1>1, <2>2, <3>1, ReportIs DEF Answers
  <2> QED BY <2>1, <2>2
<1>5. CallInv(s)'
  <2>1. call'[s] = d
    BY <1>4, CallBecomes
  <2> QED BY <1>1, <1>2, <1>4, <2>1 DEF CallInv
<1>6. SharedInv'
  <2>1. TypeOK'
    BY <1>1, <1>2, <1>4, WatchTypes DEF SInv, SharedInv, TypeOK, Become
  <2>2. CacheInv' /\ LateInv' /\ BornInv'
    BY <1>1, <1>2, WatchTypes DEF SInv, SharedInv, CacheInv, LateInv, BornInv
  <2> QED BY <2>1, <2>2 DEF SharedInv
<1> QED BY <1>3, <1>4, <1>5, <1>6, OneCallSteps

(* The operation op of e takes effect: what is shared stays in order, as a *)
(* destroy that is due has nothing of its environment in the cache but     *)
(* what was crossed.                                                       *)
LEMMA EffectShared ==
  ASSUME SInv, Watch, NEW op \in Ops, NEW e \in Envs, Effect(op, e), provisioned' = provisioned,
         op = "provision" => configured,
         op = "destroy" => \A k \in Keys : <<e, k>> \in provisioned => e \in crossed
  PROVE  /\ sandboxes' \subseteq Envs /\ born' \subseteq Envs /\ born \subseteq born'
         /\ CacheInv' /\ BornInv'
         /\ op = "provision" => e \in born' /\ e \in sandboxes'
         /\ \A f \in Envs : f \in sandboxes /\ f \notin sandboxes' => op = "destroy" /\ f = e
<1>1. sandboxes \subseteq Envs /\ born \subseteq Envs /\ CacheInv /\ BornInv
  BY DEF SInv, SharedInv, TypeOK
<1>2. configured' = configured /\ crossed \subseteq crossed'
  BY DEF Watch
<1>3. CASE op = "provision"
  BY <1>1, <1>2, <1>3 DEF Effect, CacheInv, BornInv
<1>4. CASE op = "destroy"
  BY <1>1, <1>2, <1>4 DEF Effect, CacheInv, BornInv
<1>5. CASE op \notin {"provision", "destroy"}
  BY <1>1, <1>2, <1>5 DEF Effect, CacheInv, BornInv
<1> QED BY <1>3, <1>4, <1>5

LEMMA ApplyStep ==
  ASSUME SInv, Watch, NEW s \in Slots, Apply(s)
  PROVE  SInv'
<1> DEFINE c == call[s]
           d == [c EXCEPT !.result = "ok"]
<1>1. /\ c \in Call /\ c.env \in Envs /\ c.op \in Ops /\ c.stage = "runtime" /\ configured
      /\ configured' = configured /\ UNCHANGED <<provisioned, late>> /\ Effect(c.op, c.env)
  BY CallType DEF SInv, SharedInv, CallInv, Apply, Watch
<1>2. d \in Call /\ d.stage = "runtime" /\ d.op = c.op /\ d.env = c.env
  BY <1>1 DEF Call
<1>3. Become(s, d)
  BY DEF Apply
<1> HIDE DEF d
<1>4. c.op = "destroy" => \A k \in Keys : <<c.env, k>> \in provisioned => c.env \in crossed
  BY <1>1 DEF SInv, CallInv
<1>5. /\ sandboxes' \subseteq Envs /\ born' \subseteq Envs /\ born \subseteq born'
      /\ CacheInv' /\ BornInv'
      /\ c.op = "provision" => c.env \in born' /\ c.env \in sandboxes'
      /\ \A f \in Envs : f \in sandboxes /\ f \notin sandboxes' => c.op = "destroy" /\ f = c.env
  BY <1>1, <1>4, EffectShared
<1>6. Mild
  <2>1. c.op = "destroy" => Pending("destroy", c.env)
    BY <1>1 DEF Pending
  <2> QED BY <1>1, <1>5, <2>1 DEF Mild
<1>7. call'[s] = d /\ crossed \subseteq crossed'
  BY <1>3, CallBecomes DEF Watch
<1>8. CallInv(s)'
  BY <1>1, <1>2, <1>4, <1>5, <1>7 DEF CallInv
<1>9. SharedInv'
  <2>1. TypeOK'
    BY <1>1, <1>2, <1>3, <1>5, WatchTypes DEF SInv, SharedInv, TypeOK, Become
  <2>2. LateInv'
    BY <1>1, WatchTypes DEF SInv, SharedInv, LateInv
  <2> QED BY <1>5, <2>1, <2>2 DEF SharedInv
<1> QED BY <1>3, <1>6, <1>8, <1>9, OneCallSteps

LEMMA ApplyLateStep ==
  ASSUME SInv, Watch, NEW op \in Lasting, NEW e \in Envs, ApplyLate(op, e)
  PROVE  SInv'
<1>1. /\ op \in Ops /\ <<op, e>> \in late /\ Effect(op, e) /\ configured' = configured
      /\ late' \subseteq late /\ UNCHANGED <<provisioned, call>>
  BY DEF Lasting, Ops, ApplyLate, Watch
<1>2. /\ op = "provision" => configured
      /\ op = "destroy" => \A k \in Keys : <<e, k>> \in provisioned => e \in crossed
  BY <1>1 DEF SInv, SharedInv, LateInv
<1>3. /\ sandboxes' \subseteq Envs /\ born' \subseteq Envs /\ born \subseteq born'
      /\ CacheInv' /\ BornInv'
      /\ \A f \in Envs : f \in sandboxes /\ f \notin sandboxes' => op = "destroy" /\ f = e
  BY <1>1, <1>2, EffectShared
<1>4. Mild
  BY <1>1, <1>3 DEF Mild, Pending
<1>5. \A t \in Slots : CallInv(t)'
  BY <1>1, <1>4, WaitingKeeps
<1>6. TypeOK' /\ LateInv'
  BY <1>1, <1>3, WatchTypes DEF SInv, SharedInv, TypeOK, LateInv
<1>7. CrossedInv'
  BY DEF Watch, CrossedInv
<1> QED BY <1>3, <1>5, <1>6, <1>7 DEF SInv, SharedInv

LEMMA RefuseStep ==
  ASSUME SInv, Watch, NEW s \in Slots, Refuse(s)
  PROVE  SInv'
<1> DEFINE c == call[s]
           d == [c EXCEPT !.result = "refused"]
<1>1. /\ c \in Call /\ c.stage = "runtime" /\ configured /\ configured' = configured
      /\ UNCHANGED <<provisioned, sandboxes, late, born>> /\ crossed \subseteq crossed'
  BY CallType DEF SInv, SharedInv, CallInv, Refuse, Watch
<1>2. /\ d \in Call /\ d.stage = "runtime" /\ d.op = c.op /\ d.env = c.env
      /\ d.result = "refused"
  BY <1>1 DEF Call
<1>3. Become(s, d)
  BY DEF Refuse
<1> HIDE DEF d
<1>4. CallInv(s)'
  BY <1>1, <1>2, <1>3, CallBecomes DEF SInv, CallInv
<1> QED BY <1>1, <1>2, <1>3, <1>4, QuietStep

LEMMA SettleStep ==
  ASSUME SInv, Watch, NEW s \in Slots, Settle(s)
  PROVE  SInv'
<1> DEFINE c == call[s]
           a == Verdict(c)
           d == Report(c, a)
<1>1. /\ c \in Call /\ c.stage = "runtime" /\ c.result # "pending" /\ configured' = configured
      /\ UNCHANGED <<provisioned, sandboxes, late, born>> /\ crossed \subseteq crossed'
  BY CallType DEF SInv, SharedInv, Settle, Watch
<1>2. a \in Answers /\ (a = 200 => c.result = "ok" \/ c.op \in {"stop", "destroy"})
  BY DEF Verdict, Answers
<1>3. Become(s, d)
  BY DEF Settle
<1> HIDE DEF a
<1>4. /\ d \in Call /\ d.stage = "report" /\ d.op = c.op /\ d.env = c.env
      /\ d.result = c.result /\ d.answer = a
  BY <1>1, <1>2, ReportIs
<1> HIDE DEF d
<1>5. CallInv(s)'
  BY <1>1, <1>2, <1>3, <1>4, CallBecomes DEF SInv, CallInv
<1> QED BY <1>1, <1>3, <1>4, <1>5, QuietStep

LEMMA DeadlineStep ==
  ASSUME SInv, Watch, NEW s \in Slots, Deadline(s)
  PROVE  SInv'
<1> DEFINE c == call[s]
           d == Report(c, 504)
<1>1. /\ c \in Call /\ c.env \in Envs /\ c.stage = "runtime" /\ configured
      /\ configured' = configured /\ UNCHANGED <<provisioned, sandboxes, born>>
      /\ crossed \subseteq crossed'
  BY CallType DEF SInv, SharedInv, CallInv, Deadline, Watch
<1>2. Become(s, d)
  BY DEF Deadline
<1>3. /\ d \in Call /\ d.stage = "report" /\ d.op = c.op /\ d.env = c.env
      /\ d.result = c.result /\ d.answer = 504
  BY <1>1, ReportIs DEF Answers
<1> HIDE DEF d
<1>4. late' \subseteq late \cup ({<<c.op, c.env>>} \cap (Lasting \X Envs))
  BY DEF Deadline, Abandon
<1>5. Mild
  BY <1>1 DEF Mild
<1>6. CallInv(s)'
  BY <1>1, <1>2, <1>3, CallBecomes DEF SInv, CallInv
<1>7. SharedInv'
  <2>1. TypeOK'
    BY <1>1, <1>2, <1>3, <1>4, WatchTypes DEF SInv, SharedInv, TypeOK, Become
  <2>2. c.op = "destroy" => \A k \in Keys : <<c.env, k>> \in provisioned => c.env \in crossed
    BY <1>1 DEF SInv, CallInv
  <2>3. LateInv'
    BY <1>1, <1>4, <2>2 DEF SInv, SharedInv, LateInv
  <2>4. CacheInv' /\ BornInv'
    BY <1>1 DEF SInv, SharedInv, CacheInv, BornInv
  <2> QED BY <2>1, <2>3, <2>4 DEF SharedInv
<1> QED BY <1>2, <1>3, <1>5, <1>6, <1>7, OneCallSteps

LEMMA AnswerStep ==
  ASSUME SInv, Watch, NEW s \in Slots, Answer(s)
  PROVE  SInv'
<1> DEFINE c == call[s]
           d == Done(c, c.answer)
<1>1. /\ c \in Call /\ c.env \in Envs /\ c.key \in Keys \cup {NoKey} /\ c.stage = "report"
      /\ configured' = configured /\ UNCHANGED <<sandboxes, late, born>>
      /\ crossed \subseteq crossed' /\ c.answer \in Answers
  BY CallType DEF SInv, SharedInv, CallInv, Answer, Watch, Call, Answers
<1>2. Become(s, d)
  BY DEF Answer
<1>3. /\ d \in Call /\ d.stage = "done" /\ d.op = c.op /\ d.env = c.env
      /\ d.result = c.result /\ d.answer = c.answer
  BY <1>1, DoneIs
<1> HIDE DEF d
<1>4. \A e \in Envs, k \in Keys :
        <<e, k>> \in provisioned' /\ <<e, k>> \notin provisioned
          => e = c.env /\ c.op = "provision" /\ c.answer = 200
  BY DEF Answer
<1>5. provisioned' \subseteq Envs \X Keys
  BY <1>1 DEF Answer, SInv, SharedInv, TypeOK
<1>6. c.op = "provision" => Pending("provision", c.env)
  BY <1>1 DEF Pending
<1>7. Mild
  BY <1>1, <1>4, <1>6 DEF Mild
<1>8. c.op = "provision" /\ c.answer = 200 => c.env \in born /\ c.env \in sandboxes \cup crossed
  BY <1>1 DEF SInv, CallInv
<1>9. CallInv(s)'
  BY <1>1, <1>2, <1>3, <1>8, CallBecomes DEF SInv, CallInv
<1>10. SharedInv'
  <2>1. TypeOK'
    BY <1>1, <1>2, <1>3, <1>5, WatchTypes DEF SInv, SharedInv, TypeOK, Become
  <2>2. CacheInv' /\ BornInv'
    BY <1>1, <1>4, <1>8 DEF SInv, SharedInv, CacheInv, BornInv
  <2>3. LateInv'
    <3> SUFFICES ASSUME NEW e \in Envs, <<"destroy", e>> \in late, NEW k \in Keys,
                        <<e, k>> \in provisioned'
                 PROVE  e \in crossed'
      BY <1>1 DEF SInv, SharedInv, LateInv
    <3>1. CASE <<e, k>> \in provisioned
      BY <1>1, <3>1 DEF SInv, SharedInv, LateInv
    <3>2. CASE <<e, k>> \notin provisioned
      <4>1. Pending("provision", e)
        BY <1>4, <1>6, <3>2
      <4>2. Pending("destroy", e)
        BY DEF Pending
      <4> QED BY <1>1, <4>1, <4>2 DEF SInv, CrossedInv, Crossing
    <3> QED BY <3>1, <3>2
  <2> QED BY <2>1, <2>2, <2>3 DEF SharedInv
<1> QED BY <1>2, <1>3, <1>7, <1>9, <1>10, OneCallSteps

LEMMA AuditFailsStep ==
  ASSUME SInv, Watch, NEW s \in Slots, AuditFails(s)
  PROVE  SInv'
<1> DEFINE c == call[s]
           d == Done(c, 500)
<1>1. /\ c \in Call /\ configured' = configured /\ UNCHANGED <<provisioned, sandboxes, late, born>>
  BY CallType DEF SInv, SharedInv, AuditFails, Watch
<1>2. Become(s, d)
  BY DEF AuditFails
<1>3. /\ d \in Call /\ d.stage = "done" /\ d.op = c.op /\ d.env = c.env
      /\ d.result = c.result /\ d.answer = 500
  BY <1>1, DoneIs DEF Answers
<1> HIDE DEF d
<1>4. CallInv(s)'
  BY <1>1, <1>2, <1>3, CallBecomes DEF SInv, CallInv
<1> QED BY <1>1, <1>2, <1>3, <1>4, QuietStep

LEMMA NoCallIs == NoCall \in Call /\ NoCall.stage = "idle" /\ NoCall.op = "start"
<1> DEFINE first == CHOOSE e \in Envs : TRUE
<1> DEFINE n == New("start", first, NoKey, TRUE)
<1>0. first \in Envs
  BY EnvsAssumption
<1> HIDE DEF first
<1>1. n \in Call /\ n.op = "start"
  BY <1>0 DEF New, Call, Ops
<1>2. NoCall = [n EXCEPT !.stage = "idle"]
  BY DEF NoCall, first
<1> HIDE DEF n
<1> QED BY <1>1, <1>2 DEF Call

LEMMA LeaveStep ==
  ASSUME SInv, Watch, NEW s \in Slots, Leave(s)
  PROVE  SInv'
<1>1. Become(s, NoCall) /\ UNCHANGED <<provisioned, sandboxes, late, born>>
  BY DEF Leave
<1>2. CallInv(s)'
  BY <1>1, NoCallIs, CallBecomes DEF CallInv
<1> QED BY <1>1, <1>2, NoCallIs, QuietStep

-----------------------------------------------------------------------------
LEMMA SInitially == Init => SInv
<1> SUFFICES ASSUME Init PROVE SInv
  OBVIOUS
<1>1. \A s \in Slots : call[s] = NoCall
  BY DEF Init
<1>2. SharedInv
  BY NoCallIs DEF Init, SharedInv, TypeOK, CacheInv, LateInv, BornInv
<1>3. CrossedInv
  BY <1>1, NoCallIs DEF Init, CrossedInv, Crossing, Pending
<1>4. \A s \in Slots : CallInv(s)
  BY <1>1, NoCallIs DEF CallInv
<1> QED BY <1>2, <1>3, <1>4 DEF SInv

LEMMA SInductive == SInv /\ [Next]_vars => SInv'
<1> SUFFICES ASSUME SInv, [Next]_vars PROVE SInv'
  OBVIOUS
<1>1. ASSUME Watch, NEW s \in Slots, Steps(s) PROVE SInv'
  BY <1>1, ArriveStep, DescribeStep, ProvisionStep, InvokeStep, StartOrResetStep, TearDownStep,
     ApplyStep, RefuseStep, SettleStep, DeadlineStep, AnswerStep, AuditFailsStep, LeaveStep
     DEF Steps, Continue
<1>2. ASSUME Watch, NEW op \in Lasting, NEW e \in Envs, ApplyLate(op, e) PROVE SInv'
  BY <1>2, ApplyLateStep
<1>3. CASE UNCHANGED vars
  BY <1>3 DEF vars, SInv, SharedInv, TypeOK, CacheInv, LateInv, BornInv, CrossedInv, CallInv,
              Crossing, Pending
<1> QED BY <1>1, <1>2, <1>3 DEF Next

LEMMA SAlways == Spec => []SInv
  BY SInitially, SInductive, PTL DEF Spec

(* The variables of the orchestrator keep their types.                     *)
THEOREM SandboxTypeCorrect == Spec => []TypeOK
<1>1. SInv => TypeOK
  BY DEF SInv, SharedInv
<1> QED BY <1>1, SAlways, PTL

(* AnswersAreEarned: no answer is made up, whatever times out, is refused, *)
(* fails or comes late.                                                    *)
THEOREM AnswersEarned == Spec => []AnswersAreEarned
<1>1. SInv => AnswersAreEarned
  <2> SUFFICES ASSUME SInv PROVE AnswersAreEarned
    OBVIOUS
  <2>1. \A p \in provisioned : p[1] \in born
    BY DEF SInv, SharedInv, TypeOK, CacheInv
  <2>2. ReadyIsEarned
    BY <2>1 DEF SInv, SharedInv, BornInv, CallInv, ReadyIsEarned
  <2>3. TeardownIsHeard
    BY DEF SInv, CallInv, TeardownIsHeard
  <2> QED BY <2>2, <2>3 DEF AnswersAreEarned
<1> QED BY <1>1, SAlways, PTL

(* OnlyCrossingsLeaveStale: a remembered provision without a sandbox is    *)
(* one that overlapped a destroy.                                          *)
THEOREM StaleIsCrossed == Spec => []OnlyCrossingsLeaveStale
<1>1. SInv => OnlyCrossingsLeaveStale
  BY DEF SInv, SharedInv, TypeOK, CacheInv, OnlyCrossingsLeaveStale
<1> QED BY <1>1, SAlways, PTL
=============================================================================
