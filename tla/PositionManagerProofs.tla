----------------------- MODULE PositionManagerProofs -----------------------
(* Proofs about PositionManager, for every value of its constants.          *)
EXTENDS PositionManager, TLAPS

-----------------------------------------------------------------------------
(* Lemmas about the operators on position records.                          *)

LEMMA NoPositionType == NoPosition \in PositionRecord
  BY PositionAssumption DEF NoPosition, NoLevel, PositionRecord, Level, LevelType,
     LevelStatus, PositionState, Direction, Slots

LEMMA MarkType ==
  ASSUME NEW pos \in PositionRecord, NEW S, NEW st \in LevelStatus
  PROVE  /\ Mark(pos, S, st) \in PositionRecord
         /\ \A i \in Slots : Mark(pos, S, st).levels[i].status
                               = IF i \in S THEN st ELSE pos.levels[i].status
<1> DEFINE lv == [i \in Slots |-> IF i \in S THEN [pos.levels[i] EXCEPT !.status = st]
                                            ELSE pos.levels[i]]
<1>1. \A i \in Slots : pos.levels[i] \in Level
  BY DEF PositionRecord
<1>2. \A i \in Slots : [pos.levels[i] EXCEPT !.status = st] \in Level
  BY <1>1 DEF Level
<1>3. lv \in [Slots -> Level]
  BY <1>1, <1>2
<1>4. Mark(pos, S, st) = [pos EXCEPT !.levels = lv]
  BY DEF Mark
<1>5. [pos EXCEPT !.levels = lv] \in PositionRecord
  BY <1>3 DEF PositionRecord
<1>6. \A i \in Slots : lv[i].status = IF i \in S THEN st ELSE pos.levels[i].status
  BY <1>1 DEF Level
<1>7. [pos EXCEPT !.levels = lv].levels = lv
  BY DEF PositionRecord
<1> QED BY <1>4, <1>5, <1>6, <1>7

LEMMA SetTriggerType ==
  ASSUME NEW pos \in PositionRecord, NEW S, NEW price \in Prices \cup {0}
  PROVE  /\ SetTrigger(pos, S, price) \in PositionRecord
         /\ \A i \in Slots : SetTrigger(pos, S, price).levels[i].status
                               = pos.levels[i].status
<1> DEFINE lv == [i \in Slots |-> IF i \in S THEN [pos.levels[i] EXCEPT !.trig = price]
                                            ELSE pos.levels[i]]
<1>1. \A i \in Slots : pos.levels[i] \in Level
  BY DEF PositionRecord
<1>2. \A i \in Slots : [pos.levels[i] EXCEPT !.trig = price] \in Level
  BY <1>1 DEF Level
<1>3. lv \in [Slots -> Level]
  BY <1>1, <1>2
<1>4. SetTrigger(pos, S, price) = [pos EXCEPT !.levels = lv]
  BY DEF SetTrigger
<1>5. [pos EXCEPT !.levels = lv] \in PositionRecord
  BY <1>3 DEF PositionRecord
<1>6. \A i \in Slots : lv[i].status = pos.levels[i].status
  BY <1>1 DEF Level
<1>7. [pos EXCEPT !.levels = lv].levels = lv
  BY DEF PositionRecord
<1> QED BY <1>4, <1>5, <1>6, <1>7

LEMMA AmountType ==
  ASSUME NEW pos \in PositionRecord, NEW l \in Slots
  PROVE  /\ computeAmount(pos, l) \in Nat
         /\ RemainingAfter(pos, l) \in Nat
<1>1. pos.remaining \in Nat /\ pos.levels[l].portion \in Nat
  BY DEF PositionRecord, Level
<1>2. pos.remaining * pos.levels[l].portion \in Nat
  BY <1>1
<1>3. \A n \in Nat : n \div 10000 \in Nat
  OBVIOUS
<1>4. computeAmount(pos, l) \in Nat
  BY <1>2, <1>3 DEF computeAmount, mulBps
<1> QED BY <1>1, <1>4 DEF RemainingAfter

(* Filling a level marks it triggered and leaves the marks of the others.   *)
LEMMA FillType ==
  ASSUME NEW pos \in PositionRecord, NEW l \in Slots
  PROVE  /\ Fill(pos, l) \in PositionRecord
         /\ Fill(pos, l).levels[l].status = "triggered"
         /\ \A i \in Slots : pos.levels[i].status = "triggered"
                               => Fill(pos, l).levels[i].status = "triggered"
<1> DEFINE m1 == Mark(pos, CancelledBy(pos, l), "cancelled")
           m2 == Mark(m1, {l}, "triggered")
           m3 == SetTrigger(m2, SLToMove(m2, l), pos.levels[l].moveSLTo)
<1>1. /\ m1 \in PositionRecord
      /\ \A i \in Slots : pos.levels[i].status = "triggered"
                            => m1.levels[i].status = "triggered"
  <2>1. \A i \in Slots : pos.levels[i].status = "triggered" => i \notin CancelledBy(pos, l)
    BY DEF CancelledBy, ActiveLevels, WithStatus
  <2>2. "cancelled" \in LevelStatus
    BY DEF LevelStatus
  <2> QED BY <2>1, <2>2, MarkType
<1>2. /\ m2 \in PositionRecord
      /\ m2.levels[l].status = "triggered"
      /\ \A i \in Slots : pos.levels[i].status = "triggered"
                            => m2.levels[i].status = "triggered"
  <2>1. "triggered" \in LevelStatus
    BY DEF LevelStatus
  <2> HIDE DEF m1
  <2> QED BY <1>1, <2>1, MarkType
<1>3. pos.levels[l].moveSLTo \in Prices \cup {0}
  BY DEF PositionRecord, Level
<1>4. /\ m3 \in PositionRecord
      /\ \A i \in Slots : m3.levels[i].status = m2.levels[i].status
  <2> HIDE DEF m2
  <2> QED BY <1>2, <1>3, SetTriggerType
<1>5. Fill(pos, l) = [m3 EXCEPT !.remaining = RemainingAfter(pos, l),
                                !.state = StateAfter(pos, l)]
  BY DEF Fill
<1>6. StateAfter(pos, l) \in PositionState
  BY DEF StateAfter, PositionState
<1> HIDE DEF m3, m2
<1>7. /\ Fill(pos, l) \in PositionRecord
      /\ Fill(pos, l).levels = m3.levels
  BY <1>4, <1>5, <1>6, AmountType DEF PositionRecord
<1> QED BY <1>2, <1>4, <1>7

-----------------------------------------------------------------------------
(* Type correctness.                                                        *)

LEMMA BagAddType ==
  ASSUME NEW S, NEW bag \in [S -> Nat], NEW x
  PROVE  [bag EXCEPT ![x] = @ + 1] \in [S -> Nat]
<1>1. CASE x \in S
  BY <1>1
<1>2. CASE x \notin S
  <2>1. [bag EXCEPT ![x] = @ + 1] = bag
    BY <1>2
  <2> QED BY <2>1
<1> QED BY <1>1, <1>2

LEMMA RegisteredType ==
  ASSUME NEW eng \in [Entry -> Nat], NEW e
  PROVE  Registered(eng, e) \in [Entry -> Nat]
  BY BagAddType DEF Registered

LEMMA RegisterType ==
  ASSUME TypeOK, NEW p, NEW l, NEW rec, Register(p, l, rec)
  PROVE  engine' \in [Entry -> Nat]
  BY RegisteredType DEF TypeOK, Register

LEMMA UnregisterType ==
  ASSUME TypeOK, NEW p, NEW l, Unregister(p, l)
  PROVE  engine' \in [Entry -> Nat]
  BY DEF TypeOK, Unregister, Unregistered

LEMMA UpdateTriggerPriceType ==
  ASSUME TypeOK, NEW p, NEW l, NEW rec, UpdateTriggerPrice(p, l, rec)
  PROVE  engine' \in [Entry -> Nat]
<1>1. Unregistered(engine, p, l) \in [Entry -> Nat]
  BY DEF TypeOK, Unregistered
<1> QED BY <1>1, RegisteredType DEF UpdateTriggerPrice

LEMMA NoJobType == NoJob \in Job
  BY PositionAssumption DEF NoJob, JobOn, Job, Slots

BusyType == \A q \in Procs : pc[q] # "idle" => job[q].pos \in Positions

LEMMA JobType ==
  ASSUME NEW op \in OpKinds, NEW p \in Positions
  PROVE  JobOn(op, p) \in Job /\ JobOn(op, p).pos = p
  BY PositionAssumption DEF JobOn, Job, Slots

LEMMA GotoType ==
  ASSUME TypeOK, NEW q, NEW place \in Place, Goto(q, place), pc[q] # "idle",
         UNCHANGED job
  PROVE  /\ pc' \in [Procs -> Place]
         /\ BusyType'
  BY DEF TypeOK, Goto, BusyType

(* A goroutine takes up an event or a call on position p.                   *)
LEMMA StartType ==
  ASSUME TypeOK, NEW q, NEW place \in Place, Goto(q, place),
         NEW new \in Job, new.pos \in Positions, job' = [job EXCEPT ![q] = new]
  PROVE  /\ pc' \in [Procs -> Place]
         /\ job' \in [Procs -> Job]
         /\ BusyType'
  BY DEF TypeOK, Goto, BusyType

LEMMA FinishType ==
  ASSUME TypeOK, NEW q, Finish(q)
  PROVE  /\ pc' \in [Procs -> Place]
         /\ job' \in [Procs -> Job]
         /\ BusyType'
         /\ snap' \in [Procs -> PositionRecord]
         /\ todo' \in [Procs -> SUBSET Slots]
<1>1. pc' \in [Procs -> Place] /\ job' \in [Procs -> Job]
  BY NoJobType DEF TypeOK, Finish, Goto, Place
<1>2. BusyType'
  BY DEF TypeOK, Finish, Goto, BusyType
<1> QED BY <1>1, <1>2, NoPositionType DEF TypeOK, Finish

LEMMA ReturnType ==
  ASSUME TypeOK, NEW w, Return(w)
  PROVE  /\ posLock' \in [Positions -> Workers \cup {None}]
         /\ pc' \in [Procs -> Place]
         /\ job' \in [Procs -> Job]
         /\ BusyType'
         /\ snap' \in [Procs -> PositionRecord]
         /\ todo' \in [Procs -> SUBSET Slots]
  BY FinishType DEF TypeOK, Return

LEMMA RetryLaterType ==
  ASSUME TypeOK, NEW w, RetryLater(w)
  PROVE  /\ posLock' \in [Positions -> Workers \cup {None}]
         /\ pc' \in [Procs -> Place]
         /\ job' \in [Procs -> Job]
         /\ BusyType'
         /\ snap' \in [Procs -> PositionRecord]
         /\ todo' \in [Procs -> SUBSET Slots]
         /\ engine' \in [Entry -> Nat]
  BY ReturnType, RegisterType DEF RetryLater

LEMMA FaultType ==
  ASSUME TypeOK, NEW kind, Fault(kind) \/ NoFault
  PROVE  faults' \in Nat
  BY DEF TypeOK, Fault, NoFault

LEMMA MinedType ==
  ASSUME TypeOK, NEW W \in SUBSET Workers, Mined(W)
  PROVE  /\ swaps' \in [LevelId -> Nat]
         /\ moved' \in [Positions -> Nat]
<1>1. swaps' \in [LevelId -> Nat]
  BY DEF TypeOK, Mined
<1>2. \A w \in Workers : Amount(w) \in Nat
  BY AmountType DEF TypeOK, Amount, Job, Procs
<1> QED BY <1>1, <1>2 DEF TypeOK, Mined

LEMMA OverlapType ==
  ASSUME TypeOK, NEW p \in Positions
  PROVE  /\ \A b : Races(p, b) => raced' \subseteq Positions
         /\ Misses(p) => missed' \subseteq Positions
  BY DEF TypeOK, Races, Misses

LEMMA TypeInit == Init => TypeOK
  BY NoPositionType, NoJobType DEF Init, TypeOK, Nothing, Place, LevelId

(* One lemma per group of actions: the feed, the workers, the callers, Run. *)
LEMMA FeedTypeNext ==
  ASSUME TypeOK,
         (\E price \in Prices : OnPrice(price)) \/ (\E e \in Entry : Dispatch(e))
  PROVE  TypeOK'
<1>1. ASSUME NEW price \in Prices, OnPrice(price)
      PROVE  TypeOK'
  BY <1>1 DEF OnPrice, Fired, Kept, TypeOK, procVars, runVars, historyVars
<1>2. ASSUME NEW e \in Entry, Dispatch(e)
      PROVE  TypeOK'
  <2>1. [pos |-> e.pos, lvl |-> e.lvl, price |-> tick] \in Event
    BY DEF TypeOK, Entry, Event
  <2>2. execCh' \in Seq(Event)
    BY <1>2, <2>1 DEF Dispatch, TypeOK
  <2>3. outbox' \in [Entry -> Nat]
    BY <1>2 DEF Dispatch, TypeOK
  <2>4. tick' \in Prices \cup {0}
    BY <1>2 DEF Dispatch, TypeOK
  <2> QED BY <1>2, <2>2, <2>3, <2>4 DEF Dispatch, TypeOK, procVars, runVars, historyVars
<1> QED BY <1>1, <1>2

LEMMA WorkerTypeNext ==
  ASSUME TypeOK, NEW w \in Workers, WorkerStep(w)
  PROVE  TypeOK'
<1> w \in Procs
  BY DEF Procs
<1> USE DEF feedVars, runVars, historyVars
<1>1. ASSUME TakeEvent(w) PROVE TypeOK'
  <2>1. Head(execCh) \in Event /\ Tail(execCh) \in Seq(Event)
    BY <1>1 DEF TakeEvent, TypeOK
  <2> DEFINE evt == Head(execCh)
             new == [op |-> "exec", pos |-> evt.pos, lvl |-> evt.lvl, price |-> evt.price]
  <2>2. new \in Job /\ new.pos \in Positions
    BY <2>1 DEF Event, Job
  <2>3. /\ job' = [job EXCEPT ![w] = new] /\ Goto(w, "lock")
    BY <1>1 DEF TakeEvent
  <2>4. "lock" \in Place
    BY DEF Place
  <2>5. /\ pc' \in [Procs -> Place] /\ job' \in [Procs -> Job] /\ BusyType'
    <3> HIDE DEF new
    <3> QED BY <2>2, <2>3, <2>4, StartType
  <2> QED BY <1>1, <2>1, <2>5 DEF TakeEvent, TypeOK, BusyType
<1>2. ASSUME LockPosition(w) PROVE TypeOK'
  BY <1>2, GotoType DEF LockPosition, NowIs, TypeOK, Place, BusyType
<1>3. ASSUME Load(w) PROVE TypeOK'
  <2>0. job[w].pos \in Positions
    BY <1>3 DEF Load, NowIs, TypeOK
  <2>3. raced' \subseteq Positions /\ missed' \subseteq Positions
    BY <1>3, <2>0, OverlapType DEF Load, TypeOK
  <2>1. CASE Return(w)
    BY <1>3, <2>1, <2>3, ReturnType, FaultType DEF Load, TypeOK, BusyType
  <2>2. CASE ~Return(w)
    BY <1>3, <2>2, <2>3, GotoType, FaultType DEF Load, NowIs, Place, TypeOK, BusyType
  <2> QED BY <2>1, <2>2
<1>4. ASSUME Allow(w) PROVE TypeOK'
  <2>1. CASE RetryLater(w)
    BY <1>4, <2>1, RetryLaterType, FaultType DEF Allow, TypeOK, BusyType
  <2>2. CASE ~RetryLater(w)
    BY <1>4, <2>2, GotoType, FaultType DEF Allow, NowIs, Place, TypeOK, BusyType
  <2> QED BY <2>1, <2>2
<1>5. ASSUME PermitIsExpired(w) PROVE TypeOK'
  <2>1. ActiveLevels(snap[w]) \subseteq Slots /\ "suspended" \in LevelStatus
    BY DEF ActiveLevels, WithStatus, LevelStatus
  <2>2. Mark(snap[w], ActiveLevels(snap[w]), "suspended") \in PositionRecord
    BY <2>1, MarkType DEF TypeOK
  <2> QED BY <1>5, <2>1, <2>2, GotoType DEF PermitIsExpired, NowIs, Place, TypeOK, BusyType
<1>6. ASSUME PermitIsActivated(w) PROVE TypeOK'
  BY <1>6, GotoType DEF PermitIsActivated, NowIs, Place, TypeOK, BusyType
<1>7. ASSUME ActivatePermit(w) PROVE TypeOK'
  <2>1. CASE RetryLater(w)
    BY <1>7, <2>1, RetryLaterType, FaultType DEF ActivatePermit, TypeOK, BusyType
  <2>2. CASE ~RetryLater(w)
    <3> snap[w] \in PositionRecord
      BY DEF TypeOK
    <3>1. [snap[w] EXCEPT !.activated = TRUE] \in PositionRecord
      BY DEF PositionRecord
    <3>2. snap' = [snap EXCEPT ![w] = [snap[w] EXCEPT !.activated = TRUE]]
      BY <1>7, <2>2 DEF ActivatePermit
    <3>3. snap' \in [Procs -> PositionRecord]
      BY <3>1, <3>2 DEF TypeOK
    <3> QED
      BY <1>7, <2>2, <3>3, GotoType, FaultType
      DEF ActivatePermit, NowIs, Place, TypeOK, BusyType
  <2> QED BY <2>1, <2>2
<1>8. ASSUME SaveActivation(w) PROVE TypeOK'
  BY <1>8, GotoType, FaultType DEF SaveActivation, NowIs, Place, TypeOK, BusyType
<1>9. ASSUME SuspendLevel(w) PROVE TypeOK'
  BY <1>9, UnregisterType DEF SuspendLevel, UnregisterNext, TypeOK
<1>10. ASSUME SaveSuspension(w) PROVE TypeOK'
  <2>1. job[w].pos \in Positions
    BY <1>10 DEF SaveSuspension, NowIs, TypeOK
  <2>2. missed' \subseteq Positions
    BY <1>10, <2>1, OverlapType DEF SaveSuspension, TypeOK
  <2> QED BY <1>10, <2>2, ReturnType, FaultType DEF SaveSuspension, TypeOK, BusyType
<1>11. ASSUME SubmitSwap(w) PROVE TypeOK'
  <2>1. CASE RetryLater(w)
    <3>1. Amount(w) > 0 => LevelOf(w) \in LevelId
      BY <1>11 DEF SubmitSwap, NowIs, LevelOf, LevelId, TypeOK, Job
    <3>2. /\ swaps' \in [LevelId -> Nat] /\ moved' \in [Positions -> Nat]
          /\ reported' \in [LevelId -> Nat] /\ lost' \subseteq LevelId
      BY <1>11, <3>1, MinedType DEF SubmitSwap, TypeOK
    <3> QED
      BY <1>11, <2>1, <3>2, RetryLaterType, FaultType DEF SubmitSwap, TypeOK, BusyType
  <2>2. CASE ~RetryLater(w)
    BY <1>11, <2>2, GotoType, FaultType DEF SubmitSwap, NowIs, Place, TypeOK, BusyType
  <2> QED BY <2>1, <2>2
<1>12. ASSUME SwapMined(w) PROVE TypeOK'
  <2>1. job[w].lvl \in Slots
    BY DEF TypeOK, Job
  <2>2. Fill(snap[w], job[w].lvl) \in PositionRecord
    BY <2>1, FillType DEF TypeOK
  <2>3. CancelledBy(snap[w], job[w].lvl) \subseteq Slots
    BY DEF CancelledBy, ActiveLevels, WithStatus
  <2>4. swaps' \in [LevelId -> Nat] /\ moved' \in [Positions -> Nat]
    BY <1>12, MinedType DEF SwapMined
  <2> QED
    BY <1>12, <2>2, <2>3, <2>4, GotoType DEF SwapMined, NowIs, Place, TypeOK, BusyType
<1>13. ASSUME SwapReverted(w) PROVE TypeOK'
  BY <1>13, RetryLaterType, FaultType DEF SwapReverted, TypeOK, BusyType
<1>14. ASSUME PersistFill(w) PROVE TypeOK'
  <2>1. LevelOf(w) \in LevelId
    BY <1>14 DEF PersistFill, NowIs, LevelOf, LevelId, TypeOK, Job
  <2>2. store' \in [Positions -> PositionRecord] /\ lost' \subseteq LevelId
    BY <1>14, <2>1 DEF PersistFill, TypeOK
  <2>5. missed' \subseteq Positions
    BY <1>14, OverlapType DEF PersistFill, NowIs, TypeOK
  <2>3. CASE Return(w)
    BY <1>14, <2>2, <2>3, <2>5, ReturnType, FaultType DEF PersistFill, TypeOK, BusyType
  <2>4. CASE ~Return(w)
    BY <1>14, <2>2, <2>4, <2>5, GotoType, FaultType DEF PersistFill, NowIs, Place, TypeOK, BusyType
  <2> QED BY <2>3, <2>4
<1>15. ASSUME RetireLevel(w) PROVE TypeOK'
  BY <1>15, UnregisterType DEF RetireLevel, UnregisterNext, TypeOK
<1>16. ASSUME ReportExecution(w) PROVE TypeOK'
  <2>1. engine' \in [Entry -> Nat]
    BY <1>16, UpdateTriggerPriceType DEF ReportExecution, TypeOK
  <2>2. reported' \in [LevelId -> Nat]
    BY <1>16, BagAddType DEF ReportExecution, TypeOK
  <2> QED BY <1>16, <2>1, <2>2, ReturnType DEF ReportExecution, TypeOK, BusyType
<1> QED
  BY <1>1, <1>2, <1>3, <1>4, <1>5, <1>6, <1>7, <1>8, <1>9, <1>10, <1>11, <1>12, <1>13,
     <1>14, <1>15, <1>16 DEF WorkerStep

(* A call begins with a changed copy of the record it read.                 *)
LEMMA BeginType ==
  ASSUME TypeOK, NEW h \in Callers, NEW op \in OpKinds, NEW p \in Positions,
         NEW rec \in PositionRecord, NEW S \in SUBSET Slots, Begin(h, op, p, rec, S)
  PROVE  TypeOK'
<1> DEFINE new == JobOn(op, p)
<1>1. new \in Job /\ new.pos \in Positions
  BY JobType
<1>2. job' = [job EXCEPT ![h] = new] /\ Goto(h, "engine") /\ "engine" \in Place
  BY DEF Begin, Place
<1>3. pc' \in [Procs -> Place] /\ job' \in [Procs -> Job] /\ BusyType'
  <2> HIDE DEF new
  <2> QED BY <1>1, <1>2, StartType
<1>4. ops' \in Nat
  BY DEF Begin, MayCall, TypeOK
<1>5. raced' \subseteq Positions /\ UNCHANGED missed
  BY OverlapType DEF Begin
<1> QED BY <1>3, <1>4, <1>5 DEF Begin, TypeOK, BusyType, feedVars, runVars

LEMMA CallTypeNext ==
  ASSUME TypeOK, NEW h \in Callers, Call(h)
  PROVE  TypeOK'
<1>1. ASSUME NEW p \in Positions, NEW plan \in Plans, SavePosition(h, p, plan)
      PROVE  TypeOK'
  <2> DEFINE new == JobOn("open", p)
  <2>1. new \in Job /\ new.pos \in Positions
    BY JobType DEF OpKinds
  <2>2. job' = [job EXCEPT ![h] = new] /\ Goto(h, "register") /\ "register" \in Place
    BY <1>1 DEF SavePosition, Place
  <2>3. pc' \in [Procs -> Place] /\ job' \in [Procs -> Job] /\ BusyType'
    <3> HIDE DEF new
    <3> QED BY <2>1, <2>2, StartType
  <2>4. ops' \in Nat
    BY <1>1 DEF SavePosition, MayCall, TypeOK
  <2>5. plan \in PositionRecord /\ ActiveLevels(plan) \subseteq Slots
    BY ManagerAssumption DEF ActiveLevels, WithStatus
  <2> QED
    BY <1>1, <2>3, <2>4, <2>5
    DEF SavePosition, TypeOK, BusyType, feedVars, runVars, historyVars
<1>2. \A S \in SUBSET Slots, st \in LevelStatus, p \in Positions :
        Mark(store[p], S, st) \in PositionRecord
  BY MarkType DEF TypeOK
<1>3. \A p \in Positions, st \in LevelStatus : WithStatus(store[p], st) \subseteq Slots
  BY DEF WithStatus
<1>4. {"active", "suspended", "cancelled"} \subseteq LevelStatus
  BY DEF LevelStatus
<1>5. OpKinds = {"open", "cancel", "updateLevel", "addLevel", "removeLevel", "renew", "expire"}
  BY DEF OpKinds
<1>6. ASSUME NEW p \in Positions, CancelPosition(h, p) PROVE TypeOK'
  <2> DEFINE m == Mark(store[p], ActiveLevels(store[p]), "cancelled")
  <2>1. m \in PositionRecord /\ ActiveLevels(store[p]) \subseteq Slots
    BY <1>2, <1>3, <1>4 DEF ActiveLevels
  <2>2. [m EXCEPT !.state = "cancelled"] \in PositionRecord
    <3> HIDE DEF m
    <3> QED BY <2>1 DEF PositionRecord, PositionState
  <2> QED BY <1>5, <1>6, <2>1, <2>2, BeginType DEF CancelPosition
<1>7. ASSUME NEW p \in Positions, NEW l \in Slots, NEW price \in Prices,
             UpdateLevel(h, p, l, price)
      PROVE  TypeOK'
  <2>1. SetTrigger(store[p], {l}, price) \in PositionRecord
    BY SetTriggerType DEF TypeOK
  <2> QED BY <1>5, <1>7, <2>1, BeginType DEF UpdateLevel
<1>8. ASSUME NEW p \in Positions, NEW l \in Slots, NEW lv \in NewLevels, AddLevel(h, p, l, lv)
      PROVE  TypeOK'
  <2>1. store[p] \in PositionRecord /\ lv \in Level
    BY ManagerAssumption DEF TypeOK
  <2>2. [store[p] EXCEPT !.levels[l] = lv] \in PositionRecord
    BY <2>1 DEF PositionRecord
  <2> QED BY <1>5, <1>8, <2>2, BeginType DEF AddLevel
<1>9. ASSUME NEW p \in Positions, NEW l \in Slots, RemoveLevel(h, p, l)
      PROVE  TypeOK'
  BY <1>2, <1>4, <1>5, <1>9, BeginType DEF RemoveLevel
<1>10. ASSUME NEW p \in Positions, NEW deadline \in Deadlines, RenewPermit(h, p, deadline)
       PROVE  TypeOK'
  <2> DEFINE S == WithStatus(store[p], "suspended")
             m == Mark(store[p], S, "active")
             r == [m EXCEPT !.permit = TRUE, !.deadline = deadline, !.activated = FALSE]
  <2>1. m \in PositionRecord /\ S \subseteq Slots /\ deadline \in Nat
    BY <1>2, <1>3, <1>4, ManagerAssumption
  <2>2. r \in PositionRecord
    <3> HIDE DEF m
    <3> QED BY <2>1 DEF PositionRecord
  <2>3. Begin(h, "renew", p, r, S)
    BY <1>10 DEF RenewPermit
  <2> QED
    <3> HIDE DEF r, S
    <3> QED BY <1>5, <2>1, <2>2, <2>3, BeginType
<1>11. ASSUME NEW p \in Positions, SuspendExpired(h, p) PROVE TypeOK'
  BY <1>2, <1>3, <1>4, <1>5, <1>11, BeginType DEF SuspendExpired, ActiveLevels
<1> QED BY <1>1, <1>6, <1>7, <1>8, <1>9, <1>10, <1>11 DEF Call

LEMMA CallerTypeNext ==
  ASSUME TypeOK, NEW h \in Callers, CallerStep(h)
  PROVE  TypeOK'
<1> USE DEF feedVars, runVars, historyVars
<1>1. ASSUME ApplyToEngine(h) PROVE TypeOK'
  <2>1. PICK l \in Slots : EngineCall(h, l) /\ todo' = [todo EXCEPT ![h] = @ \ {l}]
    BY <1>1 DEF ApplyToEngine
  <2>2. engine' \in [Entry -> Nat]
    BY <2>1, RegisterType, UnregisterType, UpdateTriggerPriceType DEF EngineCall
  <2> QED BY <1>1, <2>1, <2>2 DEF ApplyToEngine, TypeOK
<1>2. ASSUME OpenReturns(h) PROVE TypeOK'
  BY <1>2, FinishType DEF OpenReturns, TypeOK, BusyType
<1>3. ASSUME SaveCall(h) PROVE TypeOK'
  <2>1. store' \in [Positions -> PositionRecord] /\ lost' \subseteq LevelId
    BY <1>3 DEF SaveCall, TypeOK, Erased, Procs
  <2>2. missed' \subseteq Positions
    BY <1>3, OverlapType DEF SaveCall, NowIs, TypeOK, Procs
  <2> QED BY <1>3, <2>1, <2>2, FinishType, FaultType DEF SaveCall, TypeOK, BusyType
<1> QED BY <1>1, <1>2, <1>3 DEF CallerStep

LEMMA RunTypeNext ==
  ASSUME TypeOK,
         RunStep \/ AdvanceClock
  PROVE  TypeOK'
<1> USE DEF feedVars, procVars, historyVars
<1>1. CASE ListActive
  BY <1>1, NoPositionType DEF ListActive, TypeOK
<1>2. CASE StartRun
  BY <1>2, NoPositionType DEF StartRun, TypeOK
<1>3. CASE AdvanceClock
  BY <1>3 DEF AdvanceClock, TypeOK
<1>4. ASSUME NEW p \in Positions, NEW l \in Slots, RegisterListed(p, l)
      PROVE  TypeOK'
  <2>1. engine' \in [Entry -> Nat]
    BY <1>4, RegisterType DEF RegisterListed
  <2>2. listed[p] \in PositionRecord /\ "absent" \in LevelStatus
    BY DEF TypeOK, LevelStatus
  <2>3. Mark(listed[p], {l}, "absent") \in PositionRecord
    BY <2>2, MarkType
  <2>4. listed' \in [Positions -> PositionRecord]
    BY <1>4, <2>3 DEF RegisterListed, TypeOK
  <2> QED BY <1>4, <2>1, <2>4 DEF RegisterListed, TypeOK
<1> QED BY <1>1, <1>2, <1>3, <1>4 DEF RunStep

LEMMA CrashTypeNext ==
  ASSUME TypeOK, NEW W \in SUBSET Workers, Crash(W)
  PROVE  TypeOK'
<1>1. \A w \in Workers : pc[w] # "idle" => LevelOf(w) \in LevelId
  BY DEF TypeOK, LevelOf, LevelId, Job, Procs
<1>2. \A w \in W \cup AtPersist : w \in Workers /\ pc[w] # "idle"
  BY DEF Crash, AtReceipt, AtPersist
<1>3. lost' \subseteq LevelId
  BY <1>1, <1>2 DEF Crash, TypeOK
<1>4. swaps' \in [LevelId -> Nat] /\ moved' \in [Positions -> Nat]
  BY MinedType DEF Crash
<1>5. faults' \in Nat
  BY FaultType DEF Crash
<1> QED
  BY <1>3, <1>4, <1>5, NoJobType, NoPositionType DEF Crash, TypeOK, Nothing, Place

LEMMA TypeNext == TypeOK /\ [Next]_vars => TypeOK'
<1> SUFFICES ASSUME TypeOK, [Next]_vars PROVE TypeOK'
  OBVIOUS
<1>1. CASE UNCHANGED vars
  BY <1>1 DEF vars, TypeOK
<1>2. CASE Next
  BY <1>2, FeedTypeNext, WorkerTypeNext, CallTypeNext, CallerTypeNext, RunTypeNext,
     CrashTypeNext DEF Next
<1> QED BY <1>1, <1>2

(* The type invariant holds in every reachable state, whatever the number   *)
(* of positions, workers, callers, levels and failures.                     *)
THEOREM TypeCorrect == Spec => []TypeOK
  BY TypeInit, TypeNext, PTL DEF Spec

-----------------------------------------------------------------------------
(* A level is swapped twice only if the record of its first swap was lost,  *)
(* and the host hears only of recorded swaps.                               *)

(* What an action of worker w leaves alone when all it does to the shared   *)
(* history and the Store is nothing.                                        *)
Unrecorded == UNCHANGED <<store, swaps, reported, lost>>

LEMMA ProcsApart ==
  /\ \A w \in Workers : w \in Procs /\ w # None
  /\ \A h \in Callers : h \in Procs /\ h \notin Workers
  /\ None \notin Procs
  BY ManagerAssumption DEF Procs

LEMMA InitInv == Init => IInv
<1> SUFFICES ASSUME Init PROVE IInv
  OBVIOUS
<1>1. TypeOK
  BY TypeInit
<1>2. LockInv /\ CopyInv
  BY ProcsApart DEF Init, LockInv, CopyInv, Holding, HasCopy, Executing, Filled
<1>3. RecordInv
  BY DEF Init, RecordInv
<1>4. ReportInv
  BY ProcsApart DEF Init, ReportInv, Filled
<1>5. SaneInv
  BY DEF Init, SaneInv, Sane, Triggered, NoPosition, NoLevel
<1> QED BY <1>1, <1>2, <1>3, <1>4, <1>5 DEF IInv

(* Two workers never hold a copy of the same position's record.             *)
LEMMA Exclusive ==
  ASSUME IInv, NEW v \in Workers, NEW w \in Workers,
         pc[v] \in Holding, pc[w] \in Holding, job[v].pos = job[w].pos
  PROVE  v = w
  BY DEF IInv, LockInv

(* A worker that returns takes nothing with it that the invariant needs.    *)
LEMMA ReturnKeeps ==
  ASSUME IInv, NEW w \in Workers, pc[w] \in Holding, Return(w)
  PROVE  /\ LockInv'
         /\ \A q \in Procs : q # w =>
              pc'[q] = pc[q] /\ job'[q] = job[q] /\ snap'[q] = snap[q]
         /\ pc'[w] = "idle"
         /\ \A q \in Procs : Sane(snap'[q])
<1>1. /\ \A q \in Procs : q # w =>
           pc'[q] = pc[q] /\ job'[q] = job[q] /\ snap'[q] = snap[q]
      /\ pc'[w] = "idle" /\ snap'[w] = NoPosition
  BY ProcsApart DEF Return, Finish, Goto, IInv, TypeOK
<1>2. LockInv'
  <2> SUFFICES ASSUME NEW v \in Workers, pc'[v] \in Holding
               PROVE  posLock'[job'[v].pos] = v
    BY DEF LockInv
  <2>1. v # w /\ pc[v] \in Holding /\ job'[v] = job[v]
    BY <1>1, ProcsApart DEF Holding, HasCopy, Executing, Filled
  <2>2. job[v].pos # job[w].pos
    BY <2>1, Exclusive
  <2> QED BY <2>1, <2>2 DEF Return, IInv, LockInv, TypeOK
<1>3. Sane(NoPosition)
  BY DEF Sane, Triggered, NoPosition, NoLevel
<1> QED BY <1>1, <1>2, <1>3 DEF IInv, SaneInv

(* ... if it changed neither the Store nor the history.                     *)
LEMMA ReturnUnrecorded ==
  ASSUME IInv, NEW w \in Workers, pc[w] \in Holding \ {"persist"}, Return(w), Unrecorded,
         TypeOK'
  PROVE  IInv'
<1>1. CopyInv'
  BY ReturnKeeps, ProcsApart
  DEF CopyInv, IInv, Unrecorded, HasCopy, Executing, Filled
<1>2. RecordInv'
  <2> SUFFICES ASSUME NEW k \in LevelId \ lost, swaps[k] > 0,
                      NEW v \in Workers, pc[v] = "persist", LevelOf(v) = k
               PROVE  pc'[v] = "persist" /\ LevelOf(v)' = k
    BY DEF RecordInv, IInv, Unrecorded
  <2> QED BY ReturnKeeps, ProcsApart DEF LevelOf
<1>3. ReportInv'
  BY ReturnKeeps, ProcsApart DEF ReportInv, IInv, Unrecorded, Filled, LevelOf
<1> QED BY <1>1, <1>2, <1>3, ReturnKeeps DEF IInv, SaneInv, Unrecorded

(* A worker that moves on with the same copy, or a copy no worse.           *)
LEMMA MoveUnrecorded ==
  ASSUME IInv, NEW w \in Workers, pc[w] \in HasCopy \ Filled, NEW place \in HasCopy \ Filled,
         Goto(w, place), UNCHANGED <<posLock, job>>, Unrecorded, TypeOK',
         place \in Executing => snap'[w].levels[job[w].lvl].status = "active",
         \A l \in Slots : Triggered(snap[w], l) => Triggered(snap'[w], l),
         \A q \in Procs \ {w} : snap'[q] = snap[q],
         Sane(snap'[w])
  PROVE  IInv'
<1>1. \A q \in Procs : pc'[q] = IF q = w THEN place ELSE pc[q]
  BY DEF Goto, IInv, TypeOK
<1>2. LockInv'
  BY <1>1, ProcsApart DEF LockInv, IInv, Holding
<1>3. CopyInv'
  <2> SUFFICES ASSUME NEW v \in Workers, pc'[v] \in HasCopy
               PROVE  /\ pc'[v] \in Executing =>
                           snap'[v].levels[job[v].lvl].status = "active"
                      /\ pc'[v] \in Filled => Triggered(snap'[v], job[v].lvl)
                      /\ \A l \in Slots :
                           (<<job[v].pos, l>> \notin lost /\ swaps[<<job[v].pos, l>>] > 0)
                              => Triggered(snap'[v], l)
    BY DEF CopyInv, Unrecorded
  <2>1. CASE v = w
    BY <1>1, <2>1, ProcsApart DEF IInv, CopyInv
  <2>2. CASE v # w
    BY <1>1, <2>2, ProcsApart DEF IInv, CopyInv
  <2> QED BY <2>1, <2>2
<1>4. RecordInv'
  BY <1>1, ProcsApart DEF RecordInv, IInv, Unrecorded, LevelOf, Filled
<1>5. ReportInv'
  BY <1>1, ProcsApart DEF ReportInv, IInv, Unrecorded, LevelOf, Filled
<1>6. SaneInv'
  BY DEF SaneInv, IInv, Unrecorded
<1> QED BY <1>2, <1>3, <1>4, <1>5, <1>6 DEF IInv

(* Steps that touch none of the variables the invariant speaks of.          *)
LEMMA ElsewhereKeeps ==
  ASSUME IInv, TypeOK', Unrecorded, UNCHANGED <<posLock, pc, job, snap>>
  PROVE  IInv'
  BY DEF IInv, LockInv, CopyInv, RecordInv, ReportInv, SaneInv, Unrecorded, LevelOf

(* A write to the Store that keeps every mark "triggered" it does not count *)
(* as lost.                                                                 *)
LEMMA WriteKeeps ==
  ASSUME IInv, NEW p \in Positions, NEW rec \in PositionRecord, Sane(rec),
         store' = [store EXCEPT ![p] = rec],
         lost \subseteq lost', UNCHANGED <<swaps, reported>>,
         \A l \in Slots :
            (<<p, l>> \notin lost' /\ swaps[<<p, l>>] > 0 /\ Triggered(store[p], l))
               => Triggered(rec, l)
  PROVE  /\ \A k \in LevelId \ lost' :
              swaps[k] > 0 /\ Triggered(store[k[1]], k[2]) => Triggered(store'[k[1]], k[2])
         /\ \A k \in LevelId :
              reported[k] > 0 => Triggered(store'[k[1]], k[2]) \/ k \in lost'
         /\ \A w \in Workers : pc[w] = "retire" =>
              Triggered(store'[job[w].pos], job[w].lvl) \/ LevelOf(w) \in lost'
         /\ \A q \in Positions : Sane(store'[q])
<1>1. \A k \in LevelId : /\ k[1] \in Positions /\ k[2] \in Slots /\ k = <<k[1], k[2]>>
                         /\ store'[k[1]] = IF k[1] = p THEN rec ELSE store[k[1]]
  BY DEF LevelId, IInv, TypeOK
<1>2. \A k \in LevelId \ lost' :
         swaps[k] > 0 /\ Triggered(store[k[1]], k[2]) => Triggered(store'[k[1]], k[2])
  BY <1>1
<1>3. \A k \in LevelId : reported[k] > 0 => swaps[k] > 0
  BY DEF IInv, ReportInv, TypeOK
<1>4. \A k \in LevelId : reported[k] > 0 => Triggered(store'[k[1]], k[2]) \/ k \in lost'
  BY <1>2, <1>3 DEF IInv, ReportInv
<1>5. ASSUME NEW w \in Workers, pc[w] = "retire"
      PROVE  Triggered(store'[job[w].pos], job[w].lvl) \/ LevelOf(w) \in lost'
  <2>1. /\ LevelOf(w) \in LevelId
        /\ LevelOf(w)[1] = job[w].pos /\ LevelOf(w)[2] = job[w].lvl
    BY <1>5, ProcsApart DEF LevelOf, LevelId, IInv, TypeOK, Job
  <2>2. swaps[LevelOf(w)] > 0
    BY <1>5, <2>1 DEF IInv, ReportInv, TypeOK, Filled
  <2> QED BY <1>2, <1>5, <2>1, <2>2 DEF IInv, ReportInv
<1>6. \A q \in Positions : Sane(store'[q])
  BY DEF IInv, SaneInv, TypeOK
<1> QED BY <1>2, <1>4, <1>5, <1>6

-----------------------------------------------------------------------------
(* The actions of a worker.                                                 *)

LEMMA TakeEventInv ==
  ASSUME IInv, TypeOK', NEW w \in Workers, TakeEvent(w)
  PROVE  IInv'
<1>1. /\ \A q \in Procs : q # w => pc'[q] = pc[q] /\ job'[q] = job[q]
      /\ pc'[w] = "lock" /\ pc[w] = "idle"
      /\ UNCHANGED <<posLock, snap>> /\ Unrecorded
  BY ProcsApart DEF TakeEvent, Goto, NowIs, IInv, TypeOK, Unrecorded, historyVars
<1>2. LockInv'
  BY <1>1, ProcsApart DEF LockInv, IInv, Holding, HasCopy, Executing, Filled
<1>3. CopyInv'
  BY <1>1, ProcsApart DEF CopyInv, IInv, HasCopy, Executing, Filled, Unrecorded
<1>4. RecordInv'
  BY <1>1, ProcsApart DEF RecordInv, IInv, Unrecorded, LevelOf
<1>5. ReportInv'
  BY <1>1, ProcsApart DEF ReportInv, IInv, Unrecorded, LevelOf, Filled
<1>6. SaneInv'
  BY <1>1 DEF SaneInv, IInv, Unrecorded
<1> QED BY <1>2, <1>3, <1>4, <1>5, <1>6 DEF IInv

LEMMA LockPositionInv ==
  ASSUME IInv, TypeOK', NEW w \in Workers, LockPosition(w)
  PROVE  IInv'
<1>1. /\ \A q \in Procs : pc'[q] = IF q = w THEN "load" ELSE pc[q]
      /\ pc[w] = "lock"
      /\ UNCHANGED <<job, snap>> /\ Unrecorded
  BY DEF LockPosition, Goto, NowIs, IInv, TypeOK, Unrecorded, historyVars
<1>2. LockInv'
  <2> SUFFICES ASSUME NEW v \in Workers, pc'[v] \in Holding
               PROVE  posLock'[job[v].pos] = v
    BY <1>1 DEF LockInv
  <2>1. job[w].pos \in Positions
    BY <1>1, ProcsApart DEF IInv, TypeOK
  <2>2. CASE v = w
    BY <2>1, <2>2 DEF LockPosition, IInv, TypeOK
  <2>3. CASE v # w
    <3>1. posLock[job[v].pos] = v
      BY <1>1, <2>3, ProcsApart DEF IInv, LockInv
    <3>2. job[v].pos # job[w].pos
      BY <3>1, ProcsApart DEF LockPosition
    <3> QED BY <3>1, <3>2 DEF LockPosition, IInv, TypeOK
  <2> QED BY <2>2, <2>3
<1>3. CopyInv'
  BY <1>1, ProcsApart DEF CopyInv, IInv, HasCopy, Executing, Filled, Unrecorded
<1>4. RecordInv'
  BY <1>1, ProcsApart DEF RecordInv, IInv, Unrecorded, LevelOf
<1>5. ReportInv'
  BY <1>1, ProcsApart DEF ReportInv, IInv, Unrecorded, LevelOf, Filled
<1>6. SaneInv'
  BY <1>1 DEF SaneInv, IInv, Unrecorded
<1> QED BY <1>2, <1>3, <1>4, <1>5, <1>6 DEF IInv

(* What a worker reads under the lock has every recorded swap: a swap still *)
(* to be persisted would be another holder's.                               *)
LEMMA LoadInv ==
  ASSUME IInv, TypeOK', NEW w \in Workers, Load(w)
  PROVE  IInv'
<1>1. pc[w] = "load" /\ Unrecorded
  BY DEF Load, NowIs, Unrecorded, historyVars
<1>2. CASE Return(w)
  BY <1>1, <1>2, ReturnUnrecorded DEF Holding
<1>3. CASE ~Return(w)
  <2> DEFINE rec == store[job[w].pos]
  <2>1. /\ CanExecute(rec, job[w].lvl)
        /\ snap' = [snap EXCEPT ![w] = rec]
        /\ Goto(w, "allow")
        /\ UNCHANGED <<posLock, job>>
    BY <1>3 DEF Load
  <2>2. /\ \A q \in Procs : pc'[q] = IF q = w THEN "allow" ELSE pc[q]
        /\ \A q \in Procs : snap'[q] = IF q = w THEN rec ELSE snap[q]
        /\ job[w].pos \in Positions /\ job[w].lvl \in Slots
    BY <1>1, <2>1, ProcsApart DEF Goto, IInv, TypeOK, Job
  <2>3. LockInv'
    BY <1>1, <2>1, <2>2, ProcsApart DEF LockInv, IInv, Holding, HasCopy
  <2>4. ASSUME NEW l \in Slots, <<job[w].pos, l>> \notin lost, swaps[<<job[w].pos, l>>] > 0
        PROVE  Triggered(rec, l)
    <3> DEFINE k == <<job[w].pos, l>>
    <3>1. k \in LevelId \ lost /\ k[1] = job[w].pos /\ k[2] = l
      BY <2>2, <2>4 DEF LevelId
    <3>2. CASE Triggered(store[k[1]], k[2])
      BY <3>1, <3>2
    <3>3. ASSUME NEW v \in Workers, pc[v] = "persist", LevelOf(v) = k
          PROVE  FALSE
      <4>1. job[v].pos = job[w].pos
        BY <3>3 DEF LevelOf
      <4> QED BY <1>1, <3>3, <4>1, Exclusive DEF Holding, HasCopy, Filled
    <3> QED BY <2>4, <3>1, <3>2, <3>3 DEF IInv, RecordInv
  <2>5. CopyInv'
    <3> SUFFICES ASSUME NEW v \in Workers, pc'[v] \in HasCopy
                 PROVE  /\ pc'[v] \in Executing =>
                             snap'[v].levels[job[v].lvl].status = "active"
                        /\ pc'[v] \in Filled => Triggered(snap'[v], job[v].lvl)
                        /\ \A l \in Slots :
                             (<<job[v].pos, l>> \notin lost /\ swaps[<<job[v].pos, l>>] > 0)
                                => Triggered(snap'[v], l)
      BY <1>1, <2>1 DEF CopyInv, Unrecorded
    <3>1. CASE v = w
      BY <2>1, <2>2, <2>4, <3>1, ProcsApart DEF CanExecute, Filled
    <3>2. CASE v # w
      BY <2>2, <3>2, ProcsApart DEF IInv, CopyInv
    <3> QED BY <3>1, <3>2
  <2>6. RecordInv'
    BY <1>1, <2>1, <2>2, ProcsApart DEF RecordInv, IInv, Unrecorded, LevelOf
  <2>7. ReportInv'
    BY <1>1, <2>1, <2>2, ProcsApart DEF ReportInv, IInv, Unrecorded, LevelOf, Filled
  <2>8. SaneInv'
    BY <1>1, <2>2 DEF SaneInv, IInv, Unrecorded
  <2> QED BY <2>3, <2>5, <2>6, <2>7, <2>8 DEF IInv
<1> QED BY <1>2, <1>3

LEMMA AllowInv ==
  ASSUME IInv, TypeOK', NEW w \in Workers, Allow(w)
  PROVE  IInv'
<1>1. pc[w] = "allow" /\ Unrecorded
  BY DEF Allow, NowIs, Unrecorded, historyVars
<1>2. CASE Return(w)
  BY <1>1, <1>2, ReturnUnrecorded DEF Holding, HasCopy, Executing
<1>3. CASE ~Return(w)
  <2>1. PICK place \in {"permit", "submit"} : Goto(w, place)
    BY <1>3 DEF Allow, RetryLater
  <2>2. UNCHANGED <<posLock, job, snap>>
    BY <1>3 DEF Allow, RetryLater
  <2>3. snap[w].levels[job[w].lvl].status = "active" /\ Sane(snap[w])
    BY <1>1, ProcsApart DEF IInv, CopyInv, SaneInv, HasCopy, Executing
  <2> QED
    BY <1>1, <2>1, <2>2, <2>3, MoveUnrecorded DEF HasCopy, Executing, Filled
<1> QED BY <1>2, <1>3

LEMMA PermitInv ==
  ASSUME IInv, TypeOK', NEW w \in Workers,
         PermitIsExpired(w) \/ PermitIsActivated(w) \/ ActivatePermit(w)
  PROVE  IInv'
<1>1. pc[w] = "permit" /\ Unrecorded
  BY DEF PermitIsExpired, PermitIsActivated, ActivatePermit, NowIs, Unrecorded, historyVars
<1>2. /\ snap[w] \in PositionRecord /\ job[w].lvl \in Slots
      /\ snap[w].levels[job[w].lvl].status = "active" /\ Sane(snap[w])
  BY <1>1, ProcsApart DEF IInv, CopyInv, SaneInv, HasCopy, Executing, TypeOK, Job
<1>3. CASE PermitIsExpired(w)
  <2> DEFINE m == Mark(snap[w], ActiveLevels(snap[w]), "suspended")
  <2>1. "suspended" \in LevelStatus
    BY DEF LevelStatus
  <2>2. \A i \in Slots : Triggered(m, i) <=> Triggered(snap[w], i)
    BY <1>2, <2>1, MarkType DEF Triggered, ActiveLevels, WithStatus
  <2>3. m.state = snap[w].state
    BY <1>2 DEF Mark, PositionRecord
  <2>4. Sane(m)
    BY <1>2, <2>2, <2>3 DEF Sane
  <2>5. /\ snap' = [snap EXCEPT ![w] = m]
        /\ Goto(w, "suspend")
        /\ UNCHANGED <<posLock, job>>
    BY <1>3 DEF PermitIsExpired
  <2>6. \A q \in Procs : snap'[q] = IF q = w THEN m ELSE snap[q]
    BY <2>5 DEF IInv, TypeOK
  <2> HIDE DEF m
  <2> QED
    BY <1>1, <2>2, <2>4, <2>5, <2>6, ProcsApart, MoveUnrecorded DEF HasCopy, Executing, Filled
<1>4. CASE PermitIsActivated(w)
  BY <1>1, <1>2, <1>4, MoveUnrecorded
  DEF PermitIsActivated, HasCopy, Executing, Filled
<1>5. CASE ActivatePermit(w)
  <2>1. CASE Return(w)
    BY <1>1, <2>1, ReturnUnrecorded DEF Holding, HasCopy, Executing
  <2>2. CASE ~Return(w)
    <3> DEFINE m == [snap[w] EXCEPT !.activated = TRUE]
    <3>1. /\ snap' = [snap EXCEPT ![w] = m]
          /\ Goto(w, "saveActivation")
          /\ UNCHANGED <<posLock, job>>
      BY <1>5, <2>2 DEF ActivatePermit, RetryLater
    <3>2. m.levels = snap[w].levels /\ m.state = snap[w].state
      BY <1>2 DEF PositionRecord
    <3>3. Sane(m) /\ \A l \in Slots : Triggered(m, l) <=> Triggered(snap[w], l)
      BY <1>2, <3>2 DEF Sane, Triggered
    <3>4. \A q \in Procs : snap'[q] = IF q = w THEN m ELSE snap[q]
      BY <3>1 DEF IInv, TypeOK
    <3> HIDE DEF m
    <3> QED
      BY <1>1, <1>2, <3>1, <3>2, <3>3, <3>4, ProcsApart, MoveUnrecorded
      DEF HasCopy, Executing, Filled
  <2> QED BY <2>1, <2>2
<1> QED BY <1>3, <1>4, <1>5

(* A worker that writes its copy does not erase a recorded swap.            *)
LEMMA CopyKeeps ==
  ASSUME IInv, NEW w \in Workers, pc[w] \in HasCopy,
         store' = [store EXCEPT ![job[w].pos] = snap[w]],
         UNCHANGED <<swaps, reported, lost>>
  PROVE  /\ \A k \in LevelId \ lost :
              swaps[k] > 0 /\ Triggered(store[k[1]], k[2]) => Triggered(store'[k[1]], k[2])
         /\ \A k \in LevelId :
              reported[k] > 0 => Triggered(store'[k[1]], k[2]) \/ k \in lost
         /\ \A v \in Workers : pc[v] = "retire" =>
              Triggered(store'[job[v].pos], job[v].lvl) \/ LevelOf(v) \in lost
         /\ \A q \in Positions : Sane(store'[q])
<1>1. /\ job[w].pos \in Positions /\ snap[w] \in PositionRecord /\ Sane(snap[w])
  BY ProcsApart DEF IInv, TypeOK, SaneInv, HasCopy, Executing, Filled
<1>2. \A l \in Slots :
        (<<job[w].pos, l>> \notin lost /\ swaps[<<job[w].pos, l>>] > 0) => Triggered(snap[w], l)
  BY DEF IInv, CopyInv
<1> QED BY <1>1, <1>2, WriteKeeps

LEMMA SaveActivationInv ==
  ASSUME IInv, TypeOK', NEW w \in Workers, SaveActivation(w)
  PROVE  IInv'
<1>1. /\ pc[w] = "saveActivation" /\ Goto(w, "submit")
      /\ UNCHANGED <<posLock, job, snap, swaps, reported, lost>>
  BY DEF SaveActivation, NowIs, historyVars
<1>2. CASE UNCHANGED store
  <2>1. snap[w].levels[job[w].lvl].status = "active" /\ Sane(snap[w])
    BY <1>1, ProcsApart DEF IInv, CopyInv, SaneInv, HasCopy, Executing
  <2> QED
    BY <1>1, <1>2, <2>1, MoveUnrecorded DEF HasCopy, Executing, Filled, Unrecorded
<1>3. CASE store' = [store EXCEPT ![job[w].pos] = snap[w]]
  <2>1. pc[w] \in HasCopy
    BY <1>1 DEF HasCopy, Executing
  <2>2. \A q \in Procs : pc'[q] = IF q = w THEN "submit" ELSE pc[q]
    BY <1>1 DEF Goto, IInv, TypeOK
  <2>3. LockInv' /\ CopyInv'
    BY <1>1, <2>2, ProcsApart DEF LockInv, CopyInv, IInv, Holding, HasCopy, Executing, Filled
  <2>4. RecordInv'
    BY <1>1, <1>3, <2>1, <2>2, CopyKeeps, ProcsApart DEF RecordInv, IInv, LevelOf
  <2>5. ReportInv'
    BY <1>1, <1>3, <2>1, <2>2, CopyKeeps, ProcsApart DEF ReportInv, IInv, LevelOf, Filled
  <2>6. SaneInv'
    BY <1>1, <1>3, <2>1, CopyKeeps DEF SaneInv, IInv
  <2> QED BY <2>3, <2>4, <2>5, <2>6 DEF IInv
<1> QED BY <1>2, <1>3 DEF SaveActivation

LEMMA SaveSuspensionInv ==
  ASSUME IInv, TypeOK', NEW w \in Workers, SaveSuspension(w)
  PROVE  IInv'
<1>1. /\ pc[w] = "suspend" /\ Return(w)
      /\ UNCHANGED <<swaps, reported, lost>>
  BY DEF SaveSuspension, NowIs, historyVars
<1>2. CASE UNCHANGED store
  BY <1>1, <1>2, ReturnUnrecorded DEF Holding, HasCopy, Unrecorded
<1>3. CASE store' = [store EXCEPT ![job[w].pos] = snap[w]]
  <2>1. pc[w] \in HasCopy /\ pc[w] \in Holding /\ pc[w] \notin Filled
    BY <1>1 DEF Holding, HasCopy, Filled
  <2>2. CopyInv'
    BY <1>1, <2>1, ReturnKeeps, ProcsApart DEF CopyInv, IInv, HasCopy, Executing, Filled
  <2>3. RecordInv'
    <3>1. \A v \in Workers : pc[v] = "persist" => pc'[v] = "persist" /\ LevelOf(v)' = LevelOf(v)
      BY <1>1, <2>1, ReturnKeeps, ProcsApart DEF LevelOf
    <3> QED BY <1>1, <1>3, <2>1, <3>1, CopyKeeps DEF RecordInv, IInv
  <2>4. ReportInv'
    <3>1. \A v \in Workers : pc'[v] \in Filled =>
             v # w /\ pc'[v] = pc[v] /\ job'[v] = job[v]
      BY <1>1, <2>1, ReturnKeeps, ProcsApart DEF Filled
    <3>2. \A v \in Workers : pc'[v] = "retire" => pc'[v] \in Filled
      BY DEF Filled
    <3> QED
      BY <1>1, <1>3, <2>1, <3>1, <3>2, CopyKeeps DEF ReportInv, IInv, LevelOf
  <2>5. SaneInv'
    BY <1>1, <1>3, <2>1, CopyKeeps, ReturnKeeps DEF SaneInv, IInv
  <2> QED BY <1>1, <2>1, <2>2, <2>3, <2>4, <2>5, ReturnKeeps DEF IInv
<1> QED BY <1>2, <1>3 DEF SaveSuspension

(* A swap that nobody will learn of, made when its worker returns.          *)
LEMMA MinedUnnoticed ==
  ASSUME IInv, TypeOK', NEW w \in Workers, pc[w] = "submit", Return(w), Mined({w}),
         UNCHANGED <<store, reported>>, lost' = lost \cup {LevelOf(w)}
  PROVE  IInv'
<1>1. \A k \in LevelId :
        swaps'[k] = IF k = LevelOf(w) THEN swaps[k] + 1 ELSE swaps[k]
  BY DEF Mined
<1>2. pc[w] \in Holding /\ pc[w] \notin Filled
  BY DEF Holding, HasCopy, Executing, Filled
<1>3. \A v \in Workers : pc'[v] # "idle" =>
        v # w /\ pc'[v] = pc[v] /\ job'[v] = job[v] /\ snap'[v] = snap[v]
             /\ LevelOf(v)' = LevelOf(v)
  BY <1>2, ReturnKeeps, ProcsApart DEF LevelOf
<1>4. CopyInv'
  <2> SUFFICES ASSUME NEW v \in Workers, pc[v] \in HasCopy, pc'[v] = pc[v],
                      NEW l \in Slots,
                      <<job[v].pos, l>> \notin lost', swaps'[<<job[v].pos, l>>] > 0
               PROVE  Triggered(snap[v], l)
    BY <1>3 DEF CopyInv, IInv, HasCopy, Executing, Filled
  <2>1. job[v].pos \in Positions
    BY ProcsApart DEF IInv, TypeOK, HasCopy, Executing, Filled
  <2>2. swaps[<<job[v].pos, l>>] > 0
    BY <1>1, <2>1 DEF LevelId
  <2> QED BY <2>2 DEF IInv, CopyInv
<1>5. RecordInv'
  <2> SUFFICES ASSUME NEW k \in LevelId \ lost'
               PROVE  /\ swaps'[k] <= 1
                      /\ swaps'[k] > 0 =>
                           \/ Triggered(store[k[1]], k[2])
                           \/ \E v \in Workers : pc'[v] = "persist" /\ LevelOf(v)' = k
    BY DEF RecordInv
  <2>1. k \notin lost /\ swaps'[k] = swaps[k]
    BY <1>1
  <2>2. \A v \in Workers : pc[v] = "persist" => pc'[v] = "persist" /\ LevelOf(v)' = LevelOf(v)
    BY <1>2, ReturnKeeps, ProcsApart DEF LevelOf
  <2> QED BY <2>1, <2>2 DEF IInv, RecordInv
<1>6. \A k \in LevelId : /\ swaps[k] \in Nat /\ swaps'[k] \in Nat /\ reported[k] \in Nat
                         /\ swaps[k] <= swaps'[k]
  <2>1. TAKE k \in LevelId
  <2>2. swaps[k] \in Nat /\ swaps'[k] \in Nat /\ reported[k] \in Nat
    BY DEF IInv, TypeOK
  <2> QED BY <1>1, <2>2
<1>7. ReportInv'
  <2>1. \A k \in LevelId : reported[k] <= swaps'[k]
    BY <1>6 DEF IInv, ReportInv
  <2>2. ASSUME NEW v \in Workers, pc'[v] \in Filled
        PROVE  /\ reported[LevelOf(v)] < swaps'[LevelOf(v)]
               /\ pc[v] = "retire" =>
                    Triggered(store[job[v].pos], job[v].lvl) \/ LevelOf(v) \in lost
    <3>1. pc[v] \in Filled /\ LevelOf(v) \in LevelId
      BY <1>3, <2>2, ProcsApart DEF Filled, IInv, TypeOK, LevelOf, LevelId, Job
    <3>2. reported[LevelOf(v)] < swaps[LevelOf(v)]
      BY <3>1 DEF IInv, ReportInv
    <3> QED BY <1>6, <3>1, <3>2 DEF IInv, ReportInv
  <2>3. \A v \in Workers : pc'[v] \in Filled => pc'[v] # "idle"
    BY DEF Filled
  <2>4. \A v \in Workers : pc'[v] = "retire" => pc'[v] \in Filled
    BY DEF Filled
  <2> QED BY <1>3, <2>1, <2>2, <2>3, <2>4 DEF ReportInv, IInv
<1> QED BY <1>2, <1>4, <1>5, <1>7, ReturnKeeps DEF IInv, SaneInv

LEMMA SubmitSwapInv ==
  ASSUME IInv, TypeOK', NEW w \in Workers, SubmitSwap(w)
  PROVE  IInv'
<1>1. pc[w] = "submit" /\ UNCHANGED store
  BY DEF SubmitSwap, NowIs
<1>2. CASE UNCHANGED historyVars /\ RetryLater(w)
  BY <1>1, <1>2, ReturnUnrecorded
  DEF RetryLater, Holding, HasCopy, Executing, Unrecorded, historyVars
<1>3. CASE /\ RetryLater(w) /\ Mined({w})
           /\ lost' = lost \cup {LevelOf(w)} /\ UNCHANGED reported
  BY <1>1, <1>3, MinedUnnoticed DEF RetryLater
<1>4. CASE Goto(w, "receipt") /\ UNCHANGED <<engine, posLock, job, snap, todo, historyVars>>
  <2>1. snap[w].levels[job[w].lvl].status = "active" /\ Sane(snap[w])
    BY <1>1, ProcsApart DEF IInv, CopyInv, SaneInv, HasCopy, Executing
  <2> QED
    BY <1>1, <1>4, <2>1, MoveUnrecorded
    DEF HasCopy, Executing, Filled, Unrecorded, historyVars
<1> QED BY <1>2, <1>3, <1>4 DEF SubmitSwap

LEMMA SwapRevertedInv ==
  ASSUME IInv, TypeOK', NEW w \in Workers, SwapReverted(w)
  PROVE  IInv'
<1>1. pc[w] = "receipt" /\ Unrecorded /\ Return(w)
  BY DEF SwapReverted, NowIs, Unrecorded, historyVars, RetryLater
<1> QED BY <1>1, ReturnUnrecorded DEF Holding, HasCopy, Executing

(* The level was not swapped before, or its record is already lost: the     *)
(* copy shows it active.                                                    *)
LEMMA SwapMinedInv ==
  ASSUME IInv, TypeOK', NEW w \in Workers, SwapMined(w)
  PROVE  IInv'
<1> DEFINE me == LevelOf(w)
           filled == Fill(snap[w], job[w].lvl)
<1>1. /\ pc[w] = "receipt"
      /\ snap' = [snap EXCEPT ![w] = filled]
      /\ Goto(w, "persist")
      /\ UNCHANGED <<store, posLock, job, reported, lost>>
      /\ \A k \in LevelId : swaps'[k] = IF k = me THEN swaps[k] + 1 ELSE swaps[k]
  BY DEF SwapMined, NowIs, Mined
<1>2. /\ \A q \in Procs : pc'[q] = IF q = w THEN "persist" ELSE pc[q]
      /\ \A q \in Procs : snap'[q] = IF q = w THEN filled ELSE snap[q]
      /\ job[w].pos \in Positions /\ job[w].lvl \in Slots
      /\ snap[w] \in PositionRecord
  BY <1>1, ProcsApart DEF Goto, IInv, TypeOK, Job
<1>3. /\ Triggered(filled, job[w].lvl)
      /\ \A l \in Slots : Triggered(snap[w], l) => Triggered(filled, l)
      /\ filled.state # "none"
  <2>1. filled.state \in {"closed", "partial"}
    <3>1. SetTrigger(Mark(Mark(snap[w], CancelledBy(snap[w], job[w].lvl), "cancelled"),
                          {job[w].lvl}, "triggered"),
                     SLToMove(Mark(Mark(snap[w], CancelledBy(snap[w], job[w].lvl),
                                        "cancelled"), {job[w].lvl}, "triggered"),
                              job[w].lvl),
                     snap[w].levels[job[w].lvl].moveSLTo) \in PositionRecord
      <4>1. {"cancelled", "triggered"} \subseteq LevelStatus
        BY DEF LevelStatus
      <4>2. snap[w].levels[job[w].lvl].moveSLTo \in Prices \cup {0}
        BY <1>2 DEF PositionRecord, Level
      <4> QED BY <1>2, <4>1, <4>2, MarkType, SetTriggerType
    <3> QED BY <3>1 DEF Fill, StateAfter, PositionRecord
  <2> QED BY <1>2, <2>1, FillType DEF Triggered
<1>4. me \in LevelId /\ me[1] = job[w].pos /\ me[2] = job[w].lvl
  BY <1>2 DEF LevelOf, LevelId
<1>5. snap[w].levels[job[w].lvl].status = "active"
  BY <1>1 DEF IInv, CopyInv, HasCopy, Executing
<1>6. me \notin lost => swaps[me] = 0
  <2>1. (me \notin lost /\ swaps[me] > 0) => Triggered(snap[w], job[w].lvl)
    BY <1>1, <1>2 DEF IInv, CopyInv, HasCopy, Executing, LevelOf
  <2> QED BY <1>4, <1>5, <2>1 DEF Triggered, IInv, TypeOK
<1>7. \A v \in Workers : v # w /\ pc[v] \in Holding => job[v].pos # job[w].pos
  BY <1>1, Exclusive DEF Holding, HasCopy, Executing
<1> HIDE DEF filled
<1>8. LockInv'
  BY <1>1, <1>2, ProcsApart DEF LockInv, IInv, Holding, HasCopy, Executing, Filled
<1>9. CopyInv'
  <2> SUFFICES ASSUME NEW v \in Workers, pc'[v] \in HasCopy
               PROVE  /\ pc'[v] \in Executing =>
                           snap'[v].levels[job[v].lvl].status = "active"
                      /\ pc'[v] \in Filled => Triggered(snap'[v], job[v].lvl)
                      /\ \A l \in Slots :
                           (<<job[v].pos, l>> \notin lost /\ swaps'[<<job[v].pos, l>>] > 0)
                              => Triggered(snap'[v], l)
    BY <1>1 DEF CopyInv
  <2>1. CASE v = w
    <3>1. \A l \in Slots : l # job[w].lvl => swaps'[<<job[w].pos, l>>] = swaps[<<job[w].pos, l>>]
      BY <1>1, <1>2 DEF LevelOf, LevelId
    <3>2. \A l \in Slots :
            (<<job[w].pos, l>> \notin lost /\ swaps'[<<job[w].pos, l>>] > 0)
              => Triggered(filled, l)
      BY <1>1, <1>3, <3>1 DEF IInv, CopyInv, HasCopy, Executing
    <3>3. pc'[w] \notin Executing
      BY <1>2, ProcsApart DEF Executing
    <3> QED BY <1>2, <1>3, <2>1, <3>2, <3>3, ProcsApart
  <2>2. CASE v # w
    <3>1. pc'[v] = pc[v] /\ snap'[v] = snap[v] /\ job[v].pos # job[w].pos
      BY <1>2, <1>7, <2>2, ProcsApart DEF Holding
    <3>2. \A l \in Slots : swaps'[<<job[v].pos, l>>] = swaps[<<job[v].pos, l>>]
      <4>1. job[v].pos \in Positions
        BY <3>1, ProcsApart DEF HasCopy, Executing, Filled, IInv, TypeOK
      <4> QED BY <1>1, <3>1, <4>1 DEF LevelOf, LevelId
    <3> QED BY <3>1, <3>2 DEF IInv, CopyInv
  <2> QED BY <2>1, <2>2
<1>10. RecordInv'
  <2> SUFFICES ASSUME NEW k \in LevelId \ lost
               PROVE  /\ swaps'[k] <= 1
                      /\ swaps'[k] > 0 =>
                           \/ Triggered(store[k[1]], k[2])
                           \/ \E v \in Workers : pc'[v] = "persist" /\ LevelOf(v)' = k
    BY <1>1 DEF RecordInv
  <2>1. \A v \in Workers : LevelOf(v)' = LevelOf(v)
    BY <1>1 DEF LevelOf
  <2>2. CASE k = me
    BY <1>1, <1>2, <1>6, <2>1, <2>2, ProcsApart DEF IInv, TypeOK
  <2>3. CASE k # me
    BY <1>1, <1>2, <2>1, <2>3, ProcsApart DEF IInv, RecordInv
  <2> QED BY <2>2, <2>3
<1>11. ReportInv'
  <2>1. ASSUME NEW k \in LevelId
        PROVE  swaps'[k] >= swaps[k] /\ reported[k] <= swaps'[k]
    <3>1. swaps[k] \in Nat /\ reported[k] \in Nat /\ reported[k] <= swaps[k]
      BY DEF IInv, ReportInv, TypeOK
    <3>2. swaps'[k] = swaps[k] \/ swaps'[k] = swaps[k] + 1
      BY <1>1
    <3> QED BY <3>1, <3>2
  <2>2. swaps'[me] = swaps[me] + 1 /\ reported[me] < swaps'[me]
    BY <1>1, <1>4 DEF IInv, ReportInv, TypeOK
  <2>3. \A v \in Workers : LevelOf(v)' = LevelOf(v)
    BY <1>1 DEF LevelOf
  <2>4. ASSUME NEW v \in Workers, pc'[v] \in Filled
        PROVE  reported[LevelOf(v)] < swaps'[LevelOf(v)]
    <3>1. CASE v = w
      BY <2>2, <3>1
    <3>2. CASE v # w
      <4>1. pc[v] \in Filled /\ LevelOf(v) \in LevelId
        BY <1>2, <2>4, <3>2, ProcsApart DEF IInv, TypeOK, Filled, LevelOf, LevelId, Job
      <4> QED BY <2>1, <4>1 DEF IInv, ReportInv, TypeOK
    <3> QED BY <3>1, <3>2
  <2>5. ASSUME NEW v \in Workers, pc'[v] = "retire"
        PROVE  Triggered(store[job[v].pos], job[v].lvl) \/ LevelOf(v) \in lost
    BY <1>2, <2>5, ProcsApart DEF IInv, ReportInv
  <2> QED BY <1>1, <2>1, <2>3, <2>4, <2>5 DEF ReportInv, IInv
<1>12. SaneInv'
  BY <1>1, <1>2, <1>3 DEF SaneInv, Sane, IInv
<1> QED BY <1>8, <1>9, <1>10, <1>11, <1>12 DEF IInv

(* The record of the swap is written, or the swap counts as lost.           *)
LEMMA PersistFillInv ==
  ASSUME IInv, TypeOK', NEW w \in Workers, PersistFill(w)
  PROVE  IInv'
<1>1. /\ pc[w] = "persist" /\ UNCHANGED <<swaps, reported>>
      /\ pc[w] \in HasCopy /\ pc[w] \in Holding /\ pc[w] \in Filled
  BY DEF PersistFill, NowIs, HasCopy, Holding, Filled
<1>2. /\ LevelOf(w) \in LevelId
      /\ LevelOf(w)[1] = job[w].pos /\ LevelOf(w)[2] = job[w].lvl
  BY <1>1, ProcsApart DEF LevelOf, LevelId, IInv, TypeOK, Job
<1>3. CASE /\ store' = [store EXCEPT ![job[w].pos] = snap[w]]
           /\ Goto(w, "retire")
           /\ UNCHANGED <<posLock, job, snap, todo, lost>>
  <2>1. \A q \in Procs : pc'[q] = IF q = w THEN "retire" ELSE pc[q]
    BY <1>3 DEF Goto, IInv, TypeOK
  <2>2. \A v \in Workers : LevelOf(v)' = LevelOf(v)
    BY <1>3 DEF LevelOf
  <2>3. LockInv' /\ CopyInv'
    BY <1>1, <1>3, <2>1, ProcsApart
    DEF LockInv, CopyInv, IInv, Holding, HasCopy, Executing, Filled
  <2>4. Triggered(store'[job[w].pos], job[w].lvl)
    <3>1. Triggered(snap[w], job[w].lvl) /\ job[w].pos \in Positions
      BY <1>1, ProcsApart DEF IInv, CopyInv, TypeOK
    <3> QED BY <1>3, <3>1 DEF IInv, TypeOK
  <2>5. RecordInv'
    <3> SUFFICES ASSUME NEW k \in LevelId \ lost, swaps[k] > 0,
                        ~Triggered(store'[k[1]], k[2])
                 PROVE  \E v \in Workers : pc'[v] = "persist" /\ LevelOf(v) = k
      BY <1>1, <1>3, <2>2 DEF RecordInv, IInv
    <3>1. ~Triggered(store[k[1]], k[2])
      BY <1>1, <1>3, CopyKeeps
    <3>2. PICK v \in Workers : pc[v] = "persist" /\ LevelOf(v) = k
      BY <3>1 DEF IInv, RecordInv
    <3>3. v # w
      BY <1>2, <2>4, <3>2
    <3> QED BY <2>1, <3>2, <3>3, ProcsApart
  <2>6. ReportInv'
    <3>1. \A k \in LevelId : reported[k] > 0 => Triggered(store'[k[1]], k[2]) \/ k \in lost
      BY <1>1, <1>3, CopyKeeps
    <3>2. \A v \in Workers : pc'[v] \in Filled => pc[v] \in Filled
      BY <1>1, <2>1, ProcsApart
    <3>3. \A v \in Workers : pc'[v] = "retire" =>
            Triggered(store'[job[v].pos], job[v].lvl) \/ LevelOf(v) \in lost
      BY <1>1, <1>3, <2>1, <2>4, CopyKeeps, ProcsApart
    <3> QED BY <1>1, <1>3, <2>2, <3>1, <3>2, <3>3 DEF ReportInv, IInv
  <2>7. SaneInv'
    BY <1>1, <1>3, CopyKeeps DEF SaneInv, IInv
  <2> QED BY <2>3, <2>5, <2>6, <2>7 DEF IInv
<1>4. CASE lost' = lost \cup {LevelOf(w)} /\ Return(w) /\ UNCHANGED store
  <2>1. CopyInv'
    <3> SUFFICES ASSUME NEW v \in Workers, pc'[v] \in HasCopy
                 PROVE  /\ pc'[v] \in Executing =>
                             snap'[v].levels[job'[v].lvl].status = "active"
                        /\ pc'[v] \in Filled => Triggered(snap'[v], job'[v].lvl)
                        /\ \A l \in Slots :
                             (<<job'[v].pos, l>> \notin lost' /\ swaps[<<job'[v].pos, l>>] > 0)
                                => Triggered(snap'[v], l)
      BY <1>1 DEF CopyInv
    <3>1. /\ v # w /\ pc'[v] = pc[v] /\ job'[v] = job[v] /\ snap'[v] = snap[v]
      BY <1>1, <1>4, ReturnKeeps, ProcsApart DEF HasCopy, Executing, Filled
    <3> QED BY <1>4, <3>1 DEF IInv, CopyInv
  <2>2. RecordInv'
    <3> SUFFICES ASSUME NEW k \in LevelId \ lost', swaps[k] > 0,
                        NEW v \in Workers, pc[v] = "persist", LevelOf(v) = k
                 PROVE  pc'[v] = "persist" /\ LevelOf(v)' = k
      BY <1>1, <1>4 DEF RecordInv, IInv
    <3>1. v # w
      BY <1>4
    <3> QED BY <1>1, <1>4, <3>1, ReturnKeeps, ProcsApart DEF LevelOf
  <2>3. ReportInv'
    BY <1>1, <1>4, ReturnKeeps, ProcsApart DEF ReportInv, IInv, Filled, LevelOf
  <2> QED BY <1>1, <1>4, <2>1, <2>2, <2>3, ReturnKeeps DEF IInv, SaneInv
<1> QED BY <1>3, <1>4 DEF PersistFill

(* The report of a swap follows the write of its record.                    *)
LEMMA ReportExecutionInv ==
  ASSUME IInv, TypeOK', NEW w \in Workers, ReportExecution(w)
  PROVE  IInv'
<1> DEFINE me == LevelOf(w)
<1>1. /\ pc[w] = "retire" /\ Return(w) /\ UNCHANGED <<store, swaps, lost>>
      /\ reported' = [reported EXCEPT ![me] = @ + 1]
      /\ pc[w] \in HasCopy /\ pc[w] \in Holding /\ pc[w] \in Filled
  BY DEF ReportExecution, NowIs, HasCopy, Holding, Filled
<1>2. /\ me \in LevelId /\ me[1] = job[w].pos /\ me[2] = job[w].lvl
      /\ \A k \in LevelId : reported[k] \in Nat /\ swaps[k] \in Nat
  BY <1>1, ProcsApart DEF LevelOf, LevelId, IInv, TypeOK, Job
<1>3. /\ reported[me] < swaps[me]
      /\ Triggered(store[me[1]], me[2]) \/ me \in lost
  BY <1>1, <1>2 DEF IInv, ReportInv
<1>4. \A k \in LevelId : reported'[k] = IF k = me THEN reported[k] + 1 ELSE reported[k]
  BY <1>1 DEF IInv, TypeOK
<1>5. \A v \in Workers : pc'[v] \in HasCopy =>
         v # w /\ pc'[v] = pc[v] /\ job'[v] = job[v] /\ snap'[v] = snap[v]
  BY <1>1, ReturnKeeps, ProcsApart DEF HasCopy, Executing, Filled
<1>6. CopyInv'
  BY <1>1, <1>5 DEF CopyInv, IInv
<1>7. RecordInv'
  <2>1. \A v \in Workers : pc[v] = "persist" => pc'[v] = "persist" /\ LevelOf(v)' = LevelOf(v)
    BY <1>1, ReturnKeeps, ProcsApart DEF LevelOf
  <2> QED BY <1>1, <2>1 DEF RecordInv, IInv
<1>8. ReportInv'
  <2>1. ASSUME NEW k \in LevelId
        PROVE  /\ reported'[k] <= swaps[k]
               /\ reported'[k] > 0 => Triggered(store[k[1]], k[2]) \/ k \in lost
    <3>1. CASE k = me
      BY <1>2, <1>3, <1>4, <3>1
    <3>2. CASE k # me
      BY <1>4, <3>2 DEF IInv, ReportInv
    <3> QED BY <3>1, <3>2
  <2>2. ASSUME NEW v \in Workers, pc'[v] \in Filled
        PROVE  /\ reported'[LevelOf(v)'] < swaps[LevelOf(v)']
               /\ pc'[v] = "retire" =>
                    Triggered(store[job'[v].pos], job'[v].lvl) \/ LevelOf(v)' \in lost
    <3>1. v # w /\ pc'[v] = pc[v] /\ job'[v] = job[v] /\ LevelOf(v)' = LevelOf(v)
      BY <1>5, <2>2 DEF HasCopy, LevelOf
    <3>2. pc[v] \in Holding /\ LevelOf(v) \in LevelId /\ LevelOf(v)[1] = job[v].pos
      BY <2>2, <3>1, ProcsApart DEF Holding, HasCopy, Filled, LevelOf, LevelId, IInv, TypeOK, Job
    <3>3. LevelOf(v) # me
      BY <1>1, <1>2, <3>1, <3>2, Exclusive
    <3> QED BY <1>4, <2>2, <3>1, <3>2, <3>3 DEF IInv, ReportInv
  <2> QED BY <1>1, <2>1, <2>2 DEF ReportInv
<1> QED BY <1>1, <1>6, <1>7, <1>8, ReturnKeeps DEF IInv, SaneInv

LEMMA WorkerInv ==
  ASSUME IInv, TypeOK', NEW w \in Workers, WorkerStep(w)
  PROVE  IInv'
<1>1. CASE SuspendLevel(w) \/ RetireLevel(w)
  BY <1>1, ElsewhereKeeps DEF SuspendLevel, RetireLevel, Unrecorded, historyVars
<1> QED
  BY <1>1, TakeEventInv, LockPositionInv, LoadInv, AllowInv, PermitInv, SaveActivationInv,
     SaveSuspensionInv, SubmitSwapInv, SwapMinedInv, SwapRevertedInv, PersistFillInv,
     ReportExecutionInv DEF WorkerStep

-----------------------------------------------------------------------------
(* The callers, which hold no lock and whose copies nobody relies on.       *)

(* What a caller does to its own place, call and copy disturbs nothing.     *)
LEMMA CallerMoves ==
  ASSUME IInv, TypeOK', NEW h \in Callers, UNCHANGED <<posLock, swaps, reported>>,
         \A w \in Workers : pc'[w] = pc[w] /\ job'[w] = job[w] /\ snap'[w] = snap[w],
         \A q \in Procs : q # h => snap'[q] = snap[q],
         Sane(snap'[h]),
         lost \subseteq lost',
         \A k \in LevelId \ lost' :
            swaps[k] > 0 /\ Triggered(store[k[1]], k[2]) => Triggered(store'[k[1]], k[2]),
         \A k \in LevelId :
            reported[k] > 0 => Triggered(store'[k[1]], k[2]) \/ k \in lost',
         \A w \in Workers : pc[w] = "retire" =>
            Triggered(store'[job[w].pos], job[w].lvl) \/ LevelOf(w) \in lost',
         \A p \in Positions : Sane(store'[p])
  PROVE  IInv'
<1>1. LockInv' /\ CopyInv'
  BY DEF LockInv, CopyInv, IInv
<1>2. RecordInv'
  BY DEF RecordInv, IInv, LevelOf
<1>3. ReportInv'
  BY DEF ReportInv, IInv, LevelOf
<1>4. SaneInv'
  BY DEF SaneInv, IInv
<1> QED BY <1>1, <1>2, <1>3, <1>4 DEF IInv

(* ... in particular when it leaves the Store alone.                        *)
LEMMA CallerUnrecorded ==
  ASSUME IInv, TypeOK', NEW h \in Callers, Unrecorded, UNCHANGED posLock,
         NEW place, Goto(h, place),
         NEW new, job' = [job EXCEPT ![h] = new],
         NEW rec, snap' = [snap EXCEPT ![h] = rec], Sane(rec)
  PROVE  IInv'
<1>1. /\ \A w \in Workers : pc'[w] = pc[w] /\ job'[w] = job[w] /\ snap'[w] = snap[w]
      /\ \A q \in Procs : q # h => snap'[q] = snap[q]
      /\ snap'[h] = rec
  BY ProcsApart DEF Goto, IInv, TypeOK
<1> QED BY <1>1, CallerMoves DEF Unrecorded, IInv, ReportInv, SaneInv

LEMMA BeginInv ==
  ASSUME IInv, TypeOK', NEW h \in Callers, NEW op, NEW p \in Positions, NEW rec, NEW S,
         Begin(h, op, p, rec, S), Sane(rec)
  PROVE  IInv'
  BY CallerUnrecorded DEF Begin, Unrecorded, historyVars

(* A call starts from the record of an open position, and no call takes its *)
(* state back to none.                                                      *)
LEMMA CallInv ==
  ASSUME IInv, TypeOK', NEW h \in Callers, Call(h)
  PROVE  IInv'
<1>1. ASSUME NEW p \in Positions, NEW plan \in Plans, SavePosition(h, p, plan)
      PROVE  IInv'
  <2>1. /\ plan \in PositionRecord /\ plan.state = "active" /\ Sane(plan)
    BY ManagerAssumption DEF Sane
  <2>2. \A l \in Slots : ~Triggered(store[p], l)
    BY <1>1 DEF SavePosition, IInv, SaneInv, Sane
  <2>3. /\ store' = [store EXCEPT ![p] = plan]
        /\ Goto(h, "register")
        /\ job' = [job EXCEPT ![h] = JobOn("open", p)]
        /\ snap' = [snap EXCEPT ![h] = plan]
        /\ UNCHANGED <<posLock, swaps, reported, lost>>
    BY <1>1 DEF SavePosition, historyVars
  <2>4. /\ \A k \in LevelId \ lost' :
              swaps[k] > 0 /\ Triggered(store[k[1]], k[2]) => Triggered(store'[k[1]], k[2])
        /\ \A k \in LevelId :
              reported[k] > 0 => Triggered(store'[k[1]], k[2]) \/ k \in lost'
        /\ \A w \in Workers : pc[w] = "retire" =>
              Triggered(store'[job[w].pos], job[w].lvl) \/ LevelOf(w) \in lost'
        /\ \A q \in Positions : Sane(store'[q])
    BY <2>1, <2>2, <2>3, WriteKeeps
  <2>5. /\ \A w \in Workers : pc'[w] = pc[w] /\ job'[w] = job[w] /\ snap'[w] = snap[w]
        /\ \A q \in Procs : q # h => snap'[q] = snap[q]
        /\ snap'[h] = plan
    BY <2>3, ProcsApart DEF Goto, IInv, TypeOK
  <2> QED BY <2>1, <2>3, <2>4, <2>5, CallerMoves
<1>2. ASSUME NEW p \in Positions PROVE store[p] \in PositionRecord
  BY DEF IInv, TypeOK
<1>3. ASSUME NEW p \in Positions, NEW S, NEW st \in LevelStatus
      PROVE  Mark(store[p], S, st).state = store[p].state
  BY <1>2 DEF Mark, PositionRecord
<1>4. \A p \in Positions : \A rec : IsOpen(store[p]) /\ rec.state = store[p].state => Sane(rec)
  BY DEF IsOpen, Sane
<1>5. {"active", "suspended", "cancelled"} \subseteq LevelStatus
  BY DEF LevelStatus
<1>6. ASSUME NEW p \in Positions, CancelPosition(h, p) PROVE IInv'
  <2> DEFINE m == Mark(store[p], ActiveLevels(store[p]), "cancelled")
             r == [m EXCEPT !.state = "cancelled"]
  <2>1. m \in PositionRecord
    BY <1>2, <1>5, MarkType
  <2>2. r.state = "cancelled"
    <3> HIDE DEF m
    <3> QED BY <2>1 DEF PositionRecord
  <2>3. Sane(r)
    BY <2>2 DEF Sane
  <2>4. Begin(h, "cancel", p, r, ActiveLevels(store[p]))
    BY <1>6 DEF CancelPosition
  <2> HIDE DEF r
  <2> QED BY <2>3, <2>4, BeginInv
<1>7. ASSUME NEW p \in Positions, NEW l \in Slots, NEW price \in Prices,
             UpdateLevel(h, p, l, price)
      PROVE  IInv'
  <2>1. SetTrigger(store[p], {l}, price).state = store[p].state
    BY <1>2 DEF SetTrigger, PositionRecord
  <2>2. Sane(SetTrigger(store[p], {l}, price))
    BY <1>4, <1>7, <2>1 DEF UpdateLevel, Begin
  <2> QED BY <1>7, <2>2, BeginInv DEF UpdateLevel
<1>8. ASSUME NEW p \in Positions, NEW l \in Slots, NEW lv \in NewLevels, AddLevel(h, p, l, lv)
      PROVE  IInv'
  <2>1. [store[p] EXCEPT !.levels[l] = lv].state = store[p].state
    BY <1>2 DEF PositionRecord
  <2>2. Sane([store[p] EXCEPT !.levels[l] = lv])
    BY <1>4, <1>8, <2>1 DEF AddLevel, Begin
  <2> QED BY <1>8, <2>2, BeginInv DEF AddLevel
<1>9. ASSUME NEW p \in Positions, NEW l \in Slots, RemoveLevel(h, p, l)
      PROVE  IInv'
  BY <1>3, <1>4, <1>5, <1>9, BeginInv DEF RemoveLevel, Begin
<1>10. ASSUME NEW p \in Positions, NEW deadline \in Deadlines, RenewPermit(h, p, deadline)
       PROVE  IInv'
  <2> DEFINE S == WithStatus(store[p], "suspended")
             m == Mark(store[p], S, "active")
             r == [m EXCEPT !.permit = TRUE, !.deadline = deadline, !.activated = FALSE]
  <2>1. m \in PositionRecord /\ m.state = store[p].state
    BY <1>2, <1>3, <1>5, MarkType
  <2>2. r.state = store[p].state
    <3> HIDE DEF m
    <3> QED BY <2>1 DEF PositionRecord
  <2>3. Begin(h, "renew", p, r, S)
    BY <1>10 DEF RenewPermit
  <2> HIDE DEF r, S
  <2> QED BY <1>4, <2>2, <2>3, BeginInv DEF Begin
<1>11. ASSUME NEW p \in Positions, SuspendExpired(h, p) PROVE IInv'
  BY <1>3, <1>4, <1>5, <1>11, BeginInv DEF SuspendExpired, Begin
<1> QED BY <1>1, <1>6, <1>7, <1>8, <1>9, <1>10, <1>11 DEF Call

(* What a call's write erases counts as lost.                               *)
LEMMA CallerInv ==
  ASSUME IInv, TypeOK', NEW h \in Callers, CallerStep(h)
  PROVE  IInv'
<1>1. Sane(NoPosition)
  BY DEF Sane, Triggered, NoPosition, NoLevel
<1>2. CASE ApplyToEngine(h)
  BY <1>2, ElsewhereKeeps DEF ApplyToEngine, Unrecorded, historyVars
<1>3. CASE OpenReturns(h)
  BY <1>1, <1>3, CallerUnrecorded DEF OpenReturns, Finish, Unrecorded, historyVars
<1>4. CASE SaveCall(h)
  <2> DEFINE p == job[h].pos
  <2>1. /\ pc[h] = "engine" /\ p \in Positions
        /\ snap[h] \in PositionRecord /\ Sane(snap[h])
    BY <1>4, ProcsApart DEF SaveCall, NowIs, IInv, TypeOK, SaneInv
  <2>2. /\ Finish(h) /\ UNCHANGED <<posLock, swaps, reported>>
    BY <1>4 DEF SaveCall
  <2>3. CASE UNCHANGED <<store, lost>>
    BY <1>1, <2>2, <2>3, CallerUnrecorded DEF Finish, Unrecorded
  <2>4. CASE /\ store' = [store EXCEPT ![p] = snap[h]]
             /\ lost' = lost \cup Erased(p, snap[h])
    <3>1. ASSUME NEW l \in Slots, <<p, l>> \notin lost', Triggered(store[p], l)
          PROVE  Triggered(snap[h], l)
      BY <2>1, <2>4, <3>1 DEF Erased, Triggered, LevelId
    <3>2. /\ \A k \in LevelId \ lost' :
                swaps[k] > 0 /\ Triggered(store[k[1]], k[2]) => Triggered(store'[k[1]], k[2])
          /\ \A k \in LevelId :
                reported[k] > 0 => Triggered(store'[k[1]], k[2]) \/ k \in lost'
          /\ \A w \in Workers : pc[w] = "retire" =>
                Triggered(store'[job[w].pos], job[w].lvl) \/ LevelOf(w) \in lost'
          /\ \A q \in Positions : Sane(store'[q])
      BY <2>1, <2>2, <2>4, <3>1, WriteKeeps
    <3>3. /\ \A w \in Workers : pc'[w] = pc[w] /\ job'[w] = job[w] /\ snap'[w] = snap[w]
          /\ \A q \in Procs : q # h => snap'[q] = snap[q]
          /\ snap'[h] = NoPosition
      BY <2>2, ProcsApart DEF Finish, Goto, IInv, TypeOK
    <3> QED BY <1>1, <2>2, <2>4, <3>2, <3>3, CallerMoves
  <2> QED BY <1>4, <2>3, <2>4 DEF SaveCall
<1> QED BY <1>2, <1>3, <1>4 DEF CallerStep

-----------------------------------------------------------------------------
(* The whole next-state relation.                                           *)

(* A crash forgets every goroutine; the swaps it leaves unrecorded count as *)
(* lost.                                                                    *)
LEMMA CrashInv ==
  ASSUME IInv, TypeOK', NEW W \in SUBSET Workers, Crash(W)
  PROVE  IInv'
<1>1. /\ \A q \in Procs : pc'[q] = "idle" /\ snap'[q] = NoPosition
      /\ UNCHANGED <<store, reported>>
      /\ lost' = lost \cup {LevelOf(w) : w \in W \cup AtPersist}
      /\ \A k \in LevelId :
           swaps'[k] = IF \E w \in W : LevelOf(w) = k THEN swaps[k] + 1 ELSE swaps[k]
  BY DEF Crash, Mined
<1>2. LockInv' /\ CopyInv'
  BY <1>1, ProcsApart DEF LockInv, CopyInv, Holding, HasCopy, Executing, Filled
<1>3. RecordInv'
  <2> SUFFICES ASSUME NEW k \in LevelId \ lost'
               PROVE  swaps'[k] <= 1 /\ (swaps'[k] > 0 => Triggered(store[k[1]], k[2]))
    BY <1>1 DEF RecordInv
  <2>1. k \notin lost /\ swaps'[k] = swaps[k]
    BY <1>1
  <2>2. \A w \in Workers : pc[w] = "persist" => LevelOf(w) # k
    BY <1>1 DEF AtPersist
  <2> QED BY <2>1, <2>2 DEF IInv, RecordInv
<1>4. ReportInv'
  <2>1. ASSUME NEW k \in LevelId PROVE reported[k] <= swaps'[k]
    <3>1. swaps[k] \in Nat /\ reported[k] \in Nat /\ reported[k] <= swaps[k]
      BY DEF IInv, ReportInv, TypeOK
    <3>2. swaps'[k] = swaps[k] \/ swaps'[k] = swaps[k] + 1
      BY <1>1
    <3> QED BY <3>1, <3>2
  <2>2. \A w \in Workers : pc'[w] \notin Filled /\ pc'[w] # "retire"
    BY <1>1, ProcsApart DEF Filled
  <2> QED BY <1>1, <2>1, <2>2 DEF ReportInv, IInv
<1>5. SaneInv'
  BY <1>1 DEF SaneInv, IInv, Sane, Triggered, NoPosition, NoLevel
<1> QED BY <1>2, <1>3, <1>4, <1>5 DEF IInv

LEMMA NextInv == IInv /\ [Next]_vars => IInv'
<1> SUFFICES ASSUME IInv, [Next]_vars PROVE IInv'
  OBVIOUS
<1>1. TypeOK'
  BY TypeNext DEF IInv
<1>2. CASE UNCHANGED vars
  BY <1>1, <1>2, ElsewhereKeeps DEF vars, Unrecorded
<1>3. ASSUME \/ \E price \in Prices : OnPrice(price)
             \/ \E e \in Entry : Dispatch(e)
             \/ RunStep \/ AdvanceClock
      PROVE  IInv'
  BY <1>1, <1>3, ElsewhereKeeps
  DEF OnPrice, Dispatch, RunStep, ListActive, RegisterListed, StartRun, AdvanceClock, Unrecorded,
      procVars, historyVars
<1> QED
  BY <1>1, <1>2, <1>3, WorkerInv, CallInv, CallerInv, CrashInv DEF Next

(* The invariant below the two theorems that follow holds always.           *)
THEOREM Inductive == Spec => []IInv
  BY InitInv, NextInv, PTL DEF Spec

(* Whatever the number of positions, workers, host goroutines and failures, *)
(* a level is swapped a second time only if the record of an earlier swap   *)
(* of it was lost.                                                          *)
THEOREM NoUnexplainedDoubleSwap == Spec => []DoubleSwapOnlyIfRecordLost
<1>1. IInv => DoubleSwapOnlyIfRecordLost
  <2> SUFFICES ASSUME IInv, NEW k \in LevelId, swaps[k] > 1, k \notin lost
               PROVE  FALSE
    BY DEF DoubleSwapOnlyIfRecordLost
  <2>1. swaps[k] <= 1 /\ swaps[k] \in Nat
    BY DEF IInv, RecordInv, TypeOK
  <2> QED BY <2>1
<1> QED BY <1>1, Inductive, PTL

(* The host is told of an execution only once its record is in the Store,   *)
(* and at most once per swap.                                               *)
THEOREM HostHearsOfRecorded == Spec => []ReportedIsRecorded
<1>1. IInv => ReportedIsRecorded
  BY DEF IInv, ReportInv, ReportedIsRecorded
<1> QED BY <1>1, Inductive, PTL

-----------------------------------------------------------------------------
(* SizeConserved: what was sold and what remains add up to the size.        *)

(* s differs from r in nothing that a sum or a mark depends on.             *)
Derived(s, r) ==
    /\ s.state \in {r.state, "cancelled"}
    /\ s.size = r.size /\ s.remaining = r.remaining
    /\ \A l \in Slots : /\ Triggered(s, l) => Triggered(r, l)
                        /\ \/ s.levels[l].portion <= 10000
                           \/ s.levels[l].portion = r.levels[l].portion

LEMMA MarkKeeps ==
  ASSUME NEW pos \in PositionRecord, NEW S, NEW st \in LevelStatus \ {"triggered"}
  PROVE  Derived(Mark(pos, S, st), pos)
<1> DEFINE lv == [i \in Slots |-> IF i \in S THEN [pos.levels[i] EXCEPT !.status = st]
                                            ELSE pos.levels[i]]
<1>1. \A i \in Slots : pos.levels[i] \in Level
  BY DEF PositionRecord
<1>2. \A i \in Slots : /\ lv[i].portion = pos.levels[i].portion
                       /\ lv[i].status = "triggered" => pos.levels[i].status = "triggered"
  BY <1>1 DEF Level
<1>3. Mark(pos, S, st) = [pos EXCEPT !.levels = lv]
  BY DEF Mark
<1> HIDE DEF lv
<1> QED BY <1>2, <1>3 DEF Derived, Triggered, PositionRecord

LEMMA SetTriggerKeeps ==
  ASSUME NEW pos \in PositionRecord, NEW S, NEW price
  PROVE  Derived(SetTrigger(pos, S, price), pos)
<1> DEFINE lv == [i \in Slots |-> IF i \in S THEN [pos.levels[i] EXCEPT !.trig = price]
                                            ELSE pos.levels[i]]
<1>1. \A i \in Slots : pos.levels[i] \in Level
  BY DEF PositionRecord
<1>2. \A i \in Slots : /\ lv[i].portion = pos.levels[i].portion
                       /\ lv[i].status = pos.levels[i].status
  BY <1>1 DEF Level
<1>3. SetTrigger(pos, S, price) = [pos EXCEPT !.levels = lv]
  BY DEF SetTrigger
<1> HIDE DEF lv
<1> QED BY <1>2, <1>3 DEF Derived, Triggered, PositionRecord

(* Filling a level marks no other, and takes its share from what remains.   *)
LEMMA FillKeeps ==
  ASSUME NEW pos \in PositionRecord, NEW l \in Slots
  PROVE  /\ Fill(pos, l).size = pos.size
         /\ Fill(pos, l).remaining = RemainingAfter(pos, l)
         /\ Fill(pos, l).state # "none"
         /\ \A i \in Slots :
              /\ Fill(pos, l).levels[i].portion = pos.levels[i].portion
              /\ Triggered(Fill(pos, l), i) => i = l \/ Triggered(pos, i)
<1> DEFINE m1 == Mark(pos, CancelledBy(pos, l), "cancelled")
           m2 == Mark(m1, {l}, "triggered")
           m3 == SetTrigger(m2, SLToMove(m2, l), pos.levels[l].moveSLTo)
<1>1. /\ "cancelled" \in LevelStatus /\ "triggered" \in LevelStatus
      /\ pos.levels[l].moveSLTo \in Prices \cup {0}
  BY DEF LevelStatus, PositionRecord, Level
<1>2. /\ m1 \in PositionRecord
      /\ m1.size = pos.size
      /\ \A i \in Slots : /\ m1.levels[i].portion = pos.levels[i].portion
                          /\ Triggered(m1, i) => Triggered(pos, i)
  <2>1. \A i \in Slots : m1.levels[i].portion = pos.levels[i].portion
    BY DEF Mark, PositionRecord, Level
  <2>2. m1 \in PositionRecord /\ Derived(m1, pos)
    BY <1>1, MarkType, MarkKeeps
  <2> HIDE DEF m1
  <2> QED BY <2>1, <2>2 DEF Derived
<1> HIDE DEF m1
<1>3. /\ m2 \in PositionRecord
      /\ m2.size = pos.size
      /\ \A i \in Slots : /\ m2.levels[i].portion = pos.levels[i].portion
                          /\ Triggered(m2, i) => i = l \/ Triggered(pos, i)
  <2>1. \A i \in Slots : m2.levels[i].portion = m1.levels[i].portion
    BY <1>2 DEF Mark, PositionRecord, Level
  <2>2. m2.size = m1.size
    BY <1>2 DEF Mark, PositionRecord
  <2>3. /\ m2 \in PositionRecord
        /\ \A i \in Slots : i # l => m2.levels[i].status = m1.levels[i].status
    BY <1>1, <1>2, MarkType
  <2> HIDE DEF m2
  <2> QED BY <1>2, <2>1, <2>2, <2>3 DEF Triggered
<1> HIDE DEF m2
<1>4. /\ m3 \in PositionRecord
      /\ m3.size = pos.size
      /\ \A i \in Slots : /\ m3.levels[i].portion = pos.levels[i].portion
                          /\ Triggered(m3, i) => i = l \/ Triggered(pos, i)
  <2>1. \A i \in Slots : m3.levels[i].portion = m2.levels[i].portion
    BY <1>3 DEF SetTrigger, PositionRecord, Level
  <2>2. m3 \in PositionRecord /\ Derived(m3, m2)
    BY <1>1, <1>3, SetTriggerType, SetTriggerKeeps
  <2> HIDE DEF m3
  <2> QED BY <1>3, <2>1, <2>2 DEF Derived
<1>5. Fill(pos, l) = [m3 EXCEPT !.remaining = RemainingAfter(pos, l),
                                !.state = StateAfter(pos, l)]
  BY DEF Fill, m1, m2
<1> HIDE DEF m3
<1>6. StateAfter(pos, l) # "none"
  BY DEF StateAfter
<1> QED BY <1>4, <1>5, <1>6 DEF Triggered, PositionRecord

(* A share of what remains is no more than what remains.                    *)
LEMMA ShareFits ==
  ASSUME NEW pos \in PositionRecord, NEW l \in Slots, Shares(pos)
  PROVE  RemainingAfter(pos, l) + computeAmount(pos, l) = pos.remaining
<1> DEFINE r == pos.remaining
           f == pos.levels[l].portion
<1>1. r \in Nat /\ f \in Nat /\ f <= 10000
  BY DEF PositionRecord, Level, Shares
<1> HIDE DEF r, f
<1>2. r * f \in Nat /\ r * f <= r * 10000
  BY <1>1, Z3
<1>3. \A n \in Nat : n <= r * 10000 => n \div 10000 <= r
  BY <1>1
<1>4. (r * f) \div 10000 <= r
  BY <1>2, <1>3
<1>5. computeAmount(pos, l) = (r * f) \div 10000
  BY DEF computeAmount, mulBps, r, f
<1>6. computeAmount(pos, l) \in Nat
  BY AmountType
<1> QED BY <1>1, <1>4, <1>5, <1>6 DEF RemainingAfter, r

LEMMA DerivedShares ==
  ASSUME NEW r, NEW s, Derived(s, r), Shares(r)
  PROVE  Shares(s)
  BY DEF Derived, Shares

LEMMA DerivedSound ==
  ASSUME NEW r, NEW s, NEW p, Derived(s, r), Sound(r, p)
  PROVE  Sound(s, p)
  BY DEF Derived, Sound, Knows

LEMMA DerivedItself ==
  ASSUME NEW r PROVE Derived(r, r)
  BY DEF Derived

(* A step of goroutine q in which no swap is mined: it may write its copy   *)
(* to the Store, and its next copy comes from the one it has or from the    *)
(* Store.                                                                   *)
Quiet(q) ==
    /\ UNCHANGED <<swaps, moved>> /\ lost \subseteq lost'
    /\ \A g \in Procs \ {q} : pc'[g] = pc[g] /\ job'[g] = job[g] /\ snap'[g] = snap[g]
    /\ \A p \in Positions :
         \/ store'[p] = store[p]
         \/ pc[q] \in Keeping /\ job[q].pos = p /\ store'[p] = snap[q]
    /\ \/ pc'[q] \notin Keeping /\ snap'[q] \in {NoPosition, snap[q]}
       \/ pc[q] \in Keeping /\ job'[q] = job[q] /\ Derived(snap'[q], snap[q])
       \/ job'[q].pos \in Positions /\ Derived(snap'[q], store[job'[q].pos])

(* What a step of goroutine q does to the locks.                            *)
LockStep(q) ==
    /\ \A g \in Procs \ {q} : pc'[g] = pc[g] /\ job'[g] = job[g]
    /\ \/ /\ UNCHANGED posLock
          /\ (q \in Workers /\ pc[q] \in Holding)
               => (pc'[q] \in Holding /\ job'[q] = job[q])
       \/ pc[q] \in Holding /\ posLock' = [posLock EXCEPT ![job[q].pos] = None]
       \/ /\ pc[q] \notin Holding /\ pc'[q] \in Holding /\ job'[q] = job[q]
          /\ posLock' = [posLock EXCEPT ![job[q].pos] = q]

LEMMA NoPositionShares == Shares(NoPosition)
  BY DEF Shares, NoPosition, NoLevel

LEMMA QuietKeeps ==
  ASSUME SizeInv, NEW q \in Procs, Quiet(q)
  PROVE  SharesInv' /\ SoundInv'
<1>1. \A p \in Positions : Shares(store'[p])
  BY DEF Quiet, SizeInv, SharesInv
<1>2. Shares(snap'[q])
  BY NoPositionShares, DerivedShares DEF Quiet, SizeInv, SharesInv
<1>3. \A g \in Procs : Shares(snap'[g])
  BY <1>2 DEF Quiet, SizeInv, SharesInv
<1>4. ASSUME NEW p \in Positions, Intact(p)'
      PROVE  /\ Sound(store'[p], p)
             /\ \A g \in Procs : (pc'[g] \in Keeping /\ job'[g].pos = p) => Sound(snap'[g], p)
  <2>1. Intact(p)
    BY <1>4 DEF Intact, Quiet
  <2>2. /\ Sound(store[p], p)
        /\ \A g \in Procs : (pc[g] \in Keeping /\ job[g].pos = p) => Sound(snap[g], p)
    BY <2>1 DEF SizeInv, SoundInv
  <2>3. Sound(store'[p], p)
    BY <2>2 DEF Quiet
  <2>4. (pc'[q] \in Keeping /\ job'[q].pos = p) => Sound(snap'[q], p)
    BY <2>2, DerivedSound DEF Quiet
  <2> QED BY <2>2, <2>3, <2>4 DEF Quiet
<1>5. SoundInv'
  <2> SUFFICES ASSUME NEW p \in Positions, Intact(p)'
               PROVE  /\ Sound(store[p], p)'
                      /\ \A g \in Procs :
                           (pc'[g] \in Keeping /\ job'[g].pos = p) => Sound(snap[g], p)'
    BY DEF SoundInv
  <2>1. UNCHANGED <<swaps, moved>>
    BY DEF Quiet
  <2>2. (Sound(store[p], p))' <=> Sound(store'[p], p)
    BY <2>1 DEF Sound, Knows, Triggered
  <2>3. \A g \in Procs : (Sound(snap[g], p))' <=> Sound(snap'[g], p)
    BY <2>1 DEF Sound, Knows, Triggered
  <2> QED BY <1>4, <2>2, <2>3
<1> QED BY <1>1, <1>3, <1>5 DEF SharesInv, Shares

LEMMA LockStepKeeps ==
  ASSUME SizeInv, NEW q \in Procs, LockStep(q)
  PROVE  OwnerInv'
<1> SUFFICES ASSUME NEW p \in Positions, posLock'[p] # None
             PROVE  pc'[posLock'[p]] \in Holding /\ job'[posLock'[p]].pos = p
  BY DEF OwnerInv
<1>1. /\ posLock \in [Positions -> Workers \cup {None}]
      /\ posLock[p] # None =>
           posLock[p] \in Workers /\ pc[posLock[p]] \in Holding /\ job[posLock[p]].pos = p
  BY DEF SizeInv, IInv, TypeOK, OwnerInv
<1>2. ASSUME posLock'[p] = posLock[p]
      PROVE  pc'[posLock'[p]] \in Holding /\ job'[posLock'[p]].pos = p
  <2>1. CASE posLock[p] # q
    BY <1>1, <1>2, <2>1, ProcsApart DEF LockStep
  <2>2. CASE posLock[p] = q
    <3>1. pc[q] \in Holding /\ job[q].pos = p /\ q \in Workers /\ q # None
      BY <1>1, <1>2, <2>2, ProcsApart
    <3>2. posLock' # [posLock EXCEPT ![job[q].pos] = None]
      BY <1>1, <1>2, <2>2, <3>1
    <3> QED BY <1>2, <2>2, <3>1, <3>2 DEF LockStep
  <2> QED BY <2>1, <2>2
<1>3. ASSUME posLock'[p] # posLock[p]
      PROVE  pc'[posLock'[p]] \in Holding /\ job'[posLock'[p]].pos = p
  <2>1. ~(posLock' = [posLock EXCEPT ![job[q].pos] = None])
    BY <1>1, <1>3
  <2>2. /\ pc'[q] \in Holding /\ job'[q] = job[q]
        /\ posLock' = [posLock EXCEPT ![job[q].pos] = q]
    BY <1>3, <2>1 DEF LockStep
  <2>3. job[q].pos = p /\ posLock'[p] = q
    BY <1>1, <1>3, <2>2
  <2> QED BY <2>2, <2>3
<1> QED BY <1>2, <1>3

-----------------------------------------------------------------------------
(* The actions of a worker, of a caller, and a crash.                       *)

LEMMA ReturnLockStep ==
  ASSUME SizeInv, NEW w \in Workers, pc[w] \in Holding, Return(w)
  PROVE  /\ LockStep(w)
         /\ pc'[w] \notin Keeping /\ snap'[w] = NoPosition
         /\ \A g \in Procs \ {w} : snap'[g] = snap[g]
<1>1. IInv
  BY DEF SizeInv
<1>2. /\ \A g \in Procs : g # w =>
           pc'[g] = pc[g] /\ job'[g] = job[g] /\ snap'[g] = snap[g]
      /\ pc'[w] = "idle" /\ snap'[w] = NoPosition
  BY <1>1, ProcsApart DEF Return, Finish, Goto, IInv, TypeOK
<1>3. posLock' = [posLock EXCEPT ![job[w].pos] = None]
  BY DEF Return
<1> QED BY <1>2, <1>3 DEF LockStep, Keeping, HasCopy, Executing, Filled

(* A worker that returns, having perhaps written its copy to the Store.     *)
LEMMA ReturnQuiet ==
  ASSUME SizeInv, NEW w \in Workers, pc[w] \in Holding, Return(w),
         UNCHANGED <<swaps, moved>>, lost \subseteq lost',
         \/ UNCHANGED store
         \/ pc[w] \in Keeping /\ store' = [store EXCEPT ![job[w].pos] = snap[w]]
  PROVE  Quiet(w) /\ LockStep(w)
<1>1. \A p \in Positions :
        \/ store'[p] = store[p]
        \/ pc[w] \in Keeping /\ job[w].pos = p /\ store'[p] = snap[w]
  BY DEF SizeInv, IInv, TypeOK
<1>2. LockStep(w) /\ (\A g \in Procs \ {w} : pc'[g] = pc[g] /\ job'[g] = job[g])
  BY ReturnLockStep DEF LockStep
<1>3. /\ pc'[w] \notin Keeping /\ snap'[w] = NoPosition
      /\ \A g \in Procs \ {w} : snap'[g] = snap[g]
  BY ReturnLockStep
<1> QED BY <1>1, <1>2, <1>3 DEF Quiet

(* A worker that goes on, holding the lock, with a copy that derives from   *)
(* the one it has.                                                          *)
LEMMA GoOnQuiet ==
  ASSUME SizeInv, NEW w \in Workers, pc[w] \in HasCopy, NEW place \in HasCopy,
         Goto(w, place), UNCHANGED <<swaps, moved, lost, posLock, job>>,
         NEW rec, snap' = [snap EXCEPT ![w] = rec], Derived(rec, snap[w]),
         \/ UNCHANGED store
         \/ store' = [store EXCEPT ![job[w].pos] = snap[w]]
  PROVE  Quiet(w) /\ LockStep(w)
<1>1. w \in Procs /\ pc[w] \in Holding /\ place \in Holding
  BY ProcsApart DEF Holding
<1>2. /\ \A g \in Procs \ {w} : pc'[g] = pc[g] /\ snap'[g] = snap[g]
      /\ pc'[w] = place /\ snap'[w] = rec
  BY <1>1 DEF Goto, SizeInv, IInv, TypeOK
<1>3. \A p \in Positions :
        \/ store'[p] = store[p]
        \/ job[w].pos = p /\ store'[p] = snap[w]
  BY DEF SizeInv, IInv, TypeOK
<1> QED BY <1>1, <1>2, <1>3 DEF Quiet, LockStep, Keeping

LEMMA WorkerQuiet ==
  ASSUME SizeInv, NEW w \in Workers, WorkerStep(w), UNCHANGED <<swaps, moved>>
  PROVE  Quiet(w) /\ LockStep(w)
<1> USE DEF historyVars
<1>1. w \in Procs /\ IInv /\ snap[w] \in PositionRecord /\ Derived(snap[w], snap[w])
  BY ProcsApart, DerivedItself DEF SizeInv, IInv, TypeOK
<1>2. snap = [snap EXCEPT ![w] = snap[w]]
  BY <1>1 DEF IInv, TypeOK
<1>3. ASSUME TakeEvent(w) PROVE Quiet(w) /\ LockStep(w)
  <2>1. /\ \A g \in Procs : g # w => pc'[g] = pc[g] /\ job'[g] = job[g]
        /\ pc'[w] = "lock" /\ pc[w] = "idle"
        /\ UNCHANGED <<posLock, snap, store, lost>>
    BY <1>1, <1>3 DEF TakeEvent, Goto, NowIs, IInv, TypeOK
  <2> QED
    BY <2>1 DEF Quiet, LockStep, Keeping, Holding, HasCopy, Executing, Filled
<1>4. ASSUME LockPosition(w) PROVE Quiet(w) /\ LockStep(w)
  <2>1. /\ \A g \in Procs : g # w => pc'[g] = pc[g]
        /\ pc'[w] = "load" /\ pc[w] = "lock"
        /\ UNCHANGED <<job, snap, store, lost>>
        /\ posLock' = [posLock EXCEPT ![job[w].pos] = w]
    BY <1>1, <1>4 DEF LockPosition, Goto, NowIs, IInv, TypeOK
  <2> QED
    BY <2>1 DEF Quiet, LockStep, Keeping, Holding, HasCopy, Executing, Filled
<1>5. ASSUME Load(w) PROVE Quiet(w) /\ LockStep(w)
  <2>1. pc[w] = "load" /\ pc[w] \in Holding /\ UNCHANGED <<store, lost>>
    BY <1>5 DEF Load, NowIs, Holding
  <2>2. CASE Return(w)
    BY <2>1, <2>2, ReturnQuiet
  <2>3. CASE ~Return(w)
    <3>1. /\ snap' = [snap EXCEPT ![w] = store[job[w].pos]]
          /\ Goto(w, "allow") /\ UNCHANGED <<posLock, job>>
      BY <1>5, <2>3 DEF Load
    <3>2. /\ \A g \in Procs : g # w => pc'[g] = pc[g] /\ snap'[g] = snap[g]
          /\ pc'[w] = "allow" /\ snap'[w] = store[job[w].pos]
          /\ job[w].pos \in Positions
      BY <1>1, <2>1, <3>1 DEF Goto, IInv, TypeOK
    <3>3. Derived(snap'[w], store[job'[w].pos])
      BY <3>1, <3>2, DerivedItself
    <3> QED
      BY <2>1, <3>1, <3>2, <3>3 DEF Quiet, LockStep, Holding, HasCopy, Executing
  <2> QED BY <2>2, <2>3
<1>6. ASSUME Allow(w) PROVE Quiet(w) /\ LockStep(w)
  <2>1. /\ pc[w] = "allow" /\ pc[w] \in HasCopy /\ pc[w] \in Holding
        /\ UNCHANGED <<store, lost>>
    BY <1>6 DEF Allow, NowIs, Holding, HasCopy, Executing
  <2>2. CASE RetryLater(w)
    BY <2>1, <2>2, ReturnQuiet DEF RetryLater
  <2>3. CASE ~RetryLater(w)
    <3> DEFINE place == IF snap[w].permit THEN "permit" ELSE "submit"
    <3>1. Goto(w, place) /\ UNCHANGED <<posLock, job, snap>>
      BY <1>6, <2>3 DEF Allow
    <3>2. place \in HasCopy
      BY DEF HasCopy, Executing
    <3> HIDE DEF place
    <3> QED BY <1>1, <1>2, <2>1, <3>1, <3>2, GoOnQuiet
  <2> QED BY <2>2, <2>3
<1>7. ASSUME PermitIsExpired(w) PROVE Quiet(w) /\ LockStep(w)
  <2> DEFINE rec == Mark(snap[w], ActiveLevels(snap[w]), "suspended")
  <2>1. Derived(rec, snap[w])
    BY <1>1, MarkKeeps DEF LevelStatus
  <2>2. /\ pc[w] \in HasCopy /\ "suspend" \in HasCopy
        /\ Goto(w, "suspend") /\ snap' = [snap EXCEPT ![w] = rec]
        /\ UNCHANGED <<store, lost, posLock, job>>
    BY <1>7 DEF PermitIsExpired, NowIs, HasCopy, Executing
  <2> HIDE DEF rec
  <2> QED BY <2>1, <2>2, GoOnQuiet
<1>8. ASSUME PermitIsActivated(w) PROVE Quiet(w) /\ LockStep(w)
  <2>1. /\ pc[w] \in HasCopy /\ "submit" \in HasCopy /\ Goto(w, "submit")
        /\ UNCHANGED <<store, lost, posLock, job, snap>>
    BY <1>8 DEF PermitIsActivated, NowIs, HasCopy, Executing
  <2> QED BY <1>1, <1>2, <2>1, GoOnQuiet
<1>9. ASSUME ActivatePermit(w) PROVE Quiet(w) /\ LockStep(w)
  <2>1. /\ pc[w] \in HasCopy /\ pc[w] \in Holding /\ "saveActivation" \in HasCopy
        /\ UNCHANGED <<store, lost>>
    BY <1>9 DEF ActivatePermit, NowIs, Holding, HasCopy, Executing
  <2>2. CASE RetryLater(w)
    BY <2>1, <2>2, ReturnQuiet DEF RetryLater
  <2>3. CASE ~RetryLater(w)
    <3> DEFINE rec == [snap[w] EXCEPT !.activated = TRUE]
    <3>1. Derived(rec, snap[w])
      BY <1>1 DEF Derived, Triggered, PositionRecord
    <3>2. /\ Goto(w, "saveActivation") /\ snap' = [snap EXCEPT ![w] = rec]
          /\ UNCHANGED <<posLock, job>>
      BY <1>9, <2>3 DEF ActivatePermit
    <3> HIDE DEF rec
    <3> QED BY <2>1, <3>1, <3>2, GoOnQuiet
  <2> QED BY <2>2, <2>3
<1>10. ASSUME SaveActivation(w) PROVE Quiet(w) /\ LockStep(w)
  <2>1. /\ pc[w] \in HasCopy /\ "submit" \in HasCopy /\ Goto(w, "submit")
        /\ UNCHANGED <<lost, posLock, job, snap>>
        /\ \/ UNCHANGED store
           \/ store' = [store EXCEPT ![job[w].pos] = snap[w]]
    BY <1>10 DEF SaveActivation, NowIs, HasCopy, Executing
  <2> QED BY <1>1, <1>2, <2>1, GoOnQuiet
<1>11. ASSUME SuspendLevel(w) \/ RetireLevel(w) PROVE Quiet(w) /\ LockStep(w)
  <2>1. /\ pc[w] \in HasCopy /\ UNCHANGED <<store, lost, posLock, pc, job, snap>>
    BY <1>11 DEF SuspendLevel, RetireLevel, NowIs, HasCopy, Filled
  <2>2. Goto(w, pc[w])
    BY <1>1, <2>1 DEF Goto, IInv, TypeOK
  <2> QED BY <1>1, <1>2, <2>1, <2>2, GoOnQuiet
<1>12. ASSUME SaveSuspension(w) PROVE Quiet(w) /\ LockStep(w)
  <2>1. /\ pc[w] \in Keeping /\ pc[w] \in Holding /\ Return(w)
        /\ UNCHANGED lost
        /\ \/ UNCHANGED store
           \/ store' = [store EXCEPT ![job[w].pos] = snap[w]]
    BY <1>12 DEF SaveSuspension, NowIs, Keeping, Holding, HasCopy
  <2> QED BY <2>1, ReturnQuiet
<1>13. ASSUME SubmitSwap(w) PROVE Quiet(w) /\ LockStep(w)
  <2>1. /\ pc[w] \in HasCopy /\ pc[w] \in Holding /\ "receipt" \in HasCopy
        /\ UNCHANGED store /\ lost \subseteq lost'
    BY <1>13 DEF SubmitSwap, NowIs, Holding, HasCopy, Executing
  <2>2. CASE RetryLater(w)
    BY <2>1, <2>2, ReturnQuiet DEF RetryLater
  <2>3. CASE ~RetryLater(w)
    <3>1. Goto(w, "receipt") /\ UNCHANGED <<posLock, job, snap, lost>>
      BY <1>13, <2>3 DEF SubmitSwap
    <3> QED BY <1>1, <1>2, <2>1, <3>1, GoOnQuiet
  <2> QED BY <2>2, <2>3
<1>14. ASSUME SwapReverted(w) PROVE Quiet(w) /\ LockStep(w)
  <2>1. pc[w] \in Holding /\ Return(w) /\ UNCHANGED <<store, lost>>
    BY <1>14 DEF SwapReverted, RetryLater, NowIs, Holding, HasCopy, Executing
  <2> QED BY <2>1, ReturnQuiet
<1>15. ASSUME PersistFill(w) PROVE Quiet(w) /\ LockStep(w)
  <2>1. pc[w] \in HasCopy /\ pc[w] \in Holding /\ "retire" \in HasCopy
    BY <1>15 DEF PersistFill, NowIs, Holding, HasCopy, Filled
  <2>2. CASE UNCHANGED store /\ Return(w) /\ lost \subseteq lost'
    BY <2>1, <2>2, ReturnQuiet
  <2>3. CASE /\ store' = [store EXCEPT ![job[w].pos] = snap[w]]
             /\ Goto(w, "retire") /\ UNCHANGED <<posLock, job, snap, lost>>
    BY <1>1, <1>2, <2>1, <2>3, GoOnQuiet
  <2> QED BY <1>15, <2>2, <2>3 DEF PersistFill
<1>16. ASSUME ReportExecution(w) PROVE Quiet(w) /\ LockStep(w)
  <2>1. pc[w] \in Holding /\ Return(w) /\ UNCHANGED <<store, lost>>
    BY <1>16 DEF ReportExecution, NowIs, Holding, HasCopy, Filled
  <2> QED BY <2>1, ReturnQuiet
<1>17. ~SwapMined(w)
  <2> SUFFICES ASSUME SwapMined(w) PROVE FALSE
    OBVIOUS
  <2>1. /\ LevelOf(w) \in LevelId
        /\ swaps'[LevelOf(w)] = swaps[LevelOf(w)] + 1 /\ swaps[LevelOf(w)] \in Nat
    BY <1>1 DEF SwapMined, NowIs, Mined, LevelOf, LevelId, IInv, TypeOK, Job
  <2> QED BY <2>1
<1> QED
  BY <1>3, <1>4, <1>5, <1>6, <1>7, <1>8, <1>9, <1>10, <1>11, <1>12, <1>13, <1>14, <1>15,
     <1>16, <1>17 DEF WorkerStep

(* The swap of a transaction that looked refused: its record is lost.       *)
LEMMA SwapLost ==
  ASSUME SizeInv, NEW w \in Workers, pc[w] \in HasCopy, Return(w), Mined({w}),
         UNCHANGED store, lost' = lost \cup {LevelOf(w)}
  PROVE  SharesInv' /\ SoundInv' /\ OwnerInv'
<1>1. w \in Procs /\ pc[w] \in Holding /\ w # None
  BY ProcsApart DEF Holding
<1>2. /\ LockStep(w) /\ pc'[w] \notin Keeping /\ snap'[w] = NoPosition
      /\ \A g \in Procs \ {w} : pc'[g] = pc[g] /\ job'[g] = job[g] /\ snap'[g] = snap[g]
  BY <1>1, ReturnLockStep DEF LockStep
<1>3. SharesInv'
  BY <1>2, NoPositionShares DEF SizeInv, SharesInv, Shares
<1>4. ASSUME NEW p \in Positions, Intact(p)'
      PROVE  /\ Sound(store[p], p)'
             /\ \A g \in Procs : (pc'[g] \in Keeping /\ job'[g].pos = p) => Sound(snap[g], p)'
  <2>1. Intact(p) /\ \A l \in Slots : <<p, l>> # LevelOf(w)
    BY <1>4 DEF Intact
  <2>2. job[w].pos # p
    BY <1>1, <2>1 DEF LevelOf, SizeInv, IInv, TypeOK, Job
  <2>3. posLock[p] # w
    BY <1>1, <2>2 DEF SizeInv, OwnerInv
  <2>4. moved'[p] = moved[p] /\ \A l \in Slots : swaps'[<<p, l>>] = swaps[<<p, l>>]
    BY <2>1, <2>3 DEF Mined, LevelId
  <2>5. \A rec : Sound(rec, p) =>
          /\ \A l \in Slots : Triggered(rec, l) => swaps'[<<p, l>>] > 0
          /\ (\A l \in Slots : swaps'[<<p, l>>] > 0 => Triggered(rec, l))
               => moved'[p] + rec.remaining = rec.size
    BY <2>4 DEF Sound, Knows
  <2>6. Sound(store[p], p)'
    BY <2>1, <2>5 DEF SizeInv, SoundInv, Sound, Knows, Triggered
  <2>7. ASSUME NEW g \in Procs, pc'[g] \in Keeping, job'[g].pos = p
        PROVE  Sound(snap[g], p)'
    <3>1. g # w /\ pc[g] \in Keeping /\ job[g].pos = p /\ snap'[g] = snap[g]
      BY <1>2, <2>7
    <3>2. Sound(snap[g], p)
      BY <2>1, <3>1 DEF SizeInv, SoundInv
    <3> QED BY <2>5, <3>1, <3>2 DEF Sound, Knows, Triggered
  <2> QED BY <2>6, <2>7
<1> QED BY <1>1, <1>2, <1>3, <1>4, LockStepKeeps DEF SoundInv

(* The swap of a transaction that was waited for.  No other record of the   *)
(* position marks the level, so none of them knows all the swaps any more;  *)
(* the worker's copy knew them all, and takes what was sold from what       *)
(* remains.                                                                 *)
LEMMA SwapMinedSize ==
  ASSUME SizeInv, NEW w \in Workers, SwapMined(w)
  PROVE  SharesInv' /\ SoundInv' /\ OwnerInv'
<1> DEFINE at == job[w].pos
           lv == job[w].lvl
           filled == Fill(snap[w], lv)
<1>1. /\ pc[w] = "receipt"
      /\ snap' = [snap EXCEPT ![w] = filled] /\ Goto(w, "persist")
      /\ UNCHANGED <<store, posLock, job, lost>>
  BY DEF SwapMined, NowIs
<1>2. /\ w \in Procs /\ w # None /\ IInv /\ at \in Positions /\ lv \in Slots
      /\ snap[w] \in PositionRecord
      /\ pc[w] \in HasCopy /\ pc[w] \in Holding
  BY <1>1, ProcsApart DEF SizeInv, IInv, TypeOK, Job, Holding, HasCopy, Executing
<1>3. /\ \A g \in Procs \ {w} : pc'[g] = pc[g] /\ snap'[g] = snap[g]
      /\ pc'[w] = "persist" /\ snap'[w] = filled
  BY <1>1, <1>2 DEF Goto, IInv, TypeOK
<1>4. LockStep(w)
  BY <1>1, <1>2, <1>3 DEF LockStep, Holding, HasCopy, Filled
<1>5. /\ filled.size = snap[w].size
      /\ filled.remaining = RemainingAfter(snap[w], lv)
      /\ filled.state # "none"
      /\ \A i \in Slots : /\ filled.levels[i].portion = snap[w].levels[i].portion
                          /\ Triggered(filled, i) => i = lv \/ Triggered(snap[w], i)
  BY <1>2, FillKeeps
<1>6. \A i \in Slots : i = lv \/ Triggered(snap[w], i) => Triggered(filled, i)
  BY <1>2, FillType DEF Triggered
<1>7. Shares(snap[w])
  BY <1>2 DEF SizeInv, SharesInv
<1>8. RemainingAfter(snap[w], lv) + Amount(w) = snap[w].remaining /\ Amount(w) \in Nat
  BY <1>2, <1>7, ShareFits, AmountType DEF Amount
<1> HIDE DEF filled
<1>9. SharesInv'
  <2>1. Shares(filled)
    BY <1>5, <1>7 DEF Shares
  <2>2. \A g \in Procs : Shares(snap'[g])
    BY <1>3, <2>1 DEF SizeInv, SharesInv
  <2> QED BY <1>1, <2>2 DEF SizeInv, SharesInv, Shares
<1>10. ASSUME NEW p \in Positions, Intact(p), p # at
       PROVE  \A rec : Sound(rec, p) =>
                /\ \A l \in Slots : Triggered(rec, l) => swaps'[<<p, l>>] > 0
                /\ (\A l \in Slots : swaps'[<<p, l>>] > 0 => Triggered(rec, l))
                     => moved'[p] + rec.remaining = rec.size
  <2>1. posLock[p] # w
    BY <1>2, <1>10 DEF SizeInv, OwnerInv
  <2>2. moved'[p] = moved[p] /\ \A l \in Slots : swaps'[<<p, l>>] = swaps[<<p, l>>]
    BY <1>10, <2>1 DEF SwapMined, Mined, LevelId, LevelOf
  <2> QED BY <2>2 DEF Sound, Knows
<1>11. ASSUME Intact(at)
       PROVE  /\ ~Triggered(snap[w], lv) /\ swaps[<<at, lv>>] = 0
              /\ \A l \in Slots : swaps'[<<at, l>>] =
                   IF l = lv THEN swaps[<<at, l>>] + 1 ELSE swaps[<<at, l>>]
              /\ moved'[at] = moved[at] + Amount(w)
              /\ Knows(snap[w], at)
  <2>1. snap[w].levels[lv].status = "active"
    BY <1>1, <1>2 DEF IInv, CopyInv, Executing
  <2>2. ~Triggered(snap[w], lv)
    BY <2>1 DEF Triggered
  <2>3. Knows(snap[w], at)
    BY <1>2, <1>11 DEF IInv, CopyInv, Knows, Intact
  <2>4. swaps[<<at, lv>>] = 0
    BY <1>2, <2>2, <2>3 DEF Knows, IInv, TypeOK, LevelId
  <2>5. \A l \in Slots : swaps'[<<at, l>>] =
          IF l = lv THEN swaps[<<at, l>>] + 1 ELSE swaps[<<at, l>>]
    BY <1>2 DEF SwapMined, Mined, LevelId, LevelOf
  <2>6. posLock[at] = w
    BY <1>2 DEF IInv, LockInv
  <2>7. moved'[at] = moved[at] + Amount(w)
    BY <1>2, <2>6 DEF SwapMined, Mined
  <2> QED BY <2>2, <2>3, <2>4, <2>5, <2>7
<1>12. ASSUME Intact(at)
       PROVE  \A rec : Sound(rec, at) =>
                /\ \A l \in Slots : Triggered(rec, l) => swaps'[<<at, l>>] > 0
                /\ ~ \A l \in Slots : swaps'[<<at, l>>] > 0 => Triggered(rec, l)
  <2> SUFFICES ASSUME NEW rec, Sound(rec, at)
               PROVE  /\ \A l \in Slots : Triggered(rec, l) => swaps'[<<at, l>>] > 0
                      /\ ~ \A l \in Slots : swaps'[<<at, l>>] > 0 => Triggered(rec, l)
    OBVIOUS
  <2>1. \A l \in Slots : Triggered(rec, l) => l # lv /\ swaps[<<at, l>>] > 0
    BY <1>2, <1>11, <1>12 DEF Sound
  <2>2. swaps'[<<at, lv>>] > 0 /\ ~Triggered(rec, lv)
    BY <1>2, <1>11, <1>12, <2>1
  <2> QED BY <1>2, <1>11, <1>12, <2>1, <2>2
<1>13. ASSUME Intact(at)
       PROVE  /\ \A l \in Slots : Triggered(filled, l) => swaps'[<<at, l>>] > 0
              /\ moved'[at] + filled.remaining = filled.size
  <2>1. Sound(snap[w], at)
    BY <1>2, <1>13 DEF SizeInv, SoundInv, Keeping
  <2>2. moved[at] + snap[w].remaining = snap[w].size /\ moved[at] \in Nat
        /\ RemainingAfter(snap[w], lv) \in Nat
    BY <1>2, <1>11, <1>13, <2>1, AmountType DEF Sound, IInv, TypeOK
  <2>3. moved'[at] + filled.remaining = filled.size
    BY <1>5, <1>8, <1>11, <1>13, <2>2
  <2>4. \A l \in Slots : Triggered(filled, l) => swaps'[<<at, l>>] > 0
    BY <1>2, <1>5, <1>11, <1>13, <2>1 DEF Sound
  <2> QED BY <2>3, <2>4
<1>14. ASSUME NEW p \in Positions, Intact(p)'
       PROVE  /\ Sound(store[p], p)'
              /\ \A g \in Procs : (pc'[g] \in Keeping /\ job'[g].pos = p) => Sound(snap[g], p)'
  <2>1. Intact(p)
    BY <1>1, <1>14 DEF Intact
  <2>2. \A rec : Sound(rec, p) =>
          /\ \A l \in Slots : Triggered(rec, l) => swaps'[<<p, l>>] > 0
          /\ (\A l \in Slots : swaps'[<<p, l>>] > 0 => Triggered(rec, l))
               => moved'[p] + rec.remaining = rec.size
    BY <1>10, <1>12, <2>1
  <2>3. Sound(store[p], p)'
    BY <1>1, <2>1, <2>2 DEF SizeInv, SoundInv, Sound, Knows, Triggered
  <2>4. ASSUME NEW g \in Procs, g # w, pc'[g] \in Keeping, job'[g].pos = p
        PROVE  Sound(snap[g], p)'
    <3>1. pc[g] \in Keeping /\ job[g].pos = p /\ snap'[g] = snap[g]
      BY <1>1, <1>3, <2>4
    <3>2. Sound(snap[g], p)
      BY <2>1, <3>1 DEF SizeInv, SoundInv
    <3> QED BY <2>2, <3>1, <3>2 DEF Sound, Knows, Triggered
  <2>5. job'[w].pos = p => Sound(snap[w], p)'
    BY <1>1, <1>3, <1>13, <2>1 DEF Sound, Knows, Triggered
  <2> QED BY <2>3, <2>4, <2>5
<1> QED BY <1>2, <1>4, <1>9, <1>14, LockStepKeeps DEF SoundInv

LEMMA WorkerSize ==
  ASSUME SizeInv, NEW w \in Workers, WorkerStep(w)
  PROVE  SharesInv' /\ SoundInv' /\ OwnerInv'
<1>1. CASE UNCHANGED <<swaps, moved>>
  BY <1>1, WorkerQuiet, QuietKeeps, LockStepKeeps, ProcsApart
<1>2. CASE SwapMined(w)
  BY <1>2, SwapMinedSize
<1>3. CASE SubmitSwap(w) /\ ~UNCHANGED <<swaps, moved>>
  <2>1. /\ pc[w] \in HasCopy /\ Return(w) /\ Mined({w}) /\ UNCHANGED store
        /\ lost' = lost \cup {LevelOf(w)}
    BY <1>3 DEF SubmitSwap, NowIs, HasCopy, Executing, RetryLater, historyVars
  <2> QED BY <2>1, SwapLost
<1>4. CASE ~SwapMined(w) /\ ~SubmitSwap(w)
  <2>1. UNCHANGED <<swaps, moved>>
    BY <1>4 DEF WorkerStep, TakeEvent, LockPosition, Load, Allow, PermitIsExpired,
       PermitIsActivated, ActivatePermit, SaveActivation, SuspendLevel, SaveSuspension,
       SwapReverted, PersistFill, RetireLevel, ReportExecution, historyVars
  <2> QED BY <1>1, <2>1
<1> QED BY <1>1, <1>2, <1>3, <1>4

(* A call reads the record of an open position and works on a copy that     *)
(* derives from it.                                                         *)
LEMMA BeginSize ==
  ASSUME SizeInv, NEW h \in Callers, NEW op, NEW p \in Positions, NEW rec, NEW S,
         Begin(h, op, p, rec, S), Derived(rec, store[p])
  PROVE  SharesInv' /\ SoundInv' /\ OwnerInv'
<1>1. /\ h \in Procs /\ h \notin Workers
      /\ \A g \in Procs \ {h} : pc'[g] = pc[g] /\ job'[g] = job[g] /\ snap'[g] = snap[g]
      /\ job'[h] = JobOn(op, p) /\ JobOn(op, p).pos = p /\ snap'[h] = rec
      /\ UNCHANGED <<store, posLock, swaps, moved, lost>>
  BY ProcsApart DEF Begin, Goto, SizeInv, IInv, TypeOK, historyVars, JobOn
<1>2. Quiet(h)
  BY <1>1 DEF Quiet
<1>3. LockStep(h)
  BY <1>1 DEF LockStep
<1> QED BY <1>1, <1>2, <1>3, QuietKeeps, LockStepKeeps

LEMMA ValidPlanGives ==
  ASSUME NEW plan, NEW n, ValidPlan(plan, n)
  PROVE  /\ plan.remaining = plan.size
         /\ \A l \in Slots : plan.levels[l].status \in {"absent", "active"}
<1>1. plan.remaining = plan.size
  BY DEF ValidPlan
<1>2. \A i \in Slots \ WithStatus(plan, "absent") : plan.levels[i].status = "active"
  BY DEF ValidPlan
<1> QED BY <1>1, <1>2 DEF WithStatus

(* Of a position that was never saved nothing has been sold.                *)
LEMMA SavePositionSize ==
  ASSUME PortionsAreShares, SizeInv, NEW h \in Callers, NEW p \in Positions,
         NEW plan \in Plans, SavePosition(h, p, plan)
  PROVE  SharesInv' /\ SoundInv' /\ OwnerInv'
<1>1. /\ h \in Procs /\ h \notin Workers
      /\ \A g \in Procs \ {h} : pc'[g] = pc[g] /\ job'[g] = job[g] /\ snap'[g] = snap[g]
      /\ pc'[h] \notin Keeping /\ snap'[h] = plan
      /\ UNCHANGED <<posLock, swaps, moved, lost>>
      /\ \A q \in Positions : store'[q] = IF q = p THEN plan ELSE store[q]
  BY ProcsApart
  DEF SavePosition, Goto, SizeInv, IInv, TypeOK, historyVars, Keeping, HasCopy, Executing,
      Filled
<1>2. LockStep(h)
  BY <1>1 DEF LockStep
<1>3. plan \in PositionRecord /\ plan.state = "active" /\ plan.remaining = plan.size
  BY ManagerAssumption, ValidPlanGives DEF SavePosition
<1>4. Shares(plan)
  BY <1>3 DEF Shares, PortionsAreShares
<1>5. SharesInv'
  BY <1>1, <1>4 DEF SizeInv, SharesInv, Shares
<1>6. \A l \in Slots : ~Triggered(plan, l)
  BY ValidPlanGives DEF SavePosition, Triggered
<1>7. /\ store[p].remaining = store[p].size /\ store[p] \in PositionRecord
      /\ \A l \in Slots : ~Triggered(store[p], l)
  BY DEF SavePosition, SizeInv, SharesInv, Shares, IInv, SaneInv, Sane, TypeOK
<1>8. ASSUME Intact(p) PROVE Sound(plan, p)
  <2>1. Sound(store[p], p)
    BY <1>8 DEF SizeInv, SoundInv
  <2>2. SUFFICES ASSUME Knows(plan, p) PROVE moved[p] + plan.remaining = plan.size
    BY <1>6 DEF Sound
  <2>3. Knows(store[p], p)
    BY <1>6, <2>2 DEF Knows
  <2>4. moved[p] + store[p].remaining = store[p].size /\ moved[p] \in Nat
        /\ store[p].remaining \in Nat /\ plan.remaining \in Nat
    BY <1>3, <1>7, <2>1, <2>3 DEF Sound, SizeInv, IInv, TypeOK, PositionRecord
  <2> QED BY <1>3, <1>7, <2>4
<1>9. ASSUME NEW q \in Positions, Intact(q)'
      PROVE  /\ Sound(store[q], q)'
             /\ \A g \in Procs : (pc'[g] \in Keeping /\ job'[g].pos = q) => Sound(snap[g], q)'
  <2>1. Intact(q)
    BY <1>1, <1>9 DEF Intact
  <2>2. Sound(store'[q], q)
    BY <1>1, <1>8, <2>1 DEF SizeInv, SoundInv
  <2>3. ASSUME NEW g \in Procs, pc'[g] \in Keeping, job'[g].pos = q
        PROVE  Sound(snap'[g], q)
    BY <1>1, <2>1, <2>3 DEF SizeInv, SoundInv
  <2> QED BY <1>1, <2>2, <2>3 DEF Sound, Knows, Triggered
<1> QED BY <1>1, <1>2, <1>5, <1>9, LockStepKeeps DEF SoundInv

LEMMA CallSize ==
  ASSUME PortionsAreShares, SizeInv, NEW h \in Callers, Call(h)
  PROVE  SharesInv' /\ SoundInv' /\ OwnerInv'
<1>1. ASSUME NEW p \in Positions PROVE store[p] \in PositionRecord
  BY DEF SizeInv, IInv, TypeOK
<1>2. /\ {"active", "suspended", "cancelled"} \subseteq LevelStatus \ {"triggered"}
  BY DEF LevelStatus
<1>3. ASSUME NEW p \in Positions, NEW plan \in Plans, SavePosition(h, p, plan)
      PROVE  SharesInv' /\ SoundInv' /\ OwnerInv'
  BY <1>3, SavePositionSize
<1>4. ASSUME NEW p \in Positions, CancelPosition(h, p)
      PROVE  SharesInv' /\ SoundInv' /\ OwnerInv'
  <2> DEFINE m == Mark(store[p], ActiveLevels(store[p]), "cancelled")
             r == [m EXCEPT !.state = "cancelled"]
  <2>1. m \in PositionRecord /\ Derived(m, store[p])
    BY <1>1, <1>2, MarkType, MarkKeeps
  <2>2. Derived(r, store[p])
    <3> HIDE DEF m
    <3> QED BY <2>1 DEF Derived, Triggered, PositionRecord
  <2>3. Begin(h, "cancel", p, r, ActiveLevels(store[p]))
    BY <1>4 DEF CancelPosition
  <2> HIDE DEF r
  <2> QED BY <2>2, <2>3, BeginSize
<1>5. ASSUME NEW p \in Positions, NEW l \in Slots, NEW price \in Prices,
             UpdateLevel(h, p, l, price)
      PROVE  SharesInv' /\ SoundInv' /\ OwnerInv'
  BY <1>1, <1>5, SetTriggerKeeps, BeginSize DEF UpdateLevel
<1>6. ASSUME NEW p \in Positions, NEW l \in Slots, NEW lv \in NewLevels, AddLevel(h, p, l, lv)
      PROVE  SharesInv' /\ SoundInv' /\ OwnerInv'
  <2> DEFINE r == [store[p] EXCEPT !.levels[l] = lv]
  <2>1. lv.status = "active" /\ lv.portion <= 10000
    BY ManagerAssumption DEF PortionsAreShares
  <2>2. /\ r.state = store[p].state /\ r.size = store[p].size
        /\ r.remaining = store[p].remaining
        /\ \A i \in Slots : r.levels[i] = IF i = l THEN lv ELSE store[p].levels[i]
    BY <1>1 DEF PositionRecord
  <2>3. Begin(h, "addLevel", p, r, {l})
    BY <1>6 DEF AddLevel
  <2> HIDE DEF r
  <2>4. Derived(r, store[p])
    BY <2>1, <2>2 DEF Derived, Triggered
  <2> QED BY <2>3, <2>4, BeginSize
<1>7. ASSUME NEW p \in Positions, NEW l \in Slots, RemoveLevel(h, p, l)
      PROVE  SharesInv' /\ SoundInv' /\ OwnerInv'
  BY <1>1, <1>2, <1>7, MarkKeeps, BeginSize DEF RemoveLevel
<1>8. ASSUME NEW p \in Positions, NEW deadline \in Deadlines, RenewPermit(h, p, deadline)
      PROVE  SharesInv' /\ SoundInv' /\ OwnerInv'
  <2> DEFINE S == WithStatus(store[p], "suspended")
             m == Mark(store[p], S, "active")
             r == [m EXCEPT !.permit = TRUE, !.deadline = deadline, !.activated = FALSE]
  <2>1. m \in PositionRecord /\ Derived(m, store[p])
    BY <1>1, <1>2, MarkType, MarkKeeps
  <2>2. Derived(r, store[p])
    <3> HIDE DEF m
    <3> QED BY <2>1 DEF Derived, Triggered, PositionRecord
  <2>3. Begin(h, "renew", p, r, S)
    BY <1>8 DEF RenewPermit
  <2> HIDE DEF r, S
  <2> QED BY <2>2, <2>3, BeginSize
<1>9. ASSUME NEW p \in Positions, SuspendExpired(h, p)
      PROVE  SharesInv' /\ SoundInv' /\ OwnerInv'
  BY <1>1, <1>2, <1>9, MarkKeeps, BeginSize DEF SuspendExpired
<1> QED BY <1>3, <1>4, <1>5, <1>6, <1>7, <1>8, <1>9 DEF Call

LEMMA CallerSize ==
  ASSUME SizeInv, NEW h \in Callers, CallerStep(h)
  PROVE  SharesInv' /\ SoundInv' /\ OwnerInv'
<1>1. h \in Procs /\ h \notin Workers /\ UNCHANGED <<posLock, swaps, moved>>
      /\ lost \subseteq lost'
  BY ProcsApart DEF CallerStep, ApplyToEngine, OpenReturns, SaveCall, historyVars
<1>2. \A g \in Procs \ {h} : pc'[g] = pc[g] /\ job'[g] = job[g] /\ snap'[g] = snap[g]
  BY <1>1
  DEF CallerStep, ApplyToEngine, OpenReturns, SaveCall, Finish, Goto, SizeInv, IInv, TypeOK
<1>3. LockStep(h)
  BY <1>1, <1>2 DEF LockStep
<1>4. \A p \in Positions :
        \/ store'[p] = store[p]
        \/ pc[h] \in Keeping /\ job[h].pos = p /\ store'[p] = snap[h]
  BY DEF CallerStep, ApplyToEngine, OpenReturns, SaveCall, NowIs, Keeping, SizeInv, IInv,
     TypeOK
<1>5. \/ pc'[h] \notin Keeping /\ snap'[h] \in {NoPosition, snap[h]}
      \/ pc[h] \in Keeping /\ job'[h] = job[h] /\ Derived(snap'[h], snap[h])
  <2>1. CASE ApplyToEngine(h)
    BY <2>1, DerivedItself DEF ApplyToEngine
  <2>2. CASE Finish(h)
    BY <1>1, <2>2
    DEF Finish, Goto, Keeping, HasCopy, Executing, Filled, SizeInv, IInv, TypeOK
  <2> QED BY <2>1, <2>2 DEF CallerStep, OpenReturns, SaveCall
<1>6. Quiet(h)
  BY <1>1, <1>2, <1>4, <1>5 DEF Quiet
<1> QED BY <1>1, <1>3, <1>6, QuietKeeps, LockStepKeeps

(* The transactions that outlive a crash are those of positions that count  *)
(* as lost from then on.                                                    *)
LEMMA CrashSize ==
  ASSUME SizeInv, NEW W \in SUBSET Workers, Crash(W)
  PROVE  SharesInv' /\ SoundInv' /\ OwnerInv'
<1>1. /\ \A q \in Procs : pc'[q] = "idle" /\ snap'[q] = NoPosition
      /\ \A p \in Positions : posLock'[p] = None
      /\ UNCHANGED store
      /\ lost' = lost \cup {LevelOf(w) : w \in W \cup AtPersist}
  BY DEF Crash
<1>2. SharesInv' /\ OwnerInv'
  BY <1>1, NoPositionShares DEF SizeInv, SharesInv, Shares, OwnerInv
<1>3. ASSUME NEW p \in Positions, Intact(p)'
      PROVE  Sound(store[p], p)'
  <2>1. Intact(p) /\ \A w \in W : \A l \in Slots : <<p, l>> # LevelOf(w)
    BY <1>1, <1>3 DEF Intact
  <2>2. ASSUME NEW w \in W PROVE posLock[p] # w
    <3>1. w \in Procs /\ w # None /\ job[w].lvl \in Slots
      BY ProcsApart DEF SizeInv, IInv, TypeOK, Job
    <3>2. job[w].pos # p
      BY <2>1, <3>1 DEF LevelOf
    <3> QED BY <3>1, <3>2 DEF SizeInv, OwnerInv
  <2>3. moved'[p] = moved[p] /\ \A l \in Slots : swaps'[<<p, l>>] = swaps[<<p, l>>]
    BY <2>1, <2>2 DEF Crash, Mined, LevelId
  <2>4. Sound(store[p], p)
    BY <2>1 DEF SizeInv, SoundInv
  <2> QED BY <1>1, <2>3, <2>4 DEF Sound, Knows, Triggered
<1>4. \A q \in Procs : pc'[q] \notin Keeping
  BY <1>1 DEF Keeping, HasCopy, Executing, Filled
<1> QED BY <1>2, <1>3, <1>4 DEF SoundInv

LEMMA SizeInit == Init => SizeInv
<1> SUFFICES ASSUME Init PROVE SizeInv
  OBVIOUS
<1>1. SharesInv
  BY NoPositionShares DEF Init, SharesInv
<1>2. OwnerInv
  BY DEF Init, OwnerInv
<1>3. SoundInv
  BY DEF Init, SoundInv, Sound, Knows, Triggered, NoPosition, NoLevel, LevelId, Keeping,
     HasCopy, Executing, Filled
<1> QED BY <1>1, <1>2, <1>3, InitInv DEF SizeInv

LEMMA SizeNext == PortionsAreShares /\ SizeInv /\ [Next]_vars => SizeInv'
<1> SUFFICES ASSUME PortionsAreShares, SizeInv, [Next]_vars PROVE SizeInv'
  OBVIOUS
<1>1. IInv'
  BY NextInv DEF SizeInv
<1>2. ASSUME \/ UNCHANGED vars
             \/ \E price \in Prices : OnPrice(price)
             \/ \E e \in Entry : Dispatch(e)
             \/ RunStep \/ AdvanceClock
      PROVE  SharesInv' /\ SoundInv' /\ OwnerInv'
  <2>1. UNCHANGED <<store, posLock, pc, job, snap, swaps, moved, lost>>
    BY <1>2 DEF vars, OnPrice, Dispatch, RunStep, ListActive, RegisterListed, StartRun,
       AdvanceClock, procVars, historyVars
  <2> QED
    BY <2>1
    DEF SizeInv, SharesInv, SoundInv, OwnerInv, Shares, Sound, Knows, Triggered, Intact
<1>3. SharesInv' /\ SoundInv' /\ OwnerInv'
  BY <1>2, WorkerSize, CallSize, CallerSize, CrashSize DEF Next
<1> QED BY <1>1, <1>3 DEF SizeInv

(* Whatever races, failures and crashes there are: as long as no record of  *)
(* a position's swaps was lost, what was sold of it and what its record     *)
(* says remains add up to its size.  The host must not add a level that     *)
(* sells more than the whole: AddLevel does not check it.                   *)
THEOREM SizesAddUp ==
  ASSUME PortionsAreShares
  PROVE  Spec => []SizeConserved
<1>1. Init => SizeInv
  BY SizeInit
<1>2. SizeInv /\ [Next]_vars => SizeInv'
  BY SizeNext
<1>3. SizeInv => SizeConserved
  <2> SUFFICES ASSUME SizeInv, NEW p \in Positions, Intact(p)
               PROVE  moved[p] + Current(p).remaining = Current(p).size
    BY DEF SizeConserved, Intact
  <2>1. IInv /\ posLock[p] \in Workers \cup {None}
    BY DEF SizeInv, IInv, TypeOK
  <2>2. CASE posLock[p] # None /\ pc[posLock[p]] = "persist"
    <3> DEFINE w == posLock[p]
    <3>1. w \in Workers /\ w \in Procs /\ job[w].pos = p
      BY <2>1, <2>2, ProcsApart DEF SizeInv, OwnerInv
    <3>2. pc[w] \in HasCopy /\ pc[w] \in Keeping
      BY <2>2 DEF Keeping, HasCopy, Filled
    <3>3. Sound(snap[w], p) /\ Knows(snap[w], p)
      BY <2>1, <3>1, <3>2 DEF SizeInv, SoundInv, IInv, CopyInv, Knows, Intact
    <3> QED BY <2>2, <3>3 DEF Current, Sound
  <2>3. CASE ~(posLock[p] # None /\ pc[posLock[p]] = "persist")
    <3>1. ASSUME NEW w \in Workers, pc[w] = "persist" PROVE job[w].pos # p
      <4>1. pc[w] \in Holding /\ w # None
        BY <3>1, ProcsApart DEF Holding, HasCopy, Filled
      <4> QED BY <2>1, <2>3, <3>1, <4>1 DEF IInv, LockInv
    <3>2. Knows(store[p], p)
      <4> SUFFICES ASSUME NEW l \in Slots, swaps[<<p, l>>] > 0
                   PROVE  Triggered(store[p], l)
        BY DEF Knows
      <4>1. <<p, l>> \in LevelId \ lost
        BY DEF LevelId, Intact
      <4> QED BY <2>1, <3>1, <4>1 DEF IInv, RecordInv, LevelOf
    <3>3. Sound(store[p], p)
      BY DEF SizeInv, SoundInv
    <3> QED BY <2>3, <3>2, <3>3 DEF Current, Sound
  <2> QED BY <2>2, <2>3
<1> QED BY <1>1, <1>2, <1>3, PTL DEF Spec

-----------------------------------------------------------------------------
(* What Mark, SetTrigger and Fill do to the entries.                        *)

SameShape(s, r) ==
    /\ s.dir = r.dir
    /\ \A i \in Slots : /\ s.levels[i].type = r.levels[i].type
                        /\ s.levels[i].moveSLTo = r.levels[i].moveSLTo

LEMMA EntryOfType ==
  ASSUME NEW p \in Positions, NEW l \in Slots, NEW rec \in PositionRecord
  PROVE  /\ EntryOf(p, l, rec) \in Entry
         /\ EntryOf(p, l, rec).pos = p /\ EntryOf(p, l, rec).lvl = l
<1>1. rec.levels[l].trig \in Prices \cup {0}
  BY DEF PositionRecord, Level
<1>2. shouldTriggerAbove(rec.levels[l].type, rec.dir) \in BOOLEAN
  BY DEF shouldTriggerAbove
<1> QED BY <1>1, <1>2 DEF EntryOf, Entry

LEMMA EntryOfSame ==
  ASSUME NEW p, NEW l \in Slots, NEW s, NEW r, SameShape(s, r),
         s.levels[l].trig = r.levels[l].trig
  PROVE  EntryOf(p, l, s) = EntryOf(p, l, r)
  BY DEF EntryOf, SameShape

LEMMA MarkShape ==
  ASSUME NEW pos \in PositionRecord, NEW S, NEW st
  PROVE  /\ SameShape(Mark(pos, S, st), pos)
         /\ \A i \in Slots : Mark(pos, S, st).levels[i].trig = pos.levels[i].trig
<1> DEFINE lv == [i \in Slots |-> IF i \in S THEN [pos.levels[i] EXCEPT !.status = st]
                                            ELSE pos.levels[i]]
<1>1. \A i \in Slots : pos.levels[i] \in Level
  BY DEF PositionRecord
<1>2. \A i \in Slots : /\ lv[i].type = pos.levels[i].type
                       /\ lv[i].moveSLTo = pos.levels[i].moveSLTo
                       /\ lv[i].trig = pos.levels[i].trig
  BY <1>1 DEF Level
<1>3. Mark(pos, S, st) = [pos EXCEPT !.levels = lv]
  BY DEF Mark
<1> HIDE DEF lv
<1> QED BY <1>2, <1>3 DEF SameShape, PositionRecord

LEMMA SetTriggerShape ==
  ASSUME NEW pos \in PositionRecord, NEW S, NEW price
  PROVE  /\ SameShape(SetTrigger(pos, S, price), pos)
         /\ \A i \in Slots \ S : SetTrigger(pos, S, price).levels[i].trig = pos.levels[i].trig
<1> DEFINE lv == [i \in Slots |-> IF i \in S THEN [pos.levels[i] EXCEPT !.trig = price]
                                            ELSE pos.levels[i]]
<1>1. \A i \in Slots : pos.levels[i] \in Level
  BY DEF PositionRecord
<1>2. \A i \in Slots : /\ lv[i].type = pos.levels[i].type
                       /\ lv[i].moveSLTo = pos.levels[i].moveSLTo
                       /\ i \notin S => lv[i].trig = pos.levels[i].trig
  BY <1>1 DEF Level
<1>3. SetTrigger(pos, S, price) = [pos EXCEPT !.levels = lv]
  BY DEF SetTrigger
<1> HIDE DEF lv
<1> QED BY <1>2, <1>3 DEF SameShape, PositionRecord

LEMMA SameStopLoss ==
  ASSUME NEW s, NEW r, NEW l \in Slots, SameShape(s, r),
         \A i \in Slots : s.levels[i].status = r.levels[i].status
  PROVE  ActiveLevels(s) = ActiveLevels(r) /\ SLToMove(s, l) = SLToMove(r, l)
<1>1. ActiveLevels(s) = ActiveLevels(r)
  BY DEF ActiveLevels, WithStatus
<1>2. ActiveLevels(r) \subseteq Slots
  BY DEF ActiveLevels, WithStatus
<1>3. \A i \in Slots : s.levels[i].type = r.levels[i].type
  BY DEF SameShape
<1>4. ActiveSL(s) = ActiveSL(r)
  <2> DEFINE A == ActiveLevels(r)
  <2>1. ActiveSL(s) = {i \in A : /\ s.levels[i].type = "SL"
                                 /\ \A j \in A : s.levels[j].type = "SL" => i <= j}
    BY <1>1 DEF ActiveSL
  <2>2. ActiveSL(r) = {i \in A : /\ r.levels[i].type = "SL"
                                 /\ \A j \in A : r.levels[j].type = "SL" => i <= j}
    BY DEF ActiveSL
  <2>3. A \subseteq Slots
    BY <1>2
  <2> HIDE DEF A
  <2> QED BY <1>3, <2>1, <2>2, <2>3
<1> QED BY <1>1, <1>4 DEF SLToMove, SameShape

(* There is one stop-loss to move, if any.                                  *)
LEMMA OneStopLoss ==
  ASSUME NEW rec, NEW l \in Slots, NEW i \in SLToMove(rec, l), NEW j \in SLToMove(rec, l)
  PROVE  i = j /\ i \in Slots
<1>1. i \in ActiveSL(rec) /\ j \in ActiveSL(rec)
  BY DEF SLToMove
<1>2. /\ i \in Slots /\ j \in Slots /\ i \in ActiveLevels(rec) /\ j \in ActiveLevels(rec)
      /\ rec.levels[i].type = "SL" /\ rec.levels[j].type = "SL"
  BY <1>1 DEF ActiveSL, ActiveLevels, WithStatus
<1>3. i <= j /\ j <= i
  BY <1>1, <1>2 DEF ActiveSL
<1> QED BY <1>2, <1>3 DEF Slots

(* A level that is active after a fill was so before, was not cancelled,    *)
(* and keeps its entry unless it is the stop-loss to move.                  *)
LEMMA FillEntries ==
  ASSUME NEW pos \in PositionRecord, NEW l \in Slots
  PROVE  /\ CancelledBy(pos, l) \cap ActiveLevels(Fill(pos, l)) = {}
         /\ \A i \in ActiveLevels(Fill(pos, l)) :
              /\ i # l /\ i \in ActiveLevels(pos)
              /\ \/ \A p : EntryOf(p, i, Fill(pos, l)) = EntryOf(p, i, pos)
                 \/ i \in SLToMove(Fill(pos, l), l)
<1> DEFINE m1 == Mark(pos, CancelledBy(pos, l), "cancelled")
           m2 == Mark(m1, {l}, "triggered")
           m3 == SetTrigger(m2, SLToMove(m2, l), pos.levels[l].moveSLTo)
<1>1. /\ "cancelled" \in LevelStatus /\ "triggered" \in LevelStatus
      /\ pos.levels[l].moveSLTo \in Prices \cup {0}
  BY DEF LevelStatus, PositionRecord, Level
<1>2. /\ m1 \in PositionRecord /\ SameShape(m1, pos)
      /\ \A i \in Slots :
           /\ m1.levels[i].trig = pos.levels[i].trig
           /\ m1.levels[i].status = IF i \in CancelledBy(pos, l) THEN "cancelled"
                                    ELSE pos.levels[i].status
  BY <1>1, MarkType, MarkShape
<1> HIDE DEF m1
<1>3. /\ m2 \in PositionRecord /\ SameShape(m2, m1)
      /\ \A i \in Slots :
           /\ m2.levels[i].trig = m1.levels[i].trig
           /\ m2.levels[i].status = IF i \in {l} THEN "triggered" ELSE m1.levels[i].status
  BY <1>1, <1>2, MarkType, MarkShape
<1> HIDE DEF m2
<1>4. /\ m3 \in PositionRecord /\ SameShape(m3, m2)
      /\ \A i \in Slots : m3.levels[i].status = m2.levels[i].status
      /\ \A i \in Slots \ SLToMove(m2, l) : m3.levels[i].trig = m2.levels[i].trig
  BY <1>1, <1>3, SetTriggerType, SetTriggerShape
<1>5. Fill(pos, l) = [m3 EXCEPT !.remaining = RemainingAfter(pos, l),
                                !.state = StateAfter(pos, l)]
  BY DEF Fill, m1, m2
<1> HIDE DEF m3
<1>6. Fill(pos, l).levels = m3.levels /\ Fill(pos, l).dir = m3.dir
  BY <1>4, <1>5 DEF PositionRecord
<1> DEFINE f == Fill(pos, l)
<1> HIDE DEF f
<1>7. /\ SameShape(f, pos) /\ SameShape(f, m2)
      /\ \A i \in Slots : f.levels[i].status = m2.levels[i].status
  BY <1>2, <1>3, <1>4, <1>6 DEF SameShape, f
<1>8. SLToMove(f, l) = SLToMove(m2, l)
  BY <1>7, SameStopLoss
<1>9. ASSUME NEW i \in ActiveLevels(f)
      PROVE  /\ i \in Slots /\ i # l /\ i \in ActiveLevels(pos) /\ i \notin CancelledBy(pos, l)
             /\ \/ \A p : EntryOf(p, i, f) = EntryOf(p, i, pos)
                \/ i \in SLToMove(f, l)
  <2>1. i \in Slots /\ f.levels[i].status = "active"
    BY DEF ActiveLevels, WithStatus
  <2>2. i # l /\ i \notin CancelledBy(pos, l) /\ pos.levels[i].status = "active"
    BY <1>2, <1>3, <1>7, <2>1
  <2>3. i \in ActiveLevels(pos)
    BY <2>1, <2>2 DEF ActiveLevels, WithStatus
  <2>4. i \notin SLToMove(f, l) => f.levels[i].trig = pos.levels[i].trig
    BY <1>2, <1>3, <1>4, <1>6, <1>8, <2>1 DEF f
  <2> QED BY <1>7, <2>1, <2>2, <2>3, <2>4, EntryOfSame
<1> QED BY <1>9 DEF f

(* A record that differs in the activation has the same entries.            *)
LEMMA LoadedSame ==
  ASSUME NEW rec \in PositionRecord, NEW old \in Loaded(rec)
  PROVE  /\ old \in PositionRecord /\ old.state = rec.state
         /\ ActiveLevels(old) = ActiveLevels(rec)
         /\ \A l \in Slots : CancelledBy(old, l) = CancelledBy(rec, l)
         /\ \A p, l : EntryOf(p, l, old) = EntryOf(p, l, rec)
<1>1. old \in PositionRecord /\ old.state = rec.state /\ old.levels = rec.levels /\ old.dir = rec.dir
  BY DEF Loaded, PositionRecord
<1>2. ActiveLevels(old) = ActiveLevels(rec)
  BY <1>1 DEF ActiveLevels, WithStatus
<1> QED BY <1>1, <1>2 DEF CancelledBy, EntryOf

-----------------------------------------------------------------------------
(* The steps of a goroutine, by what they do to it, to the Store and to the *)
(* trigger engine.                                                          *)

Alone(q) ==
    \A g \in Procs \ {q} : /\ pc'[g] = pc[g] /\ job'[g] = job[g]
                           /\ snap'[g] = snap[g] /\ todo'[g] = todo[g]

Returned(q) == pc'[q] = "idle" /\ job'[q] = NoJob /\ snap'[q] = NoPosition /\ todo'[q] = {}

GoesTo(q, place) == pc'[q] = place /\ UNCHANGED <<job[q], todo[q]>>

Still == UNCHANGED <<store, engine, execCh>>

WritesCopy(w) == store' = [store EXCEPT ![job[w].pos] = snap[w]]

(* The overlaps and the failures are remembered until the process dies.     *)
Remembers == raced \subseteq raced' /\ missed \subseteq missed'

Takes(w) ==
    /\ pc[w] = "idle" /\ execCh # <<>> /\ execCh' = Tail(execCh)
    /\ pc'[w] = "lock" /\ snap'[w] = snap[w]
    /\ job'[w].pos = Head(execCh).pos /\ job'[w].lvl = Head(execCh).lvl
    /\ UNCHANGED <<store, engine>>

Waits(w) == pc[w] = "lock" /\ GoesTo(w, "load") /\ snap'[w] = snap[w] /\ Still

Reads(w) ==
    /\ pc[w] = "load" /\ GoesTo(w, "allow") /\ Still
    /\ CanExecute(store[job[w].pos], job[w].lvl)
    /\ snap'[w] = store[job[w].pos]
    /\ Calling(job[w].pos) => job[w].pos \in raced'

Drops(w) ==
    /\ pc[w] = "load" /\ Returned(w) /\ Still
    /\ Calling(job[w].pos) => job[w].pos \in raced'
    /\ \/ ~CanExecute(store[job[w].pos], job[w].lvl)
       \/ job[w].pos \in missed'

Retries(w) ==
    /\ pc[w] \in Executing \ {"saveActivation"} /\ Returned(w)
    /\ engine' = Registered(engine, EntryOf(job[w].pos, job[w].lvl, snap[w]))
    /\ UNCHANGED <<store, execCh>>

GoesOn(w) ==
    /\ pc[w] \in {"allow", "permit", "submit"}
    /\ \E place \in {"permit", "submit", "receipt"} : GoesTo(w, place)
    /\ pc[w] = "submit" => pc'[w] = "receipt"
    /\ snap'[w] = snap[w] /\ Still

Expires(w) ==
    /\ pc[w] = "permit" /\ pc'[w] = "suspend" /\ job'[w] = job[w] /\ Still
    /\ snap'[w] = Mark(snap[w], ActiveLevels(snap[w]), "suspended")

Activates(w) ==
    /\ pc[w] = "permit" /\ GoesTo(w, "saveActivation") /\ Still
    /\ snap'[w] = [snap[w] EXCEPT !.activated = TRUE]

Saves(w) ==
    /\ pc[w] = "saveActivation" /\ GoesTo(w, "submit") /\ snap'[w] = snap[w]
    /\ WritesCopy(w) \/ UNCHANGED store
    /\ UNCHANGED <<engine, execCh>>

Unregisters(w) ==
    /\ pc[w] \in {"suspend", "retire"}
    /\ UNCHANGED <<pc[w], job[w], snap[w], store, execCh>>
    /\ \E l \in todo[w] : /\ engine' = Unregistered(engine, job[w].pos, l)
                          /\ todo'[w] = todo[w] \ {l}

Suspends(w) ==
    /\ pc[w] = "suspend" /\ Returned(w) /\ UNCHANGED <<engine, execCh>>
    /\ WritesCopy(w) \/ (UNCHANGED store /\ job[w].pos \in missed')

Fills(w) ==
    /\ pc[w] = "receipt" /\ pc'[w] = "persist" /\ job'[w] = job[w] /\ Still
    /\ snap'[w] = Fill(snap[w], job[w].lvl)
    /\ todo'[w] = CancelledBy(snap[w], job[w].lvl)

Persists(w) ==
    /\ pc[w] = "persist" /\ GoesTo(w, "retire") /\ snap'[w] = snap[w]
    /\ WritesCopy(w) /\ UNCHANGED <<engine, execCh>>

Fails(w) == pc[w] = "persist" /\ Returned(w) /\ job[w].pos \in missed' /\ Still

Reports(w) ==
    LET sl == SLToMove(snap[w], job[w].lvl) IN
    /\ pc[w] = "retire" /\ Returned(w) /\ UNCHANGED <<store, execCh>>
    /\ \/ sl = {} /\ UNCHANGED engine
       \/ \E i \in sl : UpdateTriggerPrice(job[w].pos, i, snap[w])

LEMMA FinishAlone ==
  ASSUME TypeOK, NEW q \in Procs, Finish(q)
  PROVE  Alone(q) /\ Returned(q)
  BY DEF Finish, Goto, Alone, Returned, TypeOK

LEMMA GoAlone ==
  ASSUME TypeOK, NEW q \in Procs, NEW place, Goto(q, place), UNCHANGED <<job, todo>>,
         NEW rec, snap' = [snap EXCEPT ![q] = rec]
  PROVE  Alone(q) /\ GoesTo(q, place) /\ snap'[q] = rec
  BY DEF Goto, Alone, GoesTo, TypeOK

LEMMA WorkerKinds ==
  ASSUME TypeOK, NEW w \in Workers, WorkerStep(w)
  PROVE  /\ Alone(w) /\ UNCHANGED <<outbox, tick, run, listed>> /\ Remembers
         /\ \/ Takes(w) \/ Waits(w) \/ Reads(w) \/ Drops(w) \/ Retries(w) \/ GoesOn(w)
            \/ Expires(w) \/ Activates(w) \/ Saves(w) \/ Unregisters(w) \/ Suspends(w)
            \/ Fills(w) \/ Persists(w) \/ Fails(w) \/ Reports(w)
<1> DEFINE Kind == \/ Takes(w) \/ Waits(w) \/ Reads(w) \/ Drops(w) \/ Retries(w) \/ GoesOn(w)
                   \/ Expires(w) \/ Activates(w) \/ Saves(w) \/ Unregisters(w) \/ Suspends(w)
                   \/ Fills(w) \/ Persists(w) \/ Fails(w) \/ Reports(w)
<1>0. /\ w \in Procs /\ snap = [snap EXCEPT ![w] = snap[w]]
  BY ProcsApart DEF TypeOK
<1>1. UNCHANGED <<outbox, tick, run, listed>>
  BY DEF WorkerStep, TakeEvent, LockPosition, Load, Allow, PermitIsExpired, PermitIsActivated,
     ActivatePermit, SaveActivation, SuspendLevel, SaveSuspension, SubmitSwap, SwapMined,
     SwapReverted, PersistFill, RetireLevel, ReportExecution, feedVars, runVars
<1>2. ASSUME Return(w) PROVE Alone(w) /\ Returned(w)
  BY <1>0, <1>2, FinishAlone DEF Return
<1>21. Remembers
  <2>1. CASE Load(w)
    BY <2>1 DEF Load, Races, Misses, Remembers
  <2>2. CASE SaveSuspension(w)
    BY <2>2 DEF SaveSuspension, Misses, Remembers
  <2>3. CASE PersistFill(w)
    BY <2>3 DEF PersistFill, Misses, Remembers
  <2>4. CASE ~Load(w) /\ ~SaveSuspension(w) /\ ~PersistFill(w)
    <3>1. UNCHANGED <<raced, missed>>
      BY <2>4 DEF WorkerStep, TakeEvent, LockPosition, Allow, PermitIsExpired, PermitIsActivated,
         ActivatePermit, SaveActivation, SuspendLevel, SubmitSwap, SwapMined, SwapReverted,
         RetireLevel, ReportExecution, historyVars
    <3> QED BY <3>1 DEF Remembers
  <2> QED BY <2>1, <2>2, <2>3, <2>4
<1>3. ASSUME RetryLater(w), pc[w] \in Executing \ {"saveActivation"}, UNCHANGED <<store, execCh>>
      PROVE  Alone(w) /\ Retries(w)
  BY <1>2, <1>3 DEF RetryLater, Register, Retries
<1>4. ASSUME NEW place, Goto(w, place), UNCHANGED <<job, todo, snap>>
      PROVE  Alone(w) /\ GoesTo(w, place) /\ snap'[w] = snap[w]
  BY <1>0, <1>4 DEF Goto, Alone, GoesTo, TypeOK
<1>5. ASSUME TakeEvent(w) PROVE Alone(w) /\ Kind
  <2>1. Alone(w)
    BY <1>0, <1>5 DEF TakeEvent, Goto, Alone, TypeOK
  <2>2. Takes(w)
    BY <1>0, <1>5 DEF TakeEvent, Goto, NowIs, Takes, TypeOK
  <2> QED BY <2>1, <2>2
<1>6. ASSUME LockPosition(w) PROVE Alone(w) /\ Kind
  BY <1>4, <1>6 DEF LockPosition, NowIs, Waits, Still, feedVars
<1>7. ASSUME Load(w) PROVE Alone(w) /\ Kind
  <2>1. pc[w] = "load" /\ Still
    BY <1>7 DEF Load, NowIs, Still, feedVars
  <2>2. CASE Return(w)
    <3>1. \/ ~CanExecute(store[job[w].pos], job[w].lvl)
          \/ job[w].pos \in missed'
          \/ Goto(w, "allow")
      BY <1>7 DEF Load, Misses
    <3>2. ~Goto(w, "allow")
      BY <1>0, <1>2, <2>2 DEF Goto, Returned, TypeOK
    <3>3. Calling(job[w].pos) => job[w].pos \in raced'
      BY <1>7 DEF Load, Races
    <3> QED BY <1>2, <2>1, <2>2, <3>1, <3>2, <3>3 DEF Drops
  <2>3. CASE ~Return(w)
    <3>1. /\ CanExecute(store[job[w].pos], job[w].lvl) /\ Goto(w, "allow")
          /\ snap' = [snap EXCEPT ![w] = store[job[w].pos]] /\ UNCHANGED <<job, todo>>
      BY <1>7, <2>3 DEF Load
    <3>3. Calling(job[w].pos) => job[w].pos \in raced'
      BY <1>7 DEF Load, Races
    <3>2. Alone(w) /\ GoesTo(w, "allow") /\ snap'[w] = store[job[w].pos]
      BY <1>0, <3>1, GoAlone
    <3> QED BY <2>1, <3>1, <3>2, <3>3 DEF Reads
  <2> QED BY <2>2, <2>3
<1>8. ASSUME Allow(w) PROVE Alone(w) /\ Kind
  <2>1. pc[w] = "allow" /\ UNCHANGED <<store, execCh>> /\ pc[w] \in Executing \ {"saveActivation"}
    BY <1>8 DEF Allow, NowIs, feedVars, Executing
  <2>2. CASE RetryLater(w)
    BY <1>3, <2>1, <2>2
  <2>3. CASE ~RetryLater(w)
    <3> DEFINE place == IF snap[w].permit THEN "permit" ELSE "submit"
    <3>1. Goto(w, place) /\ UNCHANGED <<engine, job, snap, todo>>
      BY <1>8, <2>3 DEF Allow
    <3>2. place \in {"permit", "submit"}
      OBVIOUS
    <3> HIDE DEF place
    <3> QED BY <1>4, <2>1, <3>1, <3>2 DEF GoesOn, Still
  <2> QED BY <2>2, <2>3
<1>9. ASSUME PermitIsExpired(w) PROVE Alone(w) /\ Kind
  <2>1. Alone(w)
    BY <1>0, <1>9 DEF PermitIsExpired, Goto, Alone, TypeOK
  <2>2. Expires(w)
    BY <1>0, <1>9 DEF PermitIsExpired, Goto, NowIs, Expires, Still, feedVars, TypeOK
  <2> QED BY <2>1, <2>2
<1>10. ASSUME PermitIsActivated(w) PROVE Alone(w) /\ Kind
  BY <1>4, <1>10 DEF PermitIsActivated, NowIs, GoesOn, GoesTo, Still, feedVars
<1>11. ASSUME ActivatePermit(w) PROVE Alone(w) /\ Kind
  <2>1. pc[w] = "permit" /\ UNCHANGED <<store, execCh>> /\ pc[w] \in Executing \ {"saveActivation"}
    BY <1>11 DEF ActivatePermit, NowIs, feedVars, Executing
  <2>2. CASE RetryLater(w)
    BY <1>3, <2>1, <2>2
  <2>3. CASE ~RetryLater(w)
    <3> DEFINE rec == [snap[w] EXCEPT !.activated = TRUE]
    <3>1. /\ Goto(w, "saveActivation") /\ UNCHANGED <<engine, job, todo>>
          /\ snap' = [snap EXCEPT ![w] = rec]
      BY <1>0, <1>11, <2>3 DEF ActivatePermit, TypeOK
    <3>2. Activates(w) <=> /\ pc[w] = "permit" /\ GoesTo(w, "saveActivation") /\ Still
                           /\ snap'[w] = rec
      BY DEF Activates
    <3> HIDE DEF rec
    <3>3. Alone(w) /\ GoesTo(w, "saveActivation") /\ snap'[w] = rec
      BY <1>0, <3>1, GoAlone
    <3> QED BY <2>1, <3>1, <3>2, <3>3 DEF Still
  <2> QED BY <2>2, <2>3
<1>12. ASSUME SaveActivation(w) PROVE Alone(w) /\ Kind
  <2>1. pc[w] = "saveActivation" /\ Goto(w, "submit") /\ UNCHANGED <<engine, execCh, job, snap, todo>>
    BY <1>12 DEF SaveActivation, NowIs, feedVars
  <2>2. WritesCopy(w) \/ UNCHANGED store
    BY <1>12 DEF SaveActivation, WritesCopy
  <2> QED BY <1>4, <2>1, <2>2 DEF Saves
<1>13. ASSUME SuspendLevel(w) \/ RetireLevel(w) PROVE Alone(w) /\ Kind
  <2>1. /\ pc[w] \in {"suspend", "retire"} /\ UNCHANGED <<pc, job, snap, store, execCh>>
        /\ \E l \in Slots : UnregisterNext(w, l)
    BY <1>13 DEF SuspendLevel, RetireLevel, NowIs, feedVars
  <2>2. PICK l \in todo[w] : /\ engine' = Unregistered(engine, job[w].pos, l)
                             /\ todo' = [todo EXCEPT ![w] = @ \ {l}]
    BY <2>1 DEF UnregisterNext, Unregister, IsFirst
  <2>3. /\ todo'[w] = todo[w] \ {l}
        /\ \A g \in Procs \ {w} : todo'[g] = todo[g]
    BY <1>0, <2>2 DEF TypeOK
  <2> QED BY <2>1, <2>2, <2>3 DEF Alone, Unregisters
<1>14. ASSUME SaveSuspension(w) PROVE Alone(w) /\ Kind
  <2>1. pc[w] = "suspend" /\ Return(w) /\ UNCHANGED <<engine, execCh>>
    BY <1>14 DEF SaveSuspension, NowIs, feedVars
  <2>2. WritesCopy(w) \/ (UNCHANGED store /\ job[w].pos \in missed')
    BY <1>14 DEF SaveSuspension, WritesCopy, Misses
  <2> QED BY <1>2, <2>1, <2>2 DEF Suspends
<1>15. ASSUME SubmitSwap(w) PROVE Alone(w) /\ Kind
  <2>1. pc[w] = "submit" /\ UNCHANGED <<store, execCh>> /\ pc[w] \in Executing \ {"saveActivation"}
    BY <1>15 DEF SubmitSwap, NowIs, feedVars, Executing
  <2>2. CASE RetryLater(w)
    BY <1>3, <2>1, <2>2
  <2>3. CASE ~RetryLater(w)
    <3>1. Goto(w, "receipt") /\ UNCHANGED <<engine, job, snap, todo>>
      BY <1>15, <2>3 DEF SubmitSwap
    <3> QED BY <1>4, <2>1, <3>1 DEF GoesOn, GoesTo, Still
  <2> QED BY <2>2, <2>3
<1>16. ASSUME SwapMined(w) PROVE Alone(w) /\ Kind
  <2>1. Alone(w)
    BY <1>0, <1>16 DEF SwapMined, Goto, Alone, TypeOK
  <2>2. Fills(w)
    BY <1>0, <1>16 DEF SwapMined, Goto, NowIs, Fills, Still, feedVars, TypeOK
  <2> QED BY <2>1, <2>2
<1>17. ASSUME SwapReverted(w) PROVE Alone(w) /\ Kind
  BY <1>3, <1>17 DEF SwapReverted, NowIs, feedVars, Executing
<1>18. ASSUME PersistFill(w) PROVE Alone(w) /\ Kind
  <2>1. pc[w] = "persist" /\ UNCHANGED <<engine, execCh>>
    BY <1>18 DEF PersistFill, NowIs, feedVars
  <2>2. CASE WritesCopy(w) /\ Goto(w, "retire") /\ UNCHANGED <<job, snap, todo>>
    BY <1>4, <2>1, <2>2 DEF Persists
  <2>3. CASE job[w].pos \in missed' /\ Return(w) /\ UNCHANGED store
    BY <1>2, <2>1, <2>3 DEF Fails, Still
  <2> QED BY <1>18, <2>2, <2>3 DEF PersistFill, WritesCopy, Misses
<1>19. ASSUME ReportExecution(w) PROVE Alone(w) /\ Kind
  <2>1. Return(w) /\ UNCHANGED <<store, execCh>>
    BY <1>19 DEF ReportExecution, feedVars
  <2> QED BY <1>2, <1>19, <2>1 DEF ReportExecution, NowIs, Reports
<1> HIDE DEF Kind
<1>20. Alone(w) /\ Kind
  BY <1>5, <1>6, <1>7, <1>8, <1>9, <1>10, <1>11, <1>12, <1>13, <1>14, <1>15, <1>16, <1>17,
     <1>18, <1>19 DEF WorkerStep
<1> QED BY <1>1, <1>20, <1>21 DEF Kind

(* A worker gets a copy of a record by reading it, and keeps its job.       *)
LEMMA CopyComes ==
  ASSUME TypeOK, NEW w \in Workers, WorkerStep(w), pc'[w] \in HasCopy
  PROVE  /\ job'[w] = job[w]
         /\ pc[w] \in HasCopy \/ Reads(w)
  BY WorkerKinds
  DEF Takes, Waits, Reads, Drops, Retries, GoesOn, Expires, Activates, Saves, Unregisters,
      Suspends, Fills, Persists, Fails, Reports, Returned, GoesTo, HasCopy, Executing, Filled

-----------------------------------------------------------------------------
(* The copy a call starts with.                                             *)

(* It is open or cancelled; an active level of it is one of the Store's, or *)
(* one the call has yet to register.                                        *)
Copies(p, op, rec, S) ==
    /\ rec.state \in {store[p].state, "cancelled"}
    /\ op \in {"cancel", "removeLevel", "expire"} => S \cap ActiveLevels(rec) = {}
    /\ \A l \in ActiveLevels(rec) \ S : l \in ActiveLevels(store[p]) /\ AsStored(p, l, rec)

Starts(h) ==
    \E p \in Positions, op \in OpKinds \ {"open"} : \E rec, S :
        Begin(h, op, p, rec, S) /\ Copies(p, op, rec, S)

LEMMA MarkEntries ==
  ASSUME NEW pos \in PositionRecord, NEW S, NEW st \in LevelStatus
  PROVE  /\ \A p : \A i \in Slots : EntryOf(p, i, Mark(pos, S, st)) = EntryOf(p, i, pos)
         /\ \A i \in Slots : Mark(pos, S, st).levels[i].status
                               = IF i \in S THEN st ELSE pos.levels[i].status
         /\ Mark(pos, S, st).state = pos.state
         /\ Mark(pos, S, st) \in PositionRecord
<1>1. \A i \in Slots : Mark(pos, S, st).levels[i].status
                         = IF i \in S THEN st ELSE pos.levels[i].status
  BY MarkType
<1>2. \A p : \A i \in Slots : EntryOf(p, i, Mark(pos, S, st)) = EntryOf(p, i, pos)
  BY MarkShape, EntryOfSame
<1>3. Mark(pos, S, st) \in PositionRecord
  BY MarkType
<1>4. Mark(pos, S, st).state = pos.state
  BY DEF Mark, PositionRecord
<1> QED BY <1>1, <1>2, <1>3, <1>4

LEMMA CallKinds ==
  ASSUME TypeOK, NEW h \in Callers, Call(h)
  PROVE  \/ \E p \in Positions, plan \in Plans : SavePosition(h, p, plan)
         \/ Starts(h)
<1>1. ASSUME NEW p \in Positions PROVE store[p] \in PositionRecord
  BY DEF TypeOK
<1>2. /\ {"active", "suspended", "cancelled"} \subseteq LevelStatus
      /\ {"cancel", "updateLevel", "addLevel", "removeLevel", "renew", "expire"}
           \subseteq OpKinds \ {"open"}
  BY DEF LevelStatus, OpKinds
<1>3. ASSUME NEW p \in Positions, CancelPosition(h, p) PROVE Starts(h)
  <2> DEFINE A == ActiveLevels(store[p])
             m == Mark(store[p], A, "cancelled")
             r == [m EXCEPT !.state = "cancelled"]
  <2>1. /\ m \in PositionRecord
        /\ \A i \in Slots : m.levels[i].status = IF i \in A THEN "cancelled"
                                                 ELSE store[p].levels[i].status
    BY <1>1, <1>2, MarkEntries
  <2>2. ActiveLevels(m) = {}
    <3> HIDE DEF m
    <3> QED BY <2>1 DEF ActiveLevels, WithStatus
  <2>3. r.state = "cancelled" /\ ActiveLevels(r) = {}
    <3> HIDE DEF m
    <3>1. r.state = "cancelled" /\ r.levels = m.levels
      BY <2>1 DEF PositionRecord
    <3> HIDE DEF r
    <3> QED BY <2>2, <3>1 DEF ActiveLevels, WithStatus
  <2>4. Begin(h, "cancel", p, r, A)
    BY <1>3 DEF CancelPosition
  <2> HIDE DEF r, A
  <2>5. Copies(p, "cancel", r, A)
    BY <2>3 DEF Copies
  <2> QED BY <1>2, <2>4, <2>5 DEF Starts
<1>4. ASSUME NEW p \in Positions, NEW l \in Slots, NEW price \in Prices,
             UpdateLevel(h, p, l, price)
      PROVE  Starts(h)
  <2> DEFINE r == SetTrigger(store[p], {l}, price)
  <2>1. /\ r.state = store[p].state
        /\ \A i \in Slots : r.levels[i].status = store[p].levels[i].status
    BY <1>1, SetTriggerType DEF SetTrigger, PositionRecord
  <2>2. \A i \in Slots \ {l} : EntryOf(p, i, r) = EntryOf(p, i, store[p])
    BY <1>1, SetTriggerShape, EntryOfSame
  <2>3. Begin(h, "updateLevel", p, r, {l})
    BY <1>4 DEF UpdateLevel
  <2> HIDE DEF r
  <2>4. Copies(p, "updateLevel", r, {l})
    BY <2>1, <2>2 DEF Copies, ActiveLevels, WithStatus, AsStored
  <2> QED BY <1>2, <2>3, <2>4 DEF Starts
<1>5. ASSUME NEW p \in Positions, NEW l \in Slots, NEW lv \in NewLevels, AddLevel(h, p, l, lv)
      PROVE  Starts(h)
  <2> DEFINE r == [store[p] EXCEPT !.levels[l] = lv]
  <2>1. /\ r.state = store[p].state /\ r.dir = store[p].dir
        /\ \A i \in Slots \ {l} : r.levels[i] = store[p].levels[i]
    BY <1>1 DEF PositionRecord
  <2>2. Begin(h, "addLevel", p, r, {l})
    BY <1>5 DEF AddLevel
  <2> HIDE DEF r
  <2>3. Copies(p, "addLevel", r, {l})
    BY <2>1 DEF Copies, ActiveLevels, WithStatus, AsStored, EntryOf
  <2> QED BY <1>2, <2>2, <2>3 DEF Starts
<1>6. ASSUME NEW p \in Positions, NEW l \in Slots, RemoveLevel(h, p, l) PROVE Starts(h)
  <2> DEFINE r == Mark(store[p], {l}, "cancelled")
  <2>1. /\ \A i \in Slots : EntryOf(p, i, r) = EntryOf(p, i, store[p])
        /\ \A i \in Slots : r.levels[i].status = IF i \in {l} THEN "cancelled"
                                                 ELSE store[p].levels[i].status
        /\ r.state = store[p].state
    BY <1>1, <1>2, MarkEntries
  <2>2. Begin(h, "removeLevel", p, r, {l})
    BY <1>6 DEF RemoveLevel
  <2> HIDE DEF r
  <2>3. Copies(p, "removeLevel", r, {l})
    BY <2>1 DEF Copies, ActiveLevels, WithStatus, AsStored
  <2> QED BY <1>2, <2>2, <2>3 DEF Starts
<1>7. ASSUME NEW p \in Positions, NEW deadline \in Deadlines, RenewPermit(h, p, deadline)
      PROVE  Starts(h)
  <2> DEFINE S == WithStatus(store[p], "suspended")
             m == Mark(store[p], S, "active")
             r == [m EXCEPT !.permit = TRUE, !.deadline = deadline, !.activated = FALSE]
  <2>1. /\ \A i \in Slots : EntryOf(p, i, m) = EntryOf(p, i, store[p])
        /\ \A i \in Slots : m.levels[i].status = IF i \in S THEN "active"
                                                 ELSE store[p].levels[i].status
        /\ m.state = store[p].state /\ m \in PositionRecord
    BY <1>1, <1>2, MarkEntries
  <2>2. /\ \A i \in Slots : EntryOf(p, i, r) = EntryOf(p, i, m)
        /\ r.levels = m.levels /\ r.state = m.state
    <3> HIDE DEF m
    <3>1. r.levels = m.levels /\ r.state = m.state /\ r.dir = m.dir
      BY <2>1 DEF PositionRecord
    <3> QED BY <3>1 DEF EntryOf
  <2>3. Begin(h, "renew", p, r, S)
    BY <1>7 DEF RenewPermit
  <2> HIDE DEF r, S, m
  <2>4. Copies(p, "renew", r, S)
    BY <2>1, <2>2 DEF Copies, ActiveLevels, WithStatus, AsStored
  <2> QED BY <1>2, <2>3, <2>4 DEF Starts
<1>8. ASSUME NEW p \in Positions, SuspendExpired(h, p) PROVE Starts(h)
  <2> DEFINE A == ActiveLevels(store[p])
             r == Mark(store[p], A, "suspended")
  <2>1. /\ \A i \in Slots : EntryOf(p, i, r) = EntryOf(p, i, store[p])
        /\ \A i \in Slots : r.levels[i].status = IF i \in A THEN "suspended"
                                                 ELSE store[p].levels[i].status
        /\ r.state = store[p].state
    BY <1>1, <1>2, MarkEntries
  <2>2. Begin(h, "expire", p, r, A)
    BY <1>8 DEF SuspendExpired
  <2>3. ActiveLevels(r) = {}
    <3> HIDE DEF r
    <3> QED BY <2>1 DEF ActiveLevels, WithStatus
  <2> HIDE DEF r, A
  <2>4. Copies(p, "expire", r, A)
    BY <2>1, <2>3 DEF Copies
  <2> QED BY <1>2, <2>2, <2>4 DEF Starts
<1> QED BY <1>3, <1>4, <1>5, <1>6, <1>7, <1>8 DEF Call

(* The steps of a caller, by what they do.                                  *)
Opens(h) ==
    \E p \in Positions, plan \in Plans :
        /\ pc[h] = "idle" /\ store[p].state = "none" /\ ValidPlan(plan, now)
        /\ store' = [store EXCEPT ![p] = plan] /\ UNCHANGED engine
        /\ pc'[h] = "register" /\ job'[h] = JobOn("open", p) /\ snap'[h] = plan
        /\ todo'[h] = ActiveLevels(plan)

ReadsOpen(h) ==
    \E p \in Positions, op \in OpKinds \ {"open"} :
        /\ pc[h] = "idle" /\ IsOpen(store[p])
        /\ pc'[h] = "engine" /\ job'[h] = JobOn(op, p)
        /\ Copies(p, op, snap'[h], todo'[h])
        /\ (Calling(p) \/ InWorkers(p)) => p \in raced'
        /\ UNCHANGED <<store, engine>>

Applies(h) ==
    /\ pc[h] \in {"engine", "register"}
    /\ UNCHANGED <<pc[h], job[h], snap[h], store>>
    /\ \E l \in todo[h] : EngineCall(h, l) /\ todo'[h] = todo[h] \ {l}

EndsOpen(h) == pc[h] = "register" /\ todo[h] = {} /\ Returned(h) /\ UNCHANGED <<store, engine>>

EndsCall(h) ==
    /\ pc[h] = "engine" /\ todo[h] = {} /\ Returned(h) /\ UNCHANGED engine
    /\ \/ store' = [store EXCEPT ![job[h].pos] = snap[h]]
       \/ UNCHANGED store /\ job[h].pos \in missed'

LEMMA CallerKinds ==
  ASSUME TypeOK, NEW h \in Callers, Call(h) \/ CallerStep(h)
  PROVE  /\ Alone(h) /\ UNCHANGED <<outbox, tick, execCh, run, listed>> /\ Remembers
         /\ Opens(h) \/ ReadsOpen(h) \/ Applies(h) \/ EndsOpen(h) \/ EndsCall(h)
<1> DEFINE Apart == UNCHANGED <<outbox, tick, execCh, run, listed>> /\ Remembers
<1>0. h \in Procs /\ h \notin Workers
  BY ProcsApart
<1>1. ASSUME NEW p \in Positions, NEW plan \in Plans, SavePosition(h, p, plan)
      PROVE  Alone(h) /\ Apart /\ Opens(h)
  <2>1. Apart
    BY <1>1 DEF SavePosition, feedVars, runVars, historyVars, Remembers
  <2>2. Alone(h)
    BY <1>0, <1>1 DEF SavePosition, Goto, Alone, TypeOK
  <2>3. Opens(h)
    BY <1>0, <1>1 DEF SavePosition, Goto, NowIs, Opens, TypeOK
  <2> QED BY <2>1, <2>2, <2>3
<1>2. ASSUME Starts(h)
      PROVE  Alone(h) /\ Apart /\ ReadsOpen(h)
  <2>1. PICK p \in Positions, op \in OpKinds \ {"open"} : \E rec, S :
               Begin(h, op, p, rec, S) /\ Copies(p, op, rec, S)
    BY <1>2 DEF Starts
  <2>2. PICK rec, S : Begin(h, op, p, rec, S) /\ Copies(p, op, rec, S)
    BY <2>1
  <2>3. UNCHANGED <<outbox, tick, execCh, run, listed, store, engine>>
    BY <2>2 DEF Begin, feedVars, runVars
  <2>4. Remembers /\ ((Calling(p) \/ InWorkers(p)) => p \in raced')
    BY <2>2 DEF Begin, Races, Remembers
  <2>5. /\ Alone(h)
        /\ pc[h] = "idle" /\ IsOpen(store[p]) /\ pc'[h] = "engine"
        /\ job'[h] = JobOn(op, p) /\ snap'[h] = rec /\ todo'[h] = S
    BY <1>0, <2>2 DEF Begin, Goto, NowIs, Alone, TypeOK
  <2> QED BY <2>2, <2>3, <2>4, <2>5 DEF ReadsOpen
<1>3. ASSUME CallerStep(h)
      PROVE  /\ Alone(h) /\ Apart
             /\ Applies(h) \/ EndsOpen(h) \/ EndsCall(h)
  <2>1. Apart
    BY <1>3 DEF CallerStep, ApplyToEngine, OpenReturns, SaveCall, feedVars, runVars,
       historyVars, Misses, Remembers
  <2>2. ASSUME ApplyToEngine(h) PROVE Alone(h) /\ Applies(h)
    <3>1. PICK l \in Slots : /\ l \in todo[h] /\ EngineCall(h, l)
                             /\ todo' = [todo EXCEPT ![h] = @ \ {l}]
      BY <2>2 DEF ApplyToEngine, IsFirst
    <3>2. /\ todo'[h] = todo[h] \ {l}
          /\ \A g \in Procs \ {h} : todo'[g] = todo[g]
      BY <1>0, <3>1 DEF TypeOK
    <3> QED BY <2>2, <3>1, <3>2 DEF ApplyToEngine, Alone, Applies
  <2>3. ASSUME Finish(h) PROVE Alone(h) /\ Returned(h)
    BY <1>0, <2>3, FinishAlone
  <2>4. CASE OpenReturns(h)
    BY <2>1, <2>3, <2>4 DEF OpenReturns, NowIs, EndsOpen
  <2>5. CASE SaveCall(h)
    BY <2>1, <2>3, <2>5 DEF SaveCall, NowIs, EndsCall, Misses
  <2> QED BY <1>3, <2>1, <2>2, <2>4, <2>5 DEF CallerStep
<1> QED BY <1>1, <1>2, <1>3, CallKinds

(* A call gets its copy by reading the record, and keeps its job.           *)
LEMMA CallComes ==
  ASSUME TypeOK, NEW h \in Callers, Call(h) \/ CallerStep(h), pc'[h] = "engine"
  PROVE  \/ pc[h] = "engine" /\ UNCHANGED <<job[h], snap[h], store>> /\ todo'[h] \subseteq todo[h]
         \/ ReadsOpen(h)
<1>1. Opens(h) \/ ReadsOpen(h) \/ Applies(h) \/ EndsOpen(h) \/ EndsCall(h)
  BY CallerKinds
<1>2. ~Opens(h) /\ ~EndsOpen(h) /\ ~EndsCall(h)
  BY DEF Opens, EndsOpen, EndsCall, Returned
<1> QED BY <1>1, <1>2 DEF Applies

(* The steps that are no goroutine's of these.                              *)
Background ==
    \/ UNCHANGED vars
    \/ \E price \in Prices : OnPrice(price)
    \/ \E e \in Entry : Dispatch(e)
    \/ RunStep \/ AdvanceClock

LEMMA BackgroundKeeps ==
  ASSUME Background
  PROVE  UNCHANGED <<store, pc, job, snap, todo, raced, missed>>
  BY DEF Background, vars, OnPrice, Dispatch, RunStep, ListActive, RegisterListed, StartRun,
     AdvanceClock, procVars, historyVars

LEMMA NextKinds ==
  ASSUME [Next]_vars
  PROVE  \/ Background
         \/ \E w \in Workers : WorkerStep(w)
         \/ \E h \in Callers : Call(h) \/ CallerStep(h)
         \/ \E W \in SUBSET Workers : Crash(W)
  BY DEF Next, Background

LEMMA NobodyRuns ==
  ASSUME FeedInv, NEW w \in Workers, WorkerStep(w)
  PROVE  run = "running"
  BY DEF FeedInv, WorkerStep, TakeEvent, LockPosition, Load, Allow, PermitIsExpired,
     PermitIsActivated, ActivatePermit, SaveActivation, SuspendLevel, SaveSuspension,
     SubmitSwap, SwapMined, SwapReverted, PersistFill, RetireLevel, ReportExecution, NowIs

-----------------------------------------------------------------------------
(* OverlapInv.                                                              *)

LEMMA FeedNext ==
  ASSUME TypeOK, FeedInv, [Next]_vars
  PROVE  FeedInv'
<1>1. CASE UNCHANGED vars
  BY <1>1 DEF vars, FeedInv
<1>2. ASSUME NEW price \in Prices, OnPrice(price) PROVE FeedInv'
  BY <1>2, PositionAssumption DEF OnPrice, FeedInv, runVars
<1>3. ASSUME NEW e \in Entry, Dispatch(e) PROVE FeedInv'
  <2>1. outbox # Nothing
    BY <1>3 DEF Dispatch, Nothing
  <2>2. tick # 0 /\ run = "running" /\ UNCHANGED run
    BY <1>3, <2>1 DEF FeedInv, Dispatch, runVars
  <2>3. tick' = 0 => outbox' = Nothing
    BY <1>3, <2>2 DEF Dispatch
  <2> QED BY <2>2, <2>3 DEF FeedInv
<1>4. ASSUME NEW w \in Workers, WorkerStep(w) PROVE FeedInv'
  BY <1>4, NobodyRuns, WorkerKinds DEF FeedInv
<1>5. ASSUME NEW h \in Callers, Call(h) \/ CallerStep(h) PROVE FeedInv'
  <2>1. \A w \in Workers : w \in Procs \ {h}
    BY ProcsApart
  <2> QED BY <1>5, <2>1, CallerKinds DEF FeedInv, Alone
<1>6. CASE RunStep \/ AdvanceClock
  BY <1>6 DEF RunStep, ListActive, RegisterListed, StartRun, AdvanceClock, FeedInv, feedVars,
     procVars
<1>7. ASSUME NEW W \in SUBSET Workers, Crash(W) PROVE FeedInv'
  BY <1>7, ProcsApart DEF Crash, FeedInv
<1> QED BY <1>1, <1>2, <1>3, <1>4, <1>5, <1>6, <1>7 DEF Next

LEMMA HostNext ==
  ASSUME TypeOK, HostInv, [Next]_vars
  PROVE  HostInv'
<1>1. CASE Background
  BY <1>1, BackgroundKeeps DEF HostInv
<1>2. ASSUME NEW w \in Workers, WorkerStep(w) PROVE HostInv'
  <2>1. \A h \in Callers : UNCHANGED <<pc[h], job[h], snap[h], todo[h]>>
    BY <1>2, WorkerKinds, ProcsApart DEF Alone
  <2> QED BY <2>1 DEF HostInv
<1>3. ASSUME NEW h \in Callers, Call(h) \/ CallerStep(h) PROVE HostInv'
  <2>1. Alone(h)
    BY <1>3, CallerKinds
  <2>2. /\ pc'[h] = "engine" => job'[h].op # "open"
        /\ (pc'[h] = "engine" /\ job'[h].op \in {"cancel", "removeLevel", "expire"})
              => todo'[h] \cap ActiveLevels(snap'[h]) = {}
    <3>1. SUFFICES ASSUME pc'[h] = "engine"
                   PROVE  /\ job'[h].op # "open"
                          /\ job'[h].op \in {"cancel", "removeLevel", "expire"}
                               => todo'[h] \cap ActiveLevels(snap'[h]) = {}
      OBVIOUS
    <3>2. CASE ReadsOpen(h)
      BY <3>2 DEF ReadsOpen, JobOn, Copies
    <3>3. CASE pc[h] = "engine" /\ UNCHANGED <<job[h], snap[h]>> /\ todo'[h] \subseteq todo[h]
      BY <3>3 DEF HostInv
    <3> QED BY <1>3, <3>1, <3>2, <3>3, CallComes
  <2>3. pc'[h] = "register" => job'[h].op = "open"
    <3>1. CASE Opens(h)
      BY <3>1 DEF Opens, JobOn
    <3>2. CASE Applies(h)
      BY <3>2 DEF Applies, HostInv
    <3>3. CASE ReadsOpen(h) \/ EndsOpen(h) \/ EndsCall(h)
      BY <3>3 DEF ReadsOpen, EndsOpen, EndsCall, Returned
    <3> QED BY <1>3, <3>1, <3>2, <3>3, CallerKinds
  <2>4. ASSUME NEW g \in Callers \ {h} PROVE UNCHANGED <<pc[g], job[g], snap[g], todo[g]>>
    BY <2>1, ProcsApart DEF Alone
  <2> QED BY <2>2, <2>3, <2>4 DEF HostInv
<1>4. ASSUME NEW W \in SUBSET Workers, Crash(W) PROVE HostInv'
  BY <1>4, ProcsApart DEF Crash, HostInv
<1> QED BY <1>1, <1>2, <1>3, <1>4, NextKinds

LEMMA AloneNext ==
  ASSUME TypeOK, AloneInv, [Next]_vars
  PROVE  AloneInv'
<1>1. CASE Background
  BY <1>1, BackgroundKeeps DEF AloneInv, InWorkers
<1>2. ASSUME NEW w \in Workers, WorkerStep(w) PROVE AloneInv'
  <2>1. Alone(w) /\ raced \subseteq raced'
    BY <1>2, WorkerKinds DEF Remembers
  <2>2. \A h \in Callers : UNCHANGED <<pc[h], job[h]>>
    BY <2>1, ProcsApart DEF Alone
  <2>3. ASSUME NEW h \in Callers, pc[h] = "engine", job[h].pos \notin raced',
               NEW v \in Workers, pc'[v] \in HasCopy, job'[v].pos = job[h].pos
        PROVE  FALSE
    <3>1. pc[v] \notin HasCopy \/ job[v].pos # job[h].pos
      BY <2>1, <2>3 DEF AloneInv, InWorkers
    <3>2. v = w
      BY <2>1, <2>3, <3>1, ProcsApart DEF Alone
    <3>3. job'[w] = job[w] /\ Reads(w)
      BY <1>2, <2>3, <3>1, <3>2, CopyComes
    <3>4. Calling(job[w].pos)
      BY <2>3, <3>2, <3>3 DEF Calling, NowIs
    <3> QED BY <2>3, <3>2, <3>3, <3>4 DEF Reads
  <2>4. ASSUME NEW h \in Callers, pc'[h] = "engine", job'[h].pos \notin raced'
        PROVE  /\ ~InWorkers(job[h].pos)'
               /\ \A g \in Callers : (pc'[g] = "engine" /\ job'[g].pos = job'[h].pos) => g = h
    <3>1. pc[h] = "engine" /\ job'[h] = job[h] /\ job[h].pos \notin raced
      BY <2>1, <2>2, <2>4
    <3>2. ~InWorkers(job[h].pos)'
      BY <2>3, <2>4, <3>1 DEF InWorkers
    <3> QED BY <2>2, <3>1, <3>2 DEF AloneInv
  <2> QED BY <2>4 DEF AloneInv
<1>3. ASSUME NEW h \in Callers, Call(h) \/ CallerStep(h) PROVE AloneInv'
  <2>1. Alone(h) /\ raced \subseteq raced'
    BY <1>3, CallerKinds DEF Remembers
  <2>2. \A p : InWorkers(p)' <=> InWorkers(p)
    BY <2>1, ProcsApart DEF Alone, InWorkers
  <2>3. ASSUME NEW g \in Callers, pc'[g] = "engine", job'[g].pos \notin raced'
        PROVE  /\ ~InWorkers(job'[g].pos)
               /\ \A f \in Callers : (pc'[f] = "engine" /\ job'[f].pos = job'[g].pos) => f = g
    <3>1. \A f \in Callers \ {h} : UNCHANGED <<pc[f], job[f]>>
      BY <2>1, ProcsApart DEF Alone
    <3>2. CASE ReadsOpen(h)
      <4>1. PICK p \in Positions : /\ pc[h] = "idle" /\ job'[h].pos = p
                                   /\ (Calling(p) \/ InWorkers(p)) => p \in raced'
        BY <3>2 DEF ReadsOpen, JobOn
      <4>2. CASE g = h
        BY <2>3, <3>1, <4>1, <4>2 DEF Calling, NowIs
      <4>3. CASE g # h
        <5>1. pc[g] = "engine" /\ job'[g] = job[g] /\ job[g].pos \notin raced
          BY <2>1, <2>3, <3>1, <4>3
        <5>2. job[g].pos # p
          BY <2>3, <4>1, <5>1 DEF Calling, NowIs
        <5> QED BY <3>1, <4>1, <5>1, <5>2 DEF AloneInv
      <4> QED BY <4>2, <4>3
    <3>3. CASE ~ReadsOpen(h)
      <4>1. ASSUME NEW f \in Callers, pc'[f] = "engine" PROVE pc[f] = "engine" /\ job'[f] = job[f]
        BY <1>3, <3>1, <3>3, <4>1, CallComes
      <4> QED BY <2>1, <2>3, <4>1 DEF AloneInv
    <3> QED BY <3>2, <3>3
  <2> QED BY <2>2, <2>3 DEF AloneInv
<1>4. ASSUME NEW W \in SUBSET Workers, Crash(W) PROVE AloneInv'
  BY <1>4, ProcsApart DEF Crash, AloneInv
<1> QED BY <1>1, <1>2, <1>3, <1>4, NextKinds

(* A goroutine has a record it may yet write.                               *)
InHand(g) == \/ g \in Workers /\ pc[g] \in HasCopy
             \/ g \in Callers /\ pc[g] = "engine"

(* A step of goroutine q keeps LivingInv when it writes an open record, or  *)
(* where the position was raced, or where nobody else works on it.          *)
LEMMA LivingKeeps ==
  ASSUME LivingInv, NEW q \in Procs, Alone(q), raced \subseteq raced',
         \A p \in Positions :
            \/ store'[p] = store[p]
            \/ /\ store'[p].state # "none"
               /\ \/ IsOpen(store'[p])
                  \/ p \in raced'
                  \/ \A g \in Procs \ {q} : InHand(g) => job[g].pos # p,
         \A g \in Procs : InHand(g) => job[g].pos \in Positions,
         pc'[q] \in Keeping => snap'[q].state # "none",
         q \in Workers =>
            /\ (pc'[q] \in HasCopy \ {"retire"} /\ job'[q].pos \notin raced')
                  => IsOpen(store'[job'[q].pos])
            /\ pc'[q] \in Executing \cup {"suspend"} => IsOpen(snap'[q]),
         q \in Callers =>
            ((pc'[q] = "engine" /\ job'[q].pos \notin raced') => IsOpen(store'[job'[q].pos]))
  PROVE  LivingInv'
<1>1. \A p \in Positions : store'[p].state = "none" => ActiveLevels(store'[p]) = {}
  BY DEF LivingInv
<1>2. \A g \in Procs : pc'[g] \in Keeping => snap'[g].state # "none"
  BY DEF LivingInv, Alone
<1>3. ASSUME NEW g \in Procs \ {q}, InHand(g), job[g].pos \notin raced',
             IsOpen(store[job[g].pos])
      PROVE  IsOpen(store'[job[g].pos])
  BY <1>3
<1>4. ASSUME NEW v \in Workers
      PROVE  /\ (pc'[v] \in HasCopy \ {"retire"} /\ job'[v].pos \notin raced')
                   => IsOpen(store'[job'[v].pos])
             /\ pc'[v] \in Executing \cup {"suspend"} => IsOpen(snap'[v])
  <2>1. CASE v = q
    BY <2>1
  <2>2. CASE v # q
    <3>1. UNCHANGED <<pc[v], job[v], snap[v]>> /\ v \in Procs \ {q}
      BY <2>2, ProcsApart DEF Alone
    <3>2. pc[v] \in HasCopy => InHand(v)
      BY DEF InHand
    <3> QED BY <1>3, <3>1, <3>2 DEF LivingInv
  <2> QED BY <2>1, <2>2
<1>5. ASSUME NEW h \in Callers, pc'[h] = "engine", job'[h].pos \notin raced'
      PROVE  IsOpen(store'[job'[h].pos])
  <2>1. CASE h = q
    BY <1>5, <2>1
  <2>2. CASE h # q
    <3>1. UNCHANGED <<pc[h], job[h], snap[h]>> /\ h \in Procs \ {q}
      BY <2>2, ProcsApart DEF Alone
    <3>2. InHand(h)
      BY <1>5, <3>1 DEF InHand
    <3> QED BY <1>3, <1>5, <3>1, <3>2 DEF LivingInv
  <2> QED BY <2>1, <2>2
<1> QED BY <1>1, <1>2, <1>4, <1>5 DEF LivingInv

LEMMA WorkerLiving ==
  ASSUME IInv, AloneInv, LivingInv, NEW w \in Workers, WorkerStep(w)
  PROVE  LivingInv'
<1> DEFINE p == job[w].pos
<1>1. /\ w \in Procs /\ w \notin Callers /\ Alone(w) /\ raced \subseteq raced'
      /\ \/ Takes(w) \/ Waits(w) \/ Reads(w) \/ Drops(w) \/ Retries(w) \/ GoesOn(w)
         \/ Expires(w) \/ Activates(w) \/ Saves(w) \/ Unregisters(w) \/ Suspends(w)
         \/ Fills(w) \/ Persists(w) \/ Fails(w) \/ Reports(w)
  BY WorkerKinds, ProcsApart DEF IInv, Remembers
<1>2. \A g \in Procs : InHand(g) => job[g].pos \in Positions
  BY DEF IInv, TypeOK, InHand, HasCopy, Executing, Filled
<1>3. pc[w] \in HasCopy =>
        /\ p \in Positions /\ job[w].lvl \in Slots
        /\ snap[w] \in PositionRecord /\ store[p] \in PositionRecord
        /\ snap[w].state # "none"
  BY <1>1 DEF LivingInv, Keeping, IInv, TypeOK, Job, HasCopy, Executing, Filled
<1>4. ASSUME UNCHANGED store, pc'[w] \notin HasCopy
      PROVE  LivingInv'
  <2>1. pc'[w] # "engine"
    BY <1>1 DEF Takes, Waits, Reads, Drops, Retries, GoesOn, Expires, Activates, Saves,
       Unregisters, Suspends, Fills, Persists, Fails, Reports, GoesTo, Returned
  <2>2. pc'[w] \notin Keeping /\ pc'[w] \notin Executing \cup {"suspend"}
    BY <1>4, <2>1 DEF Keeping, HasCopy
  <2> QED BY <1>1, <1>2, <1>4, <2>2, LivingKeeps
<1>5. ASSUME UNCHANGED store, pc[w] \in HasCopy, UNCHANGED job[w],
             snap'[w].state \in {snap[w].state},
             pc'[w] \in HasCopy \ {"retire"} => pc[w] \in HasCopy \ {"retire"},
             pc'[w] \in Executing \cup {"suspend"} => pc[w] \in Executing \cup {"suspend"}
      PROVE  LivingInv'
  <2>1. (pc'[w] \in HasCopy \ {"retire"} /\ job'[w].pos \notin raced')
           => IsOpen(store'[job'[w].pos])
    BY <1>1, <1>5 DEF LivingInv
  <2>2. pc'[w] \in Executing \cup {"suspend"} => IsOpen(snap'[w])
    BY <1>5 DEF LivingInv, IsOpen
  <2> QED BY <1>1, <1>2, <1>3, <1>5, <2>1, <2>2, LivingKeeps
<1>6. CASE Takes(w) \/ Waits(w) \/ Drops(w) \/ Retries(w) \/ Fails(w) \/ Reports(w)
  BY <1>4, <1>6 DEF Takes, Waits, Drops, Retries, Fails, Reports, Still, GoesTo, Returned,
     HasCopy, Executing, Filled
<1>7. CASE Reads(w)
  <2>1. p \in Positions /\ job'[w] = job[w] /\ snap'[w] = store[p] /\ UNCHANGED store
        /\ job[w].lvl \in Slots
    BY <1>1, <1>7 DEF Reads, GoesTo, Still, IInv, TypeOK, Job
  <2>2. job[w].lvl \in ActiveLevels(store[p]) /\ ~IsTerminal(store[p])
    BY <1>7, <2>1 DEF Reads, CanExecute, ActiveLevels, WithStatus
  <2>3. store[p].state # "none" /\ store[p] \in PositionRecord
    BY <2>1, <2>2 DEF LivingInv, IInv, TypeOK
  <2>4. IsOpen(store[p])
    BY <2>2, <2>3 DEF IsTerminal, IsOpen, PositionRecord, PositionState
  <2> QED BY <1>1, <1>2, <2>1, <2>3, <2>4, LivingKeeps
<1>8. CASE GoesOn(w) \/ Unregisters(w)
  BY <1>5, <1>8 DEF GoesOn, Unregisters, GoesTo, Still, HasCopy, Executing, Filled
<1>9. CASE Expires(w)
  <2>1. /\ pc[w] = "permit" /\ pc'[w] = "suspend" /\ job'[w] = job[w] /\ UNCHANGED store
        /\ snap'[w] = Mark(snap[w], ActiveLevels(snap[w]), "suspended")
    BY <1>9 DEF Expires, Still
  <2>2. pc[w] \in HasCopy /\ pc[w] \in Executing \cup {"suspend"} /\ pc[w] \in HasCopy \ {"retire"}
    BY <2>1 DEF HasCopy, Executing
  <2>3. snap'[w].state = snap[w].state
    BY <1>3, <2>1, <2>2 DEF Mark, PositionRecord
  <2> QED BY <1>5, <2>1, <2>2, <2>3
<1>10. CASE Activates(w)
  <2>1. /\ pc[w] = "permit" /\ job'[w] = job[w] /\ UNCHANGED store
        /\ snap'[w] = [snap[w] EXCEPT !.activated = TRUE]
    BY <1>10 DEF Activates, Still, GoesTo
  <2>2. pc[w] \in HasCopy /\ pc[w] \in Executing \cup {"suspend"} /\ pc[w] \in HasCopy \ {"retire"}
    BY <2>1 DEF HasCopy, Executing
  <2>3. snap'[w].state = snap[w].state
    BY <1>3, <2>1, <2>2 DEF PositionRecord
  <2> QED BY <1>5, <2>1, <2>2, <2>3
<1>11. CASE Fills(w)
  <2>1. /\ pc[w] = "receipt" /\ pc'[w] = "persist" /\ job'[w] = job[w] /\ UNCHANGED store
        /\ snap'[w] = Fill(snap[w], job[w].lvl)
    BY <1>11 DEF Fills, Still
  <2>2. pc[w] \in HasCopy /\ pc[w] \in HasCopy \ {"retire"} /\ pc'[w] \notin Executing \cup {"suspend"}
    BY <2>1 DEF HasCopy, Executing
  <2>3. snap'[w].state # "none"
    BY <1>3, <2>1, <2>2, FillKeeps
  <2>4. job'[w].pos \notin raced' => IsOpen(store'[job'[w].pos])
    BY <1>1, <2>1, <2>2 DEF LivingInv
  <2> QED BY <1>1, <1>2, <2>1, <2>2, <2>3, <2>4, LivingKeeps
<1>12. CASE Saves(w) \/ Suspends(w) \/ Persists(w)
  <2>1. /\ pc[w] \in HasCopy /\ pc[w] \in Holding
        /\ pc[w] \in {"saveActivation", "suspend", "persist"}
        /\ WritesCopy(w) \/ UNCHANGED store
    BY <1>12 DEF Saves, Suspends, Persists, HasCopy, Holding, Executing, Filled
  <2>2. \A q \in Positions : \/ store'[q] = store[q]
                             \/ q = p /\ store'[q] = snap[w]
    BY <2>1 DEF WritesCopy, IInv, TypeOK
  <2>3. p \in raced' \/ \A g \in Procs \ {w} : InHand(g) => job[g].pos # p
    <3>1. SUFFICES ASSUME p \notin raced', NEW g \in Procs \ {w}, InHand(g), job[g].pos = p
                   PROVE  FALSE
      OBVIOUS
    <3>2. CASE g \in Workers
      <4>1. pc[g] \in Holding
        BY <3>1, <3>2, ProcsApart DEF InHand, Holding
      <4> QED BY <2>1, <3>1, <3>2, <4>1, Exclusive
    <3>3. CASE g \in Callers
      <4>1. pc[g] = "engine"
        BY <3>1, <3>3, ProcsApart DEF InHand
      <4>2. InWorkers(job[g].pos) /\ job[g].pos \notin raced
        BY <1>1, <2>1, <3>1 DEF InWorkers
      <4> QED BY <3>3, <4>1, <4>2 DEF AloneInv
    <3> QED BY <3>1, <3>2, <3>3 DEF Procs
  <2>4. pc'[w] \in Keeping => pc'[w] \in {"submit", "retire"} /\ UNCHANGED <<job[w], snap[w]>>
    BY <1>12 DEF Saves, Suspends, Persists, GoesTo, Returned, Keeping, HasCopy, Executing, Filled
  <2>5. CASE pc'[w] = "submit"
    <3>1. pc[w] = "saveActivation"
      BY <1>12, <2>5 DEF Saves, Suspends, Persists, GoesTo, Returned
    <3>2. IsOpen(snap[w]) /\ (p \notin raced => IsOpen(store[p]))
      BY <3>1 DEF LivingInv, HasCopy, Executing
    <3>3. pc'[w] \in Keeping
      BY <2>5 DEF Keeping, HasCopy, Executing
    <3>4. p \notin raced' => IsOpen(store'[p])
      BY <1>1, <1>3, <2>1, <2>2, <3>2
    <3> QED BY <1>1, <1>2, <1>3, <2>1, <2>2, <2>3, <2>4, <3>2, <3>3, <3>4, LivingKeeps
  <2>6. CASE pc'[w] # "submit"
    <3>1. pc'[w] \notin HasCopy \ {"retire"} /\ pc'[w] \notin Executing \cup {"suspend"}
      BY <2>4, <2>6 DEF Keeping, HasCopy, Executing, Filled
    <3> QED BY <1>1, <1>2, <1>3, <2>1, <2>2, <2>3, <2>4, <3>1, LivingKeeps
  <2> QED BY <2>5, <2>6
<1> QED BY <1>1, <1>6, <1>7, <1>8, <1>9, <1>10, <1>11, <1>12

LEMMA CallerLiving ==
  ASSUME IInv, AloneInv, LivingInv, NEW h \in Callers, Call(h) \/ CallerStep(h)
  PROVE  LivingInv'
<1>0. TypeOK
  BY DEF IInv
<1>1. /\ h \in Procs /\ h \notin Workers /\ Alone(h) /\ raced \subseteq raced'
      /\ Opens(h) \/ ReadsOpen(h) \/ Applies(h) \/ EndsOpen(h) \/ EndsCall(h)
  BY <1>0, CallerKinds, ProcsApart DEF Remembers
<1>2. \A g \in Procs : InHand(g) => job[g].pos \in Positions
  BY DEF IInv, TypeOK, InHand, HasCopy, Executing, Filled
<1>3. CASE Opens(h)
  <2>1. PICK p \in Positions, plan \in Plans :
               /\ store' = [store EXCEPT ![p] = plan] /\ pc'[h] = "register"
    BY <1>3 DEF Opens
  <2>2. plan.state = "active"
    BY ManagerAssumption
  <2>3. \A q \in Positions : \/ store'[q] = store[q]
                             \/ store'[q].state # "none" /\ IsOpen(store'[q])
    BY <1>0, <2>1, <2>2 DEF IsOpen, TypeOK
  <2>4. pc'[h] \notin Keeping /\ pc'[h] # "engine"
    BY <2>1 DEF Keeping, HasCopy, Executing, Filled
  <2> QED BY <1>1, <1>2, <2>3, <2>4, LivingKeeps
<1>4. CASE ReadsOpen(h)
  <2>1. PICK p \in Positions, op \in OpKinds \ {"open"} :
               /\ IsOpen(store[p]) /\ job'[h] = JobOn(op, p) /\ Copies(p, op, snap'[h], todo'[h])
               /\ UNCHANGED store
    BY <1>4 DEF ReadsOpen
  <2>2. job'[h].pos = p /\ snap'[h].state # "none"
    BY <2>1 DEF JobOn, Copies, IsOpen
  <2> QED BY <1>1, <1>2, <2>1, <2>2, LivingKeeps
<1>5. CASE Applies(h)
  <2>1. UNCHANGED <<store, snap[h], pc[h], job[h]>>
    BY <1>5 DEF Applies
  <2>2. pc'[h] \in Keeping => snap'[h].state # "none"
    BY <1>1, <2>1 DEF LivingInv
  <2>3. (pc'[h] = "engine" /\ job'[h].pos \notin raced') => IsOpen(store'[job'[h].pos])
    BY <1>1, <2>1 DEF LivingInv
  <2> QED BY <1>1, <1>2, <2>1, <2>2, <2>3, LivingKeeps
<1>6. CASE EndsOpen(h)
  <2>1. UNCHANGED store /\ pc'[h] \notin Keeping /\ pc'[h] # "engine"
    BY <1>6 DEF EndsOpen, Returned, Keeping, HasCopy, Executing, Filled
  <2> QED BY <1>1, <1>2, <2>1, LivingKeeps
<1>7. CASE EndsCall(h)
  <2> DEFINE p == job[h].pos
  <2>1. /\ pc'[h] \notin Keeping /\ pc'[h] # "engine" /\ pc[h] = "engine"
        /\ UNCHANGED store \/ store' = [store EXCEPT ![p] = snap[h]]
    BY <1>7 DEF EndsCall, Returned, Keeping, HasCopy, Executing, Filled
  <2>2. snap[h].state # "none"
    BY <1>1, <2>1 DEF LivingInv, Keeping
  <2>3. p \in raced' \/ \A g \in Procs \ {h} : InHand(g) => job[g].pos # p
    <3>1. SUFFICES ASSUME p \notin raced', NEW g \in Procs \ {h}, InHand(g), job[g].pos = p
                   PROVE  FALSE
      OBVIOUS
    <3>2. ~InWorkers(p) /\ \A f \in Callers : (pc[f] = "engine" /\ job[f].pos = p) => f = h
      BY <1>1, <2>1, <3>1 DEF AloneInv
    <3>3. CASE g \in Workers
      <4>1. pc[g] \in HasCopy
        BY <3>1, <3>3, ProcsApart DEF InHand
      <4> QED BY <3>1, <3>2, <3>3, <4>1 DEF InWorkers
    <3>4. CASE g \in Callers
      BY <3>1, <3>2, <3>4, ProcsApart DEF InHand
    <3> QED BY <3>1, <3>3, <3>4 DEF Procs
  <2>4. \A q \in Positions : \/ store'[q] = store[q]
                             \/ q = p /\ store'[q].state # "none"
    BY <1>0, <2>1, <2>2 DEF TypeOK
  <2> QED BY <1>1, <1>2, <2>1, <2>3, <2>4, LivingKeeps
<1> QED BY <1>1, <1>3, <1>4, <1>5, <1>6, <1>7

LEMMA LivingNext ==
  ASSUME IInv, AloneInv, LivingInv, [Next]_vars
  PROVE  LivingInv'
<1>1. CASE Background
  BY <1>1, BackgroundKeeps DEF LivingInv
<1>2. ASSUME NEW W \in SUBSET Workers, Crash(W) PROVE LivingInv'
  <2>1. UNCHANGED store /\ \A q \in Procs : pc'[q] = "idle"
    BY <1>2 DEF Crash
  <2> QED BY <2>1, ProcsApart DEF LivingInv, Keeping, HasCopy, Executing, Filled
<1> QED BY <1>1, <1>2, WorkerLiving, CallerLiving, NextKinds

LEMMA OverlapInit == Init => OverlapInv
<1> SUFFICES ASSUME Init PROVE OverlapInv
  OBVIOUS
<1>1. FeedInv /\ HostInv /\ AloneInv
  BY ProcsApart DEF Init, FeedInv, HostInv, AloneInv
<1>2. \A p \in Positions : ActiveLevels(store[p]) = {}
  BY DEF Init, NoPosition, NoLevel, ActiveLevels, WithStatus
<1>3. LivingInv
  BY <1>2, ProcsApart DEF Init, LivingInv, Keeping, HasCopy, Executing, Filled
<1> QED BY <1>1, <1>3, InitInv DEF OverlapInv

LEMMA OverlapNext ==
  ASSUME OverlapInv, [Next]_vars
  PROVE  OverlapInv'
<1>1. IInv /\ TypeOK /\ FeedInv /\ HostInv /\ AloneInv /\ LivingInv
  BY DEF OverlapInv, IInv
<1> QED BY <1>1, NextInv, FeedNext, HostNext, AloneNext, LivingNext DEF OverlapInv

-----------------------------------------------------------------------------
(* TerminalStaysTerminal.                                                   *)

StaysTerminal ==
    \A p \in Positions :
        (IsTerminal(store[p]) /\ p \notin raced) => store'[p].state = store[p].state

LEMMA TerminalNext ==
  ASSUME OverlapInv, [Next]_vars
  PROVE  StaysTerminal
<1>0. TypeOK /\ LivingInv
  BY DEF OverlapInv, IInv
<1>1. ASSUME UNCHANGED store PROVE StaysTerminal
  BY <1>1 DEF StaysTerminal
<1>2. ASSUME NEW q \in Procs, NEW rec,
             job[q].pos \in raced \/ ~IsTerminal(store[job[q].pos]),
             store' = [store EXCEPT ![job[q].pos] = rec]
      PROVE  StaysTerminal
  BY <1>0, <1>2 DEF StaysTerminal, TypeOK
<1>3. CASE Background
  BY <1>1, <1>3, BackgroundKeeps
<1>4. ASSUME NEW W \in SUBSET Workers, Crash(W) PROVE StaysTerminal
  BY <1>1, <1>4 DEF Crash
<1>5. ASSUME NEW w \in Workers, WorkerStep(w) PROVE StaysTerminal
  <2>1. \/ UNCHANGED store
        \/ WritesCopy(w) /\ pc[w] \in HasCopy \ {"retire"}
    BY <1>0, <1>5, WorkerKinds
    DEF Takes, Waits, Reads, Drops, Retries, GoesOn, Expires, Activates, Saves, Unregisters,
        Suspends, Fills, Persists, Fails, Reports, Still, HasCopy, Executing, Filled
  <2>2. pc[w] \in HasCopy \ {"retire"} =>
           job[w].pos \in raced \/ ~IsTerminal(store[job[w].pos])
    BY <1>0 DEF LivingInv, IsOpen, IsTerminal
  <2> QED BY <1>1, <1>2, <2>1, <2>2, ProcsApart DEF WritesCopy
<1>6. ASSUME NEW h \in Callers, Call(h) \/ CallerStep(h) PROVE StaysTerminal
  <2>1. Opens(h) \/ ReadsOpen(h) \/ Applies(h) \/ EndsOpen(h) \/ EndsCall(h)
    BY <1>0, <1>6, CallerKinds
  <2>2. CASE Opens(h)
    BY <1>0, <2>2 DEF Opens, StaysTerminal, IsTerminal, TypeOK
  <2>3. CASE EndsCall(h)
    <3>1. job[h].pos \in raced \/ ~IsTerminal(store[job[h].pos])
      BY <1>0, <2>3 DEF EndsCall, LivingInv, IsOpen, IsTerminal
    <3> QED BY <1>1, <1>2, <2>3, <3>1, ProcsApart DEF EndsCall
  <2>4. CASE ReadsOpen(h) \/ Applies(h) \/ EndsOpen(h)
    BY <1>1, <2>4 DEF ReadsOpen, Applies, EndsOpen
  <2> QED BY <2>1, <2>2, <2>3, <2>4
<1> QED BY <1>3, <1>4, <1>5, <1>6, NextKinds

(* A closed or cancelled position stays what it is, whatever fails and      *)
(* whenever the process dies, as long as no call of the host or of the      *)
(* expiry monitor (which write the record back without the lock) overlapped *)
(* an execution of the position or another call on it: the workers write    *)
(* only records of positions that are open, and so does a lone call.        *)
THEOREM TerminalStays == Spec => TerminalStaysTerminal
<1>1. Init => OverlapInv
  BY OverlapInit
<1>2. OverlapInv /\ [Next]_vars => OverlapInv'
  BY OverlapNext
<1>3. OverlapInv /\ [Next]_vars => [StaysTerminal]_vars
  BY TerminalNext
<1> HIDE DEF StaysTerminal
<1>4. Spec => [][StaysTerminal]_vars
  BY <1>1, <1>2, <1>3, PTL DEF Spec
<1> USE DEF StaysTerminal
<1> QED BY <1>4 DEF TerminalStaysTerminal

-----------------------------------------------------------------------------
(* FreshInv: a worker's copy and the record in the Store.                   *)

LEMMA FreshOthers ==
  ASSUME FreshInv, NEW q \in Procs, Alone(q), raced \subseteq raced',
         \A v \in Workers \ {q} : (pc[v] \in HasCopy /\ job[v].pos \notin raced') =>
            store'[job[v].pos] = store[job[v].pos],
         q \in Workers => /\ pc'[q] = "idle" => job'[q] = NoJob
                          /\ (pc'[q] # "idle" /\ job'[q].pos \notin raced') => Fresh(q)'
  PROVE  FreshInv'
<1>1. ASSUME NEW v \in Workers
      PROVE  /\ pc'[v] = "idle" => job'[v] = NoJob
             /\ (pc'[v] # "idle" /\ job'[v].pos \notin raced') => Fresh(v)'
  <2>1. CASE v = q
    BY <2>1
  <2>2. CASE v # q
    <3>1. UNCHANGED <<pc[v], job[v], snap[v], todo[v]>>
      BY <2>2, ProcsApart DEF Alone
    <3>2. pc[v] = "idle" => job[v] = NoJob
      BY DEF FreshInv
    <3>3. ASSUME pc[v] # "idle", job[v].pos \notin raced' PROVE Fresh(v)'
      <4>1. Fresh(v)
        BY <3>3 DEF FreshInv
      <4>2. CASE pc[v] \in HasCopy
        <5>1. store'[job[v].pos] = store[job[v].pos]
          BY <2>2, <3>3, <4>2
        <5> QED BY <3>1, <4>1, <5>1 DEF Fresh
      <4>3. CASE pc[v] \notin HasCopy
        BY <3>1, <4>1, <4>3 DEF Fresh, HasCopy, Executing, Filled
      <4> QED BY <4>2, <4>3
    <3> QED BY <3>1, <3>2, <3>3
  <2> QED BY <2>1, <2>2
<1> QED BY <1>1 DEF FreshInv

LEMMA WorkerFresh ==
  ASSUME IInv, FreshInv, NEW w \in Workers, WorkerStep(w)
  PROVE  FreshInv'
<1> DEFINE p == job[w].pos
<1>1. /\ w \in Procs /\ Alone(w) /\ raced \subseteq raced'
      /\ \/ Takes(w) \/ Waits(w) \/ Reads(w) \/ Drops(w) \/ Retries(w) \/ GoesOn(w)
         \/ Expires(w) \/ Activates(w) \/ Saves(w) \/ Unregisters(w) \/ Suspends(w)
         \/ Fills(w) \/ Persists(w) \/ Fails(w) \/ Reports(w)
  BY WorkerKinds, ProcsApart DEF IInv, Remembers
<1>2. pc[w] \in HasCopy => /\ p \in Positions /\ job[w].lvl \in Slots
                           /\ snap[w] \in PositionRecord /\ store[p] \in PositionRecord
  BY <1>1 DEF IInv, TypeOK, Job, HasCopy, Executing, Filled
<1>3. \A v \in Workers \ {w} : pc[v] \in HasCopy => store'[job[v].pos] = store[job[v].pos]
  <2>1. \/ UNCHANGED store
        \/ pc[w] \in Holding /\ WritesCopy(w)
    BY <1>1
    DEF Takes, Waits, Reads, Drops, Retries, GoesOn, Expires, Activates, Saves, Unregisters,
        Suspends, Fills, Persists, Fails, Reports, Still, Holding, HasCopy, Executing, Filled
  <2>2. ASSUME NEW v \in Workers \ {w}, pc[v] \in HasCopy, pc[w] \in Holding
        PROVE  job[v].pos # job[w].pos
    BY <2>2, Exclusive DEF Holding
  <2>3. \A v \in Workers : pc[v] \in HasCopy => job[v].pos \in Positions
    BY ProcsApart DEF IInv, TypeOK, HasCopy, Executing, Filled
  <2> QED BY <2>1, <2>2, <2>3 DEF WritesCopy, IInv, TypeOK
<1>4. pc'[w] = "idle" => job'[w] = NoJob
  BY <1>1
  DEF Takes, Waits, Reads, Drops, Retries, GoesOn, Expires, Activates, Saves, Unregisters,
      Suspends, Fills, Persists, Fails, Reports, GoesTo, Returned
<1>5. ASSUME pc'[w] # "idle", job'[w].pos \notin raced' PROVE Fresh(w)'
  <2>0. pc[w] \in HasCopy /\ p \notin raced => Fresh(w)
    BY DEF FreshInv, HasCopy, Executing, Filled
  <2>1. CASE Takes(w) \/ Waits(w)
    BY <2>1 DEF Takes, Waits, GoesTo, Fresh
  <2>2. CASE Reads(w)
    BY <2>2 DEF Reads, GoesTo, Still, Fresh
  <2>3. CASE Drops(w) \/ Retries(w) \/ Fails(w) \/ Reports(w) \/ Suspends(w)
    BY <1>5, <2>3 DEF Drops, Retries, Fails, Reports, Suspends, Returned
  <2>4. CASE GoesOn(w)
    <3>1. pc[w] \in HasCopy /\ p \notin raced /\ UNCHANGED <<job[w], snap[w], store>>
      BY <1>1, <1>5, <2>4 DEF GoesOn, GoesTo, Still, HasCopy, Executing
    <3>2. Fresh(w)
      BY <2>0, <3>1
    <3>3. snap[w] \in Loaded(store[p]) /\ (pc[w] # "submit" => snap[w] = store[p])
      BY <2>4, <3>2 DEF GoesOn, Fresh, Loaded
    <3>4. pc'[w] \in {"permit", "submit", "receipt"} /\ (pc[w] = "submit" => pc'[w] = "receipt")
      BY <2>4 DEF GoesOn, GoesTo
    <3> QED BY <3>1, <3>3, <3>4 DEF Fresh
  <2>5. CASE Expires(w)
    <3>1. /\ pc[w] = "permit" /\ pc'[w] = "suspend"
          /\ snap'[w] = Mark(snap[w], ActiveLevels(snap[w]), "suspended")
      BY <2>5 DEF Expires
    <3>2. snap[w] \in PositionRecord /\ "suspended" \in LevelStatus
      BY <1>2, <3>1 DEF HasCopy, Executing, LevelStatus
    <3>3. \A i \in Slots : snap'[w].levels[i].status
                             = IF i \in ActiveLevels(snap[w]) THEN "suspended"
                               ELSE snap[w].levels[i].status
      BY <3>1, <3>2, MarkType
    <3>4. ActiveLevels(snap'[w]) = {}
      BY <3>3 DEF ActiveLevels, WithStatus
    <3> QED BY <3>1, <3>4 DEF Fresh
  <2>6. CASE Activates(w)
    <3>1. pc[w] = "permit" /\ p \notin raced /\ UNCHANGED <<job[w], store>>
      BY <1>1, <1>5, <2>6 DEF Activates, GoesTo, Still
    <3>2. snap[w] = store[p]
      BY <2>0, <3>1 DEF Fresh, HasCopy, Executing
    <3> QED BY <2>6, <3>1, <3>2 DEF Activates, GoesTo, Fresh
  <2>7. CASE Saves(w)
    <3>1. /\ pc[w] = "saveActivation" /\ pc'[w] = "submit" /\ UNCHANGED <<job[w], snap[w]>>
          /\ p \notin raced
          /\ WritesCopy(w) \/ UNCHANGED store
      BY <1>1, <1>5, <2>7 DEF Saves, GoesTo
    <3>2. snap[w] = [store[p] EXCEPT !.activated = TRUE]
      BY <2>0, <3>1 DEF Fresh, HasCopy, Executing
    <3>3. store'[p] = snap[w] \/ store'[p] = store[p]
      BY <1>2, <3>1 DEF WritesCopy, IInv, TypeOK, HasCopy, Executing
    <3>4. snap[w] \in Loaded(store'[p])
      BY <3>2, <3>3 DEF Loaded
    <3> QED BY <3>1, <3>4 DEF Fresh
  <2>8. CASE Unregisters(w)
    <3>1. pc[w] \in {"suspend", "retire"} /\ p \notin raced
          /\ UNCHANGED <<pc[w], job[w], snap[w], store>> /\ todo'[w] \subseteq todo[w]
      BY <1>1, <1>5, <2>8 DEF Unregisters
    <3>2. Fresh(w)
      BY <2>0, <3>1 DEF HasCopy, Filled
    <3> QED BY <3>1, <3>2 DEF Fresh
  <2>9. CASE Fills(w)
    <3>1. /\ pc[w] = "receipt" /\ pc'[w] = "persist" /\ UNCHANGED <<job[w], store>>
          /\ snap'[w] = Fill(snap[w], job[w].lvl)
          /\ todo'[w] = CancelledBy(snap[w], job[w].lvl)
          /\ p \notin raced /\ pc[w] \in HasCopy
      BY <1>1, <1>5, <2>9 DEF Fills, Still, HasCopy, Executing
    <3>2. snap[w] \in Loaded(store[p])
      BY <2>0, <3>1 DEF Fresh
    <3>3. CancelledBy(snap[w], job[w].lvl) = CancelledBy(store[p], job[w].lvl)
      BY <1>2, <3>1, <3>2, LoadedSame
    <3> QED BY <3>1, <3>2, <3>3 DEF Fresh
  <2>10. CASE Persists(w)
    <3>1. /\ pc[w] = "persist" /\ pc'[w] = "retire" /\ UNCHANGED <<job[w], snap[w], todo[w]>>
          /\ WritesCopy(w) /\ pc[w] \in HasCopy /\ p \notin raced
      BY <1>1, <1>5, <2>10 DEF Persists, GoesTo, HasCopy, Filled
    <3>2. store'[p] = snap[w] /\ store[p] \in PositionRecord /\ job[w].lvl \in Slots
      BY <1>2, <3>1 DEF WritesCopy, IInv, TypeOK
    <3>3. Fresh(w)
      BY <2>0, <3>1
    <3>4. PICK old \in Loaded(store[p]) : snap[w] = Fill(old, job[w].lvl)
      BY <3>1, <3>3 DEF Fresh
    <3>5. todo[w] = CancelledBy(store[p], job[w].lvl)
      BY <3>1, <3>3 DEF Fresh
    <3>6. old \in PositionRecord /\ todo[w] = CancelledBy(old, job[w].lvl)
      BY <3>2, <3>5, LoadedSame
    <3>7. todo[w] \cap ActiveLevels(snap[w]) = {}
      BY <3>2, <3>4, <3>6, FillEntries
    <3> QED BY <3>1, <3>2, <3>7 DEF Fresh
  <2> QED BY <1>1, <2>1, <2>2, <2>3, <2>4, <2>5, <2>6, <2>7, <2>8, <2>9, <2>10
<1> QED BY <1>1, <1>3, <1>4, <1>5, FreshOthers

(* A caller that writes a record writes it where no worker executes, or the *)
(* position was raced.                                                      *)
LEMMA CallerFresh ==
  ASSUME OverlapInv, FreshInv, NEW h \in Callers, Call(h) \/ CallerStep(h)
  PROVE  FreshInv'
<1>0. IInv /\ TypeOK /\ AloneInv /\ LivingInv
  BY DEF OverlapInv, IInv
<1>1. /\ h \in Procs /\ h \notin Workers /\ Alone(h) /\ raced \subseteq raced'
      /\ Opens(h) \/ ReadsOpen(h) \/ Applies(h) \/ EndsOpen(h) \/ EndsCall(h)
  BY <1>0, CallerKinds, ProcsApart DEF Remembers
<1>2. ASSUME NEW v \in Workers, pc[v] \in HasCopy, job[v].pos \notin raced
      PROVE  store[job[v].pos].state # "none"
  <2>1. CASE pc[v] = "retire"
    <3>1. snap[v] = store[job[v].pos] /\ pc[v] \in Keeping
      BY <1>2, <2>1 DEF FreshInv, Fresh, Keeping
    <3> QED BY <1>0, <3>1, ProcsApart DEF LivingInv
  <2>2. CASE pc[v] # "retire"
    BY <1>0, <1>2, <2>2 DEF LivingInv, IsOpen
  <2> QED BY <2>1, <2>2
<1>3. ASSUME NEW v \in Workers, pc[v] \in HasCopy, job[v].pos \notin raced'
      PROVE  store'[job[v].pos] = store[job[v].pos]
  <2>1. CASE Opens(h)
    BY <1>0, <1>1, <1>2, <1>3, <2>1 DEF Opens, TypeOK
  <2>2. CASE EndsCall(h)
    <3>1. job[h].pos # job[v].pos
      BY <1>0, <1>1, <1>3, <2>2 DEF EndsCall, AloneInv, InWorkers
    <3>2. job[v].pos \in Positions
      BY <1>0, <1>3, ProcsApart DEF TypeOK, HasCopy, Executing, Filled
    <3> QED BY <1>0, <2>2, <3>1, <3>2 DEF EndsCall, TypeOK
  <2>3. CASE ReadsOpen(h) \/ Applies(h) \/ EndsOpen(h)
    BY <2>3 DEF ReadsOpen, Applies, EndsOpen
  <2> QED BY <1>1, <2>1, <2>2, <2>3
<1> QED BY <1>1, <1>3, FreshOthers

LEMMA FreshNext ==
  ASSUME OverlapInv, FreshInv, [Next]_vars
  PROVE  FreshInv'
<1>1. CASE Background
  BY <1>1, BackgroundKeeps DEF FreshInv, Fresh
<1>2. ASSUME NEW W \in SUBSET Workers, Crash(W) PROVE FreshInv'
  BY <1>2, ProcsApart DEF Crash, FreshInv
<1>3. ASSUME NEW w \in Workers, WorkerStep(w) PROVE FreshInv'
  BY <1>3, WorkerFresh DEF OverlapInv
<1> QED BY <1>1, <1>2, <1>3, CallerFresh, NextKinds

-----------------------------------------------------------------------------
(* The engine and the pipeline.                                             *)

LEMMA RegisteredKeeps ==
  ASSUME NEW eng \in [Entry -> Nat], NEW e \in Entry, NEW d \in Entry
  PROVE  /\ Registered(eng, e)[d] = IF d = e THEN eng[d] + 1 ELSE eng[d]
         /\ Registered(eng, e)[e] > 0
         /\ eng[d] > 0 => Registered(eng, e)[d] > 0
  BY DEF Registered

LEMMA UnregisteredKeeps ==
  ASSUME NEW eng \in [Entry -> Nat], NEW p, NEW l, NEW d \in Entry, d.pos # p \/ d.lvl # l
  PROVE  Unregistered(eng, p, l)[d] = eng[d] /\ Unregistered(eng, p, l) \in [Entry -> Nat]
  BY DEF Unregistered

(* Moving the trigger of a level is kept by every entry of another, and     *)
(* leaves the new entry registered.                                         *)
LEMMA UpdatedKeeps ==
  ASSUME TypeOK, NEW p \in Positions, NEW i \in Slots, NEW rec \in PositionRecord,
         UpdateTriggerPrice(p, i, rec)
  PROVE  /\ engine'[EntryOf(p, i, rec)] > 0
         /\ \A e \in Entry : (e.pos # p \/ e.lvl # i) => (engine[e] > 0 => engine'[e] > 0)
<1> DEFINE d == EntryOf(p, i, rec)
           eng == Unregistered(engine, p, i)
<1>1. d \in Entry /\ engine' = Registered(eng, d) /\ engine \in [Entry -> Nat]
  BY EntryOfType DEF UpdateTriggerPrice, TypeOK
<1>2. eng \in [Entry -> Nat]
  BY <1>1 DEF Unregistered
<1>3. engine'[d] > 0
  <2> HIDE DEF d, eng
  <2> QED BY <1>1, <1>2, RegisteredKeeps
<1>4. ASSUME NEW e \in Entry, e.pos # p \/ e.lvl # i, engine[e] > 0 PROVE engine'[e] > 0
  <2>1. eng[e] = engine[e]
    BY <1>1, <1>4, UnregisteredKeeps
  <2> HIDE DEF d, eng
  <2> QED BY <1>1, <1>2, <1>4, <2>1, RegisteredKeeps
<1> QED BY <1>3, <1>4

(* What is present stays so unless it was an event of the goroutine's own.  *)
LEMMA PresentStays ==
  ASSUME NEW q \in Procs, Alone(q), UNCHANGED <<outbox, execCh>>,
         NEW p, NEW l, NEW rec, Present(p, l, rec),
         engine[EntryOf(p, l, rec)] > 0 => engine'[EntryOf(p, l, rec)] > 0
  PROVE  Present(p, l, rec)' \/ (q \in Workers /\ LevelOf(q) = <<p, l>>)
<1>1. CASE \E e \in Entry : e = EntryOf(p, l, rec) /\ engine[e] > 0
  BY <1>1 DEF Present
<1>2. CASE InPipeline(<<p, l>>)
  <2>1. CASE \E w \in Workers : LevelOf(w) = <<p, l>>
    <3>1. PICK w \in Workers : LevelOf(w) = <<p, l>>
      BY <2>1
    <3>2. CASE w = q
      BY <3>1, <3>2
    <3>3. CASE w # q
      <4>1. job'[w] = job[w]
        BY <3>3, ProcsApart DEF Alone
      <4>2. LevelOf(w)' = <<p, l>>
        BY <3>1, <4>1 DEF LevelOf
      <4> QED BY <4>2 DEF Present, InPipeline
    <3> QED BY <3>2, <3>3
  <2>2. CASE ~ \E w \in Workers : LevelOf(w) = <<p, l>>
    <3>1. InPipeline(<<p, l>>)'
      BY <1>2, <2>2 DEF InPipeline
    <3> QED BY <3>1 DEF Present
  <2> QED BY <2>1, <2>2
<1> QED BY <1>1, <1>2 DEF Present

(* Taking an event out of the channel leaves its level in the pipeline.     *)
LEMMA TakesKeeps ==
  ASSUME TypeOK, FreshInv, NEW w \in Workers, Takes(w), Alone(w), UNCHANGED outbox,
         NEW p \in Positions, NEW l \in Slots, NEW rec, Present(p, l, rec)
  PROVE  Present(p, l, rec)'
<1>1. UNCHANGED engine /\ LevelOf(w)' = <<Head(execCh).pos, Head(execCh).lvl>>
  BY DEF Takes, LevelOf
<1>2. job[w].pos \notin Positions
  <2>1. job[w] = NoJob
    BY DEF FreshInv, Takes
  <2> QED BY <2>1, ManagerAssumption DEF NoJob, JobOn
<1>3. CASE \E e \in Entry : e = EntryOf(p, l, rec) /\ engine[e] > 0
  BY <1>1, <1>3 DEF Present
<1>4. CASE \E e \in Entry : <<e.pos, e.lvl>> = <<p, l>> /\ outbox[e] > 0
  BY <1>4 DEF Present, InPipeline
<1>5. CASE \E i \in DOMAIN execCh : <<execCh[i].pos, execCh[i].lvl>> = <<p, l>>
  <2>1. PICK i \in DOMAIN execCh : <<execCh[i].pos, execCh[i].lvl>> = <<p, l>>
    BY <1>5
  <2>2. CASE i = 1
    BY <1>1, <2>1, <2>2 DEF Present, InPipeline
  <2>3. CASE i # 1
    <3>1. /\ execCh \in Seq(Event) /\ execCh # <<>> /\ execCh' = Tail(execCh)
          /\ i \in 1..Len(execCh)
      BY <2>1 DEF Takes, TypeOK
    <3>2. i - 1 \in DOMAIN execCh' /\ execCh'[i - 1] = execCh[i]
      BY <2>3, <3>1
    <3> QED BY <2>1, <3>2 DEF Present, InPipeline
  <2> QED BY <2>2, <2>3
<1>6. CASE \E v \in Workers : LevelOf(v) = <<p, l>>
  <2>1. PICK v \in Workers : LevelOf(v) = <<p, l>>
    BY <1>6
  <2>2. v # w
    BY <1>2, <2>1 DEF LevelOf
  <2>3. LevelOf(v)' = <<p, l>>
    BY <2>1, <2>2, ProcsApart DEF Alone, LevelOf
  <2> QED BY <2>3 DEF Present, InPipeline
<1> QED BY <1>3, <1>4, <1>5, <1>6 DEF Present, InPipeline

(* What fires leaves the engine for the outbox.                             *)
LEMMA OnPriceKeeps ==
  ASSUME FeedInv, NEW price \in Prices, OnPrice(price),
         NEW p, NEW l, NEW rec, Present(p, l, rec)
  PROVE  Present(p, l, rec)'
<1>1. /\ UNCHANGED <<execCh, job>> /\ tick = 0
      /\ outbox' = Fired(engine, price) /\ engine' = Kept(engine, price)
  BY DEF OnPrice, procVars
<1>2. \A e \in Entry : outbox[e] = 0
  BY <1>1 DEF FeedInv, Nothing
<1>3. \A e \in Entry : engine[e] > 0 => engine'[e] > 0 \/ outbox'[e] > 0
  BY <1>1 DEF Fired, Kept
<1>4. CASE \E e \in Entry : e = EntryOf(p, l, rec) /\ engine[e] > 0
  <2>1. PICK e \in Entry : e = EntryOf(p, l, rec) /\ engine[e] > 0
    BY <1>4
  <2>2. e.pos = p /\ e.lvl = l
    BY <2>1 DEF EntryOf
  <2>3. CASE engine'[e] > 0
    BY <2>1, <2>3 DEF Present
  <2>4. CASE outbox'[e] > 0
    BY <2>2, <2>4 DEF Present, InPipeline
  <2> QED BY <1>3, <2>1, <2>3, <2>4
<1>5. CASE \E i \in DOMAIN execCh : <<execCh[i].pos, execCh[i].lvl>> = <<p, l>>
  BY <1>1, <1>5 DEF Present, InPipeline
<1>6. CASE \E w \in Workers : LevelOf(w) = <<p, l>>
  BY <1>1, <1>6 DEF Present, InPipeline, LevelOf
<1> QED BY <1>2, <1>4, <1>5, <1>6 DEF Present, InPipeline

(* An event leaves the outbox for the channel.                              *)
LEMMA DispatchKeeps ==
  ASSUME TypeOK, NEW e \in Entry, Dispatch(e), NEW p, NEW l, NEW rec, Present(p, l, rec)
  PROVE  Present(p, l, rec)'
<1>1. /\ UNCHANGED <<engine, job>>
      /\ execCh' = Append(execCh, [pos |-> e.pos, lvl |-> e.lvl, price |-> tick])
      /\ outbox' = [outbox EXCEPT ![e] = @ - 1]
  BY DEF Dispatch, procVars
<1>2. /\ \A d \in Entry \ {e} : outbox'[d] = outbox[d]
      /\ execCh \in Seq(Event)
  BY <1>1 DEF TypeOK
<1>3. /\ DOMAIN execCh \subseteq DOMAIN execCh'
      /\ \A i \in DOMAIN execCh : execCh'[i] = execCh[i]
      /\ Len(execCh) + 1 \in DOMAIN execCh'
      /\ execCh'[Len(execCh) + 1] = [pos |-> e.pos, lvl |-> e.lvl, price |-> tick]
  BY <1>1, <1>2
<1>4. CASE \E d \in Entry : <<d.pos, d.lvl>> = <<p, l>> /\ outbox[d] > 0
  <2>1. PICK d \in Entry : <<d.pos, d.lvl>> = <<p, l>> /\ outbox[d] > 0
    BY <1>4
  <2>2. CASE d = e
    <3>1. <<execCh'[Len(execCh) + 1].pos, execCh'[Len(execCh) + 1].lvl>> = <<p, l>>
      BY <1>3, <2>1, <2>2
    <3> QED BY <1>3, <3>1 DEF Present, InPipeline
  <2>3. CASE d # e
    BY <1>2, <2>1, <2>3 DEF Present, InPipeline
  <2> QED BY <2>2, <2>3
<1>5. CASE \E i \in DOMAIN execCh : <<execCh[i].pos, execCh[i].lvl>> = <<p, l>>
  BY <1>3, <1>5 DEF Present, InPipeline
<1>6. CASE \E w \in Workers : LevelOf(w) = <<p, l>>
  BY <1>1, <1>6 DEF Present, InPipeline, LevelOf
<1>7. CASE \E d \in Entry : d = EntryOf(p, l, rec) /\ engine[d] > 0
  BY <1>1, <1>7 DEF Present
<1> QED BY <1>4, <1>5, <1>6, <1>7 DEF Present, InPipeline

(* Run only registers.                                                      *)
LEMMA RunKeeps ==
  ASSUME TypeOK, RunStep \/ AdvanceClock \/ UNCHANGED vars,
         NEW p, NEW l, NEW rec, Present(p, l, rec)
  PROVE  Present(p, l, rec)'
<1>1. UNCHANGED <<outbox, execCh, job>>
  BY DEF RunStep, ListActive, RegisterListed, StartRun, AdvanceClock, vars, feedVars, procVars
<1>2. \A e \in Entry : engine[e] > 0 => engine'[e] > 0
  <2>1. CASE UNCHANGED engine
    BY <2>1
  <2>2. ASSUME NEW q \in Positions, NEW i \in Slots, RegisterListed(q, i)
        PROVE  \A e \in Entry : engine[e] > 0 => engine'[e] > 0
    <3>1. /\ engine' = Registered(engine, EntryOf(q, i, listed[q]))
          /\ engine \in [Entry -> Nat] /\ listed[q] \in PositionRecord
      BY <2>2 DEF RegisterListed, Register, TypeOK
    <3>2. EntryOf(q, i, listed[q]) \in Entry
      BY <3>1, EntryOfType
    <3> QED BY <3>1, <3>2, RegisteredKeeps
  <2> QED BY <2>1, <2>2 DEF RunStep, ListActive, StartRun, AdvanceClock, vars
<1>3. CASE \E d \in Entry : d = EntryOf(p, l, rec) /\ engine[d] > 0
  BY <1>2, <1>3 DEF Present
<1>4. CASE InPipeline(<<p, l>>)
  BY <1>1, <1>4 DEF Present, InPipeline, LevelOf
<1> QED BY <1>3, <1>4 DEF Present

LEMMA BackgroundPresent ==
  ASSUME TypeOK, FeedInv, Background, NEW p, NEW l, NEW rec, Present(p, l, rec)
  PROVE  Present(p, l, rec)'
  BY OnPriceKeeps, DispatchKeeps, RunKeeps DEF Background

(* A worker changes only the record and the entries of its own position.    *)
LEMMA WorkerElsewhere ==
  ASSUME IInv, NEW w \in Workers, WorkerStep(w), pc[w] # "idle",
         NEW p \in Positions, p # job[w].pos
  PROVE  /\ store'[p] = store[p]
         /\ \A e \in Entry : e.pos = p => (engine[e] > 0 => engine'[e] > 0)
<1> DEFINE q == job[w].pos
<1>1. /\ w \in Procs /\ q \in Positions /\ job[w].lvl \in Slots /\ snap[w] \in PositionRecord
      /\ engine \in [Entry -> Nat] /\ todo[w] \subseteq Slots /\ TypeOK
  BY ProcsApart DEF IInv, TypeOK, Job
<1>2. /\ \/ Takes(w) \/ Waits(w) \/ Reads(w) \/ Drops(w) \/ Retries(w) \/ GoesOn(w)
         \/ Expires(w) \/ Activates(w) \/ Saves(w) \/ Unregisters(w) \/ Suspends(w)
         \/ Fills(w) \/ Persists(w) \/ Fails(w) \/ Reports(w)
  BY WorkerKinds DEF IInv
<1>3. store'[p] = store[p]
  <2>1. UNCHANGED store \/ WritesCopy(w)
    BY <1>2
    DEF Takes, Waits, Reads, Drops, Retries, GoesOn, Expires, Activates, Saves, Unregisters,
        Suspends, Fills, Persists, Fails, Reports, Still
  <2>2. store \in [Positions -> PositionRecord]
    BY DEF IInv, TypeOK
  <2> QED BY <2>1, <2>2 DEF WritesCopy
<1>4. ASSUME NEW e \in Entry, e.pos = p, engine[e] > 0
      PROVE  engine'[e] > 0
  <2>1. CASE Retries(w)
    <3> DEFINE d == EntryOf(q, job[w].lvl, snap[w])
    <3>1. d \in Entry /\ engine' = Registered(engine, d)
      BY <1>1, <2>1, EntryOfType DEF Retries
    <3> HIDE DEF d
    <3> QED BY <1>1, <1>4, <3>1, RegisteredKeeps
  <2>2. CASE Unregisters(w)
    <3>1. PICK i \in todo[w] : engine' = Unregistered(engine, q, i)
      BY <2>2 DEF Unregisters
    <3> QED BY <1>1, <1>4, <3>1, UnregisteredKeeps
  <2>3. CASE Reports(w)
    <3>1. CASE UNCHANGED engine
      BY <1>4, <3>1
    <3>2. CASE \E i \in SLToMove(snap[w], job[w].lvl) : UpdateTriggerPrice(q, i, snap[w])
      <4>1. PICK i \in SLToMove(snap[w], job[w].lvl) : UpdateTriggerPrice(q, i, snap[w])
        BY <3>2
      <4>2. i \in Slots
        BY <1>1, OneStopLoss
      <4> QED BY <1>1, <1>4, <4>1, <4>2, UpdatedKeeps
    <3> QED BY <2>3, <3>1, <3>2 DEF Reports
  <2>4. CASE ~Retries(w) /\ ~Unregisters(w) /\ ~Reports(w)
    BY <1>2, <1>4, <2>4
    DEF Takes, Waits, Reads, Drops, GoesOn, Expires, Activates, Saves, Suspends, Fills,
        Persists, Fails, Still
  <2> QED BY <2>1, <2>2, <2>3, <2>4
<1> QED BY <1>3, <1>4

(* A call's engine operation on level i keeps every entry of another, and   *)
(* if it registers it leaves the entry of its copy registered.              *)
LEMMA EngineCallKeeps ==
  ASSUME TypeOK, NEW h \in Callers, NEW i \in Slots, EngineCall(h, i), job[h].pos \in Positions
  PROVE  /\ \A e \in Entry : (e.pos # job[h].pos \/ e.lvl # i) => (engine[e] > 0 => engine'[e] > 0)
         /\ job[h].op \in {"open", "addLevel", "renew"} =>
              \A e \in Entry : engine[e] > 0 => engine'[e] > 0
         /\ job[h].op \notin {"cancel", "removeLevel", "expire"} =>
              engine'[EntryOf(job[h].pos, i, snap[h])] > 0
<1>1. /\ snap[h] \in PositionRecord /\ engine \in [Entry -> Nat]
  BY ProcsApart DEF TypeOK
<1>2. PICK d \in Entry : d = EntryOf(job[h].pos, i, snap[h])
  BY <1>1, EntryOfType
<1>3. CASE job[h].op \in {"open", "addLevel", "renew"}
  <2>1. engine' = Registered(engine, d)
    BY <1>2, <1>3 DEF EngineCall, Register
  <2> QED BY <1>1, <1>2, <1>3, <2>1, RegisteredKeeps
<1>4. CASE job[h].op \in {"cancel", "removeLevel", "expire"}
  <2>1. engine' = Unregistered(engine, job[h].pos, i)
    BY <1>4 DEF EngineCall, Unregister
  <2> QED BY <1>1, <1>4, <2>1, UnregisteredKeeps
<1>5. CASE job[h].op = "updateLevel"
  <2>1. UpdateTriggerPrice(job[h].pos, i, snap[h])
    BY <1>5 DEF EngineCall
  <2> QED BY <1>1, <1>5, <2>1, UpdatedKeeps
<1> QED BY <1>3, <1>4, <1>5 DEF EngineCall

-----------------------------------------------------------------------------
(* CallCopyInv: what a call has in its copy.                                *)

(* The conclusion of CallCopyInv for one level.                             *)
Accounted(h, p, l, rec) ==
    \/ l \in ActiveLevels(store[p]) /\ AsStored(p, l, rec)
    \/ l \in todo[h]
    \/ Present(p, l, rec)

(* It is kept where neither the record nor the entry changed.               *)
LEMMA CopyStays ==
  ASSUME NEW h \in Callers, NEW p, NEW l, NEW rec, Accounted(h, p, l, rec),
         store'[p] = store[p], todo'[h] = todo[h] \/ l \in todo'[h],
         Present(p, l, rec) => Present(p, l, rec)'
  PROVE  Accounted(h, p, l, rec)'
<1>1. CASE l \in ActiveLevels(store[p]) /\ AsStored(p, l, rec)
  BY <1>1 DEF Accounted, AsStored
<1>2. CASE l \in todo[h] \/ Present(p, l, rec)
  BY <1>2 DEF Accounted
<1> QED BY <1>1, <1>2 DEF Accounted

LEMMA CopyOf ==
  ASSUME CallCopyInv, NEW h \in Callers, pc[h] = "engine", NEW p, job[h].pos = p,
         p \notin raced \cup missed, NEW l \in ActiveLevels(snap[h])
  PROVE  Accounted(h, p, l, snap[h])
  BY DEF CallCopyInv, Accounted

LEMMA WorkerCopy ==
  ASSUME OverlapInv, FreshInv, CallCopyInv, NEW w \in Workers, WorkerStep(w)
  PROVE  CallCopyInv'
<1>0. IInv /\ TypeOK /\ AloneInv /\ LivingInv
  BY DEF OverlapInv, IInv
<1>1. /\ w \in Procs /\ Alone(w) /\ raced \subseteq raced' /\ missed \subseteq missed'
      /\ UNCHANGED outbox
      /\ \/ Takes(w) \/ Waits(w) \/ Reads(w) \/ Drops(w) \/ Retries(w) \/ GoesOn(w)
         \/ Expires(w) \/ Activates(w) \/ Saves(w) \/ Unregisters(w) \/ Suspends(w)
         \/ Fills(w) \/ Persists(w) \/ Fails(w) \/ Reports(w)
  BY <1>0, WorkerKinds, ProcsApart DEF Remembers
<1>2. \A h \in Callers : UNCHANGED <<pc[h], job[h], snap[h], todo[h]>>
  BY <1>1, ProcsApart DEF Alone
<1>3. ASSUME NEW h \in Callers, NEW p, NEW rec,
             pc[h] = "engine", job[h].pos = p, snap[h] = rec, p \notin raced' \cup missed',
             NEW l \in ActiveLevels(rec)
      PROVE  Accounted(h, p, l, rec)'
  <2>1. /\ Accounted(h, p, l, rec) /\ p \in Positions /\ l \in Slots /\ rec \in PositionRecord
        /\ p \notin raced
    BY <1>0, <1>1, <1>3, CopyOf, ProcsApart DEF TypeOK, ActiveLevels, WithStatus
  <2>2. EntryOf(p, l, rec) \in Entry /\ EntryOf(p, l, rec).pos = p
    BY <2>1, EntryOfType
  <2>3. CASE pc[w] = "idle"
    <3>1. Takes(w)
      BY <1>1, <2>3
      DEF Waits, Reads, Drops, Retries, GoesOn, Expires, Activates, Saves, Unregisters, Suspends,
          Fills, Persists, Fails, Reports, Executing
    <3>2. UNCHANGED store
      BY <3>1 DEF Takes
    <3>3. Present(p, l, rec) => Present(p, l, rec)'
      BY <1>0, <1>1, <2>1, <3>1, TakesKeeps
    <3> QED BY <1>2, <2>1, <3>2, <3>3, CopyStays
  <2>4. CASE pc[w] # "idle" /\ job[w].pos # p
    <3>1. store'[p] = store[p] /\ (engine[EntryOf(p, l, rec)] > 0 => engine'[EntryOf(p, l, rec)] > 0)
      BY <1>0, <2>1, <2>2, <2>4, WorkerElsewhere
    <3>2. UNCHANGED execCh
      BY <1>1, <2>4
      DEF Takes, Waits, Reads, Drops, Retries, GoesOn, Expires, Activates, Saves, Unregisters,
          Suspends, Fills, Persists, Fails, Reports, Still
    <3>3. LevelOf(w) # <<p, l>>
      BY <2>4 DEF LevelOf
    <3>4. Present(p, l, rec) => Present(p, l, rec)'
      BY <1>1, <3>1, <3>2, <3>3, PresentStays
    <3> QED BY <1>2, <2>1, <3>1, <3>4, CopyStays
  <2>5. CASE pc[w] # "idle" /\ job[w].pos = p
    <3>1. pc[w] \notin HasCopy /\ Calling(p)
      BY <1>0, <1>3, <2>1, <2>5 DEF AloneInv, InWorkers, Calling, NowIs
    <3>2. Waits(w)
      <4>1. Takes(w) \/ Waits(w) \/ Reads(w) \/ Drops(w)
        BY <1>1, <3>1
        DEF Retries, GoesOn, Expires, Activates, Saves, Unregisters, Suspends, Fills, Persists,
            Fails, Reports, HasCopy, Executing, Filled
      <4>2. ~Takes(w) /\ ~Reads(w) /\ ~Drops(w)
        BY <1>3, <2>5, <3>1 DEF Takes, Reads, Drops
      <4> QED BY <4>1, <4>2
    <3>3. UNCHANGED <<store, engine, execCh, job[w]>>
      BY <3>2 DEF Waits, Still, GoesTo
    <3>4. Present(p, l, rec) => Present(p, l, rec)'
      <4>1. LevelOf(w) = <<p, l>> => Present(p, l, rec)'
        BY <3>3 DEF LevelOf, Present, InPipeline
      <4> QED BY <1>1, <3>3, <4>1, PresentStays
    <3> QED BY <1>2, <2>1, <3>3, <3>4, CopyStays
  <2> QED BY <2>3, <2>4, <2>5
<1>4. \A h \in Callers : \A p, rec :
         (/\ pc'[h] = "engine" /\ job'[h].pos = p /\ snap'[h] = rec
          /\ p \notin raced' \cup missed') => \A l \in ActiveLevels(rec) : Accounted(h, p, l, rec)'
  BY <1>2, <1>3
<1> QED BY <1>4 DEF CallCopyInv, Accounted

LEMMA CallerCopy ==
  ASSUME OverlapInv, CallCopyInv, NEW h \in Callers, Call(h) \/ CallerStep(h)
  PROVE  CallCopyInv'
<1>0. TypeOK /\ HostInv /\ AloneInv /\ LivingInv
  BY DEF OverlapInv, IInv
<1>1. /\ h \in Procs /\ h \notin Workers
      /\ Alone(h) /\ UNCHANGED <<outbox, execCh>>
      /\ raced \subseteq raced' /\ missed \subseteq missed'
      /\ Opens(h) \/ ReadsOpen(h) \/ Applies(h) \/ EndsOpen(h) \/ EndsCall(h)
  BY <1>0, CallerKinds, ProcsApart DEF Remembers
<1>2. ASSUME NEW g \in Callers \ {h}, NEW p, NEW rec,
             pc'[g] = "engine", job'[g].pos = p, snap'[g] = rec, p \notin raced' \cup missed',
             NEW l \in ActiveLevels(rec)
      PROVE  Accounted(g, p, l, rec)'
  <2>1. UNCHANGED <<pc[g], job[g], snap[g], todo[g]>>
    BY <1>1, ProcsApart DEF Alone
  <2>2. /\ pc[g] = "engine" /\ job[g].pos = p /\ snap[g] = rec /\ p \notin raced \cup missed
    BY <1>1, <1>2, <2>1
  <2>3. /\ Accounted(g, p, l, rec) /\ p \in Positions /\ l \in Slots /\ rec \in PositionRecord
        /\ IsOpen(store[p])
    BY <1>0, <1>2, <2>2, CopyOf, ProcsApart DEF TypeOK, ActiveLevels, WithStatus, LivingInv
  <2>4. EntryOf(p, l, rec) \in Entry /\ EntryOf(p, l, rec).pos = p
    BY <2>3, EntryOfType
  <2>5. pc[h] = "engine" => job[h].pos # p
    BY <1>0, <2>2 DEF AloneInv
  <2>6. store'[p] = store[p]
    BY <1>0, <1>1, <2>3, <2>5
    DEF Opens, ReadsOpen, Applies, EndsOpen, EndsCall, TypeOK, IsOpen
  <2>7. engine[EntryOf(p, l, rec)] > 0 => engine'[EntryOf(p, l, rec)] > 0
    <3>1. CASE Applies(h)
      <4>1. PICK i \in todo[h] : EngineCall(h, i)
        BY <3>1 DEF Applies
      <4>2. i \in Slots /\ job[h].pos \in Positions /\ pc[h] \in {"engine", "register"}
        BY <1>0, <1>1, <3>1, <4>1 DEF Applies, TypeOK
      <4>3. pc[h] = "register" => job[h].op = "open"
        BY <1>0 DEF HostInv
      <4>4. job[h].pos # p \/ job[h].op \in {"open", "addLevel", "renew"}
        BY <2>5, <4>2, <4>3
      <4> QED BY <1>0, <2>4, <4>1, <4>2, <4>4, EngineCallKeeps
    <3>2. CASE ~Applies(h)
      BY <1>1, <3>2 DEF Opens, ReadsOpen, EndsOpen, EndsCall
    <3> QED BY <3>1, <3>2
  <2>8. Present(p, l, rec) => Present(p, l, rec)'
    BY <1>1, <2>7, PresentStays
  <2> QED BY <2>1, <2>3, <2>6, <2>8, CopyStays
<1>3. ASSUME NEW p, NEW rec,
             pc'[h] = "engine", job'[h].pos = p, snap'[h] = rec, p \notin raced' \cup missed',
             NEW l \in ActiveLevels(rec)
      PROVE  Accounted(h, p, l, rec)'
  <2>1. CASE ReadsOpen(h)
    <3>1. PICK q \in Positions, op \in OpKinds \ {"open"} :
                 /\ job'[h] = JobOn(op, q) /\ Copies(q, op, snap'[h], todo'[h]) /\ UNCHANGED store
      BY <2>1 DEF ReadsOpen
    <3>2. q = p
      BY <1>3, <3>1 DEF JobOn
    <3>3. l \in todo'[h] \/ (l \in ActiveLevels(store[p]) /\ AsStored(p, l, rec))
      BY <1>3, <3>1, <3>2 DEF Copies
    <3> QED BY <3>1, <3>3 DEF Accounted, AsStored
  <2>2. CASE ~ReadsOpen(h)
    <3>1. /\ pc[h] = "engine" /\ Applies(h) /\ UNCHANGED <<job[h], snap[h], store>>
      <4>1. pc[h] = "engine" /\ UNCHANGED <<job[h], snap[h], store>>
        BY <1>3, <2>2, CallComes, <1>0
      <4>2. ~Opens(h) /\ ~EndsOpen(h) /\ ~EndsCall(h)
        BY <1>3 DEF Opens, EndsOpen, EndsCall, Returned
      <4> QED BY <1>1, <2>2, <4>1, <4>2
    <3>2. /\ job[h].pos = p /\ snap[h] = rec /\ p \notin raced \cup missed
          /\ p \in Positions /\ l \in Slots /\ rec \in PositionRecord
      BY <1>0, <1>1, <1>3, <3>1 DEF TypeOK, ActiveLevels, WithStatus
    <3>3. Accounted(h, p, l, rec)
      BY <1>3, <3>1, <3>2, CopyOf
    <3>4. PICK i \in todo[h] : EngineCall(h, i) /\ todo'[h] = todo[h] \ {i}
      BY <3>1 DEF Applies
    <3>5. i \in Slots
      BY <1>0, <1>1, <3>4 DEF TypeOK
    <3>6. PICK e \in Entry : e = EntryOf(p, l, rec) /\ e.pos = p /\ e.lvl = l
      BY <3>2, EntryOfType
    <3>7. CASE l = i
      <4>1. job[h].op \notin {"cancel", "removeLevel", "expire"}
        BY <1>0, <1>3, <3>1, <3>2, <3>4, <3>7 DEF HostInv
      <4>2. engine'[e] > 0
        BY <1>0, <3>2, <3>4, <3>5, <3>6, <3>7, <4>1, EngineCallKeeps
      <4> QED BY <3>6, <4>2 DEF Accounted, Present
    <3>8. CASE l # i
      <4>1. engine[EntryOf(p, l, rec)] > 0 => engine'[EntryOf(p, l, rec)] > 0
        BY <1>0, <3>2, <3>4, <3>5, <3>6, <3>8, EngineCallKeeps
      <4>2. Present(p, l, rec) => Present(p, l, rec)'
        BY <1>1, <4>1, PresentStays
      <4>3. CASE l \in todo[h]
        BY <3>4, <3>8, <4>3 DEF Accounted
      <4>4. CASE Present(p, l, rec)
        BY <4>2, <4>4 DEF Accounted
      <4>5. CASE l \in ActiveLevels(store[p]) /\ AsStored(p, l, rec)
        BY <3>1, <4>5 DEF Accounted, AsStored
      <4> QED BY <3>3, <4>3, <4>4, <4>5 DEF Accounted
    <3> QED BY <3>7, <3>8
  <2> QED BY <2>1, <2>2
<1>4. \A g \in Callers : \A p, rec :
         (/\ pc'[g] = "engine" /\ job'[g].pos = p /\ snap'[g] = rec
          /\ p \notin raced' \cup missed') => \A l \in ActiveLevels(rec) : Accounted(g, p, l, rec)'
  <2>1. ASSUME NEW g \in Callers, NEW p, NEW rec,
               pc'[g] = "engine", job'[g].pos = p, snap'[g] = rec, p \notin raced' \cup missed',
               NEW l \in ActiveLevels(rec)
        PROVE  Accounted(g, p, l, rec)'
    <3>1. CASE g = h
      <4>1. Accounted(h, p, l, rec)'
        BY <1>3, <2>1, <3>1
      <4> QED BY <3>1, <4>1
    <3>2. CASE g # h
      BY <1>2, <2>1, <3>2
    <3> QED BY <3>1, <3>2
  <2> QED BY <2>1
<1> QED BY <1>4 DEF CallCopyInv, Accounted

LEMMA CopyNext ==
  ASSUME OverlapInv, FreshInv, CallCopyInv, [Next]_vars
  PROVE  CallCopyInv'
<1>0. TypeOK /\ FeedInv
  BY DEF OverlapInv, IInv
<1>1. CASE Background
  <2>1. UNCHANGED <<store, pc, job, snap, todo, raced, missed>>
    BY <1>1, BackgroundKeeps
  <2>2. ASSUME NEW h \in Callers, NEW p, NEW rec,
               pc[h] = "engine", job[h].pos = p, snap[h] = rec, p \notin raced \cup missed,
               NEW l \in ActiveLevels(rec)
        PROVE  Accounted(h, p, l, rec)'
    <3>1. Accounted(h, p, l, rec)
      BY <2>2, CopyOf
    <3>2. Present(p, l, rec) => Present(p, l, rec)'
      BY <1>0, <1>1, BackgroundPresent
    <3> QED BY <2>1, <3>1, <3>2, CopyStays
  <2> QED BY <2>1, <2>2 DEF CallCopyInv, Accounted
<1>2. ASSUME NEW W \in SUBSET Workers, Crash(W) PROVE CallCopyInv'
  BY <1>2, ProcsApart DEF Crash, CallCopyInv
<1> QED BY <1>1, <1>2, WorkerCopy, CallerCopy, NextKinds

-----------------------------------------------------------------------------
(* CoverInv: every active level of an open position is covered.             *)

(* What covered a level before a step of goroutine q covers it after, or it *)
(* was q's own work.                                                        *)
OwnWork(q, p, l) ==
    \/ q \in Workers /\ LevelOf(q) = <<p, l>>
    \/ /\ q \in Workers /\ job[q].pos = p
       /\ \/ pc[q] = "suspend"
          \/ pc[q] = "retire" /\ l \in SLToMove(snap[q], job[q].lvl)
    \/ /\ q \in Callers /\ pc[q] = "register" /\ job[q].pos = p
       /\ l \in todo[q] /\ AsStored(p, l, snap[q])
    \/ /\ q \in Callers /\ pc[q] = "engine" /\ job[q].pos = p
       /\ \/ l \in todo[q] /\ l \in ActiveLevels(snap[q])
          \/ ~(l \in ActiveLevels(snap[q]) /\ AsStored(p, l, snap[q]))

SameEntry(p, l) == EntryOf(p, l, store'[p]) = EntryOf(p, l, store[p])

StaysRegistered(p, l) ==
    engine[EntryOf(p, l, store[p])] > 0 => engine'[EntryOf(p, l, store[p])] > 0

LEMMA CoverStays ==
  ASSUME NEW q \in Procs, Alone(q), UNCHANGED <<run, listed, outbox, execCh>>,
         NEW p \in Positions, NEW l \in Slots,
         SameEntry(p, l), StaysRegistered(p, l), Covered(p, l)
  PROVE  Covered(p, l)' \/ OwnWork(q, p, l)
<1>0. \A rec : AsStored(p, l, rec) <=> EntryOf(p, l, rec) = EntryOf(p, l, store'[p])
  BY DEF AsStored, SameEntry
<1>1. CASE Present(p, l, store[p])
  <2>1. PICK rec : rec = store[p]
    OBVIOUS
  <2>2. Present(p, l, rec)' \/ (q \in Workers /\ LevelOf(q) = <<p, l>>)
    BY <1>1, <2>1, PresentStays DEF StaysRegistered
  <2>3. Present(p, l, rec)' => Present(p, l, store[p])'
    BY <2>1 DEF Present, SameEntry
  <2> QED BY <2>2, <2>3 DEF Covered, OwnWork
<1>2. CASE InList(p, l)
  <2>1. InList(p, l)'
    BY <1>0, <1>2 DEF InList, AsStored
  <2> QED BY <2>1 DEF Covered
<1>3. CASE Opening(p, l)
  <2>1. PICK h \in Callers :
               pc[h] = "register" /\ job[h].pos = p /\ l \in todo[h] /\ AsStored(p, l, snap[h])
    BY <1>3 DEF Opening
  <2>2. CASE h = q
    BY <2>1, <2>2 DEF OwnWork
  <2>3. CASE h # q
    <3>1. UNCHANGED <<pc[h], job[h], snap[h], todo[h]>>
      BY <2>3, ProcsApart DEF Alone
    <3>2. Opening(p, l)'
      BY <1>0, <2>1, <3>1 DEF Opening, AsStored
    <3> QED BY <3>2 DEF Covered
  <2> QED BY <2>2, <2>3
<1>4. CASE Moving(p, l)
  <2>1. PICK w \in Workers : /\ job[w].pos = p
                             /\ \/ pc[w] = "suspend"
                                \/ pc[w] = "retire" /\ l \in SLToMove(snap[w], job[w].lvl)
    BY <1>4 DEF Moving
  <2>2. CASE w = q
    BY <2>1, <2>2 DEF OwnWork
  <2>3. CASE w # q
    <3>1. UNCHANGED <<pc[w], job[w], snap[w], todo[w]>>
      BY <2>3, ProcsApart DEF Alone
    <3>2. Moving(p, l)'
      BY <2>1, <3>1 DEF Moving
    <3> QED BY <3>2 DEF Covered
  <2> QED BY <2>2, <2>3
<1>5. CASE InCall(p, l)
  <2>1. PICK h \in Callers :
               /\ pc[h] = "engine" /\ job[h].pos = p
               /\ \/ l \in todo[h] /\ l \in ActiveLevels(snap[h])
                  \/ ~(l \in ActiveLevels(snap[h]) /\ AsStored(p, l, snap[h]))
    BY <1>5 DEF InCall
  <2>2. CASE h = q
    BY <2>1, <2>2 DEF OwnWork
  <2>3. CASE h # q
    <3>1. UNCHANGED <<pc[h], job[h], snap[h], todo[h]>>
      BY <2>3, ProcsApart DEF Alone
    <3>2. PICK rec : rec = snap[h]
      OBVIOUS
    <3>3. AsStored(p, l, rec)' <=> AsStored(p, l, rec)
      BY <1>0 DEF AsStored
    <3>4. InCall(p, l)'
      BY <2>1, <3>1, <3>2, <3>3 DEF InCall, AsStored
    <3> QED BY <3>4 DEF Covered
  <2> QED BY <2>2, <2>3
<1> QED BY <1>1, <1>2, <1>3, <1>4, <1>5 DEF Covered

(* A level is covered while a worker that has its event goes on with it.    *)
LEMMA StillAtIt ==
  ASSUME NEW w \in Workers, NEW p, NEW l, UNCHANGED job[w], LevelOf(w) = <<p, l>>
  PROVE  Covered(p, l)'
  BY DEF Covered, Present, InPipeline, LevelOf

LEMMA NowPresent ==
  ASSUME NEW p, NEW l, EntryOf(p, l, store'[p]) \in Entry,
         engine'[EntryOf(p, l, store'[p])] > 0
  PROVE  Covered(p, l)'
  BY DEF Covered, Present

(* A step that takes an event covers what was covered.                      *)
LEMMA TakesCover ==
  ASSUME TypeOK, FreshInv, NEW w \in Workers, Takes(w), Alone(w),
         UNCHANGED <<outbox, run, listed>>,
         NEW p \in Positions, NEW l \in Slots, Covered(p, l)
  PROVE  Covered(p, l)'
<1>1. UNCHANGED <<store, engine>>
  BY DEF Takes
<1>2. job[w].pos \notin Positions
  <2>1. job[w] = NoJob
    BY DEF FreshInv, Takes
  <2> QED BY <2>1, ManagerAssumption DEF NoJob, JobOn
<1>3. ASSUME NEW g \in Procs, job[g].pos = p
      PROVE  UNCHANGED <<pc[g], job[g], snap[g], todo[g]>>
  BY <1>2, <1>3 DEF Alone
<1>4. CASE Present(p, l, store[p])
  <2>1. PICK rec : rec = store[p]
    OBVIOUS
  <2>2. Present(p, l, rec)'
    BY <1>4, <2>1, TakesKeeps
  <2> QED BY <1>1, <2>1, <2>2 DEF Covered
<1>5. CASE InList(p, l)
  BY <1>1, <1>5 DEF Covered, InList, AsStored
<1>6. CASE Opening(p, l)
  <2>1. PICK h \in Callers :
               pc[h] = "register" /\ job[h].pos = p /\ l \in todo[h] /\ AsStored(p, l, snap[h])
    BY <1>6 DEF Opening
  <2>2. UNCHANGED <<pc[h], job[h], snap[h], todo[h]>>
    BY <1>3, <2>1, ProcsApart
  <2> QED BY <1>1, <2>1, <2>2 DEF Covered, Opening, AsStored
<1>7. CASE Moving(p, l)
  <2>1. PICK v \in Workers : /\ job[v].pos = p
                             /\ \/ pc[v] = "suspend"
                                \/ pc[v] = "retire" /\ l \in SLToMove(snap[v], job[v].lvl)
    BY <1>7 DEF Moving
  <2> QED BY <1>3, <2>1, ProcsApart DEF Covered, Moving
<1>8. CASE InCall(p, l)
  <2>1. PICK h \in Callers :
               /\ pc[h] = "engine" /\ job[h].pos = p
               /\ \/ l \in todo[h] /\ l \in ActiveLevels(snap[h])
                  \/ ~(l \in ActiveLevels(snap[h]) /\ AsStored(p, l, snap[h]))
    BY <1>8 DEF InCall
  <2>2. UNCHANGED <<pc[h], job[h], snap[h], todo[h]>>
    BY <1>3, <2>1, ProcsApart
  <2> QED BY <1>1, <2>1, <2>2 DEF Covered, InCall, AsStored
<1> QED BY <1>4, <1>5, <1>6, <1>7, <1>8 DEF Covered

(* A worker's step on its own position: what stays the same of the record   *)
(* and of the engine is covered as it was, and the worker's own event and   *)
(* its own changes are followed.                                            *)
LEMMA WorkerCovers ==
  ASSUME IInv, LivingInv, FreshInv, NEW w \in Workers, WorkerStep(w),
         pc[w] # "idle", NEW p \in Positions, p = job[w].pos, p \notin raced' \cup missed',
         IsOpen(store'[p]), NEW l \in ActiveLevels(store'[p]),
         (IsOpen(store[p]) /\ l \in ActiveLevels(store[p])) => Covered(p, l)
  PROVE  Covered(p, l)'
<1> DEFINE k == job[w].lvl
           e == EntryOf(p, l, store[p])
<1>1. /\ w \in Procs /\ k \in Slots /\ snap[w] \in PositionRecord
      /\ engine \in [Entry -> Nat] /\ todo[w] \subseteq Slots
      /\ store \in [Positions -> PositionRecord]
      /\ l \in Slots /\ w \notin Callers /\ TypeOK
  BY ProcsApart DEF IInv, TypeOK, Job, ActiveLevels, WithStatus
<1>2. store[p] \in PositionRecord
  BY <1>1
<1>3. e \in Entry /\ e.pos = p /\ e.lvl = l
  BY <1>1, <1>2, EntryOfType
<1>4. /\ Alone(w) /\ UNCHANGED <<outbox, run, listed>> /\ p \notin raced
      /\ \/ Takes(w) \/ Waits(w) \/ Reads(w) \/ Drops(w) \/ Retries(w) \/ GoesOn(w)
         \/ Expires(w) \/ Activates(w) \/ Saves(w) \/ Unregisters(w) \/ Suspends(w)
         \/ Fills(w) \/ Persists(w) \/ Fails(w) \/ Reports(w)
  BY WorkerKinds DEF IInv, Remembers
<1>17. Fresh(w)
  BY <1>4 DEF FreshInv
<1>5. ASSUME SameEntry(p, l), StaysRegistered(p, l), UNCHANGED execCh,
             IsOpen(store[p]), l \in ActiveLevels(store[p]),
             \/ UNCHANGED job[w] \/ l # k,
             pc[w] = "suspend" => pc'[w] = "suspend" /\ UNCHANGED job[w],
             pc[w] = "retire" => \/ UNCHANGED <<pc[w], job[w], snap[w]>>
                                 \/ l \notin SLToMove(snap[w], k)
      PROVE  Covered(p, l)'
  <2>1. Covered(p, l)' \/ OwnWork(w, p, l)
    BY <1>1, <1>4, <1>5, CoverStays
  <2>2. CASE LevelOf(w) = <<p, l>>
    BY <1>5, <2>2, StillAtIt DEF LevelOf
  <2>3. CASE pc[w] = "suspend" \/ (pc[w] = "retire" /\ l \in SLToMove(snap[w], k))
    BY <1>5, <2>3 DEF Covered, Moving
  <2> QED BY <1>1, <2>1, <2>2, <2>3 DEF OwnWork
<1>6. ASSUME UNCHANGED <<store, engine>>
      PROVE  /\ SameEntry(p, l) /\ StaysRegistered(p, l)
             /\ IsOpen(store[p]) /\ l \in ActiveLevels(store[p])
  BY <1>6 DEF SameEntry, StaysRegistered
<1>7. CASE Waits(w) \/ Reads(w) \/ GoesOn(w) \/ Activates(w) \/ Fills(w)
  <2>1. /\ UNCHANGED <<store, engine, execCh, job[w]>>
        /\ pc[w] \notin {"suspend", "retire"}
    BY <1>7 DEF Waits, Reads, GoesOn, Activates, Fills, Still, GoesTo
  <2> QED BY <1>5, <1>6, <2>1
<1>8. CASE Drops(w)
  <2>1. UNCHANGED <<store, engine, execCh>> /\ pc[w] = "load"
    BY <1>8 DEF Drops, Still
  <2>2. ~CanExecute(store[p], k)
    BY <1>8 DEF Drops
  <2>3. l # k
    BY <1>6, <2>1, <2>2 DEF CanExecute, IsOpen, IsTerminal, ActiveLevels, WithStatus
  <2> QED BY <1>5, <1>6, <2>1, <2>3
<1>9. CASE Retries(w)
  <2> DEFINE d == EntryOf(p, k, snap[w])
  <2>1. /\ engine' = Registered(engine, d) /\ UNCHANGED <<store, execCh>>
        /\ pc[w] \in {"allow", "permit", "submit", "receipt"}
    BY <1>9 DEF Retries, Executing
  <2>2. snap[w] \in Loaded(store[p])
    BY <1>17, <2>1 DEF Fresh, Loaded
  <2>3. d \in Entry /\ d = EntryOf(p, k, store[p])
    BY <1>1, <1>2, <2>2, EntryOfType, LoadedSame
  <2>4. /\ engine[e] > 0 => engine'[e] > 0
        /\ engine'[d] > 0
    <3> HIDE DEF d, e
    <3> QED BY <1>1, <1>3, <2>1, <2>3, RegisteredKeeps
  <2>5. CASE l = k
    BY <1>3, <2>1, <2>3, <2>4, <2>5, NowPresent
  <2>6. CASE l # k
    BY <1>5, <2>1, <2>4, <2>6 DEF SameEntry, StaysRegistered
  <2> QED BY <2>5, <2>6
<1>10. CASE Expires(w)
  BY <1>10 DEF Expires, Covered, Moving
<1>11. CASE Saves(w)
  <2>1. /\ pc[w] = "saveActivation" /\ UNCHANGED <<job[w], engine, execCh>>
        /\ WritesCopy(w) \/ UNCHANGED store
    BY <1>11 DEF Saves, GoesTo
  <2>2. snap[w] = [store[p] EXCEPT !.activated = TRUE]
    BY <1>17, <2>1 DEF Fresh
  <2>3. store'[p] = store[p] \/ store'[p] = [store[p] EXCEPT !.activated = TRUE]
    BY <1>1, <2>1, <2>2 DEF WritesCopy
  <2>4. /\ store'[p].state = store[p].state /\ store'[p].levels = store[p].levels
        /\ store'[p].dir = store[p].dir
    BY <1>2, <2>3 DEF PositionRecord
  <2>5. /\ SameEntry(p, l) /\ StaysRegistered(p, l)
        /\ IsOpen(store[p]) /\ l \in ActiveLevels(store[p])
    BY <2>1, <2>4
    DEF SameEntry, StaysRegistered, EntryOf, IsOpen, ActiveLevels, WithStatus
  <2> QED BY <1>5, <2>1, <2>5
<1>12. CASE Unregisters(w)
  <2>1. /\ pc[w] \in {"suspend", "retire"} /\ UNCHANGED <<pc[w], job[w], snap[w], store, execCh>>
        /\ \E i \in todo[w] : engine' = Unregistered(engine, p, i)
    BY <1>12 DEF Unregisters
  <2>2. CASE pc[w] = "suspend"
    BY <2>1, <2>2 DEF Covered, Moving
  <2>3. CASE pc[w] = "retire"
    <3>1. l \in ActiveLevels(store[p]) /\ IsOpen(store[p])
      BY <2>1
    <3>2. PICK i \in todo[w] : engine' = Unregistered(engine, p, i)
      BY <2>1
    <3>3. i # l
      BY <1>17, <2>3, <3>1 DEF Fresh
    <3>4. engine'[e] = engine[e]
      <4> HIDE DEF e
      <4> QED BY <1>1, <1>3, <3>2, <3>3, UnregisteredKeeps
    <3>5. SameEntry(p, l) /\ StaysRegistered(p, l)
      BY <2>1, <3>4 DEF SameEntry, StaysRegistered
    <3> QED BY <1>5, <2>1, <2>3, <3>1, <3>5
  <2> QED BY <2>1, <2>2, <2>3
<1>13. CASE Suspends(w)
  <2>1. pc[w] = "suspend" /\ WritesCopy(w)
    BY <1>13 DEF Suspends
  <2>2. store'[p] = snap[w] /\ ActiveLevels(snap[w]) = {}
    BY <1>1, <1>17, <2>1 DEF WritesCopy, Fresh
  <2> QED BY <2>2
<1>14. CASE Persists(w)
  <2>1. /\ pc[w] = "persist" /\ pc'[w] = "retire" /\ UNCHANGED <<job[w], snap[w], engine, execCh>>
        /\ WritesCopy(w)
    BY <1>14 DEF Persists, GoesTo
  <2>2. PICK old \in Loaded(store[p]) : snap[w] = Fill(old, k)
    BY <1>17, <2>1 DEF Fresh
  <2>3. store'[p] = Fill(old, k) /\ store'[p] = snap[w]
    BY <1>1, <2>1, <2>2 DEF WritesCopy
  <2>4. IsOpen(store[p])
    BY <1>4, <2>1 DEF LivingInv, HasCopy, Filled
  <2>5. /\ old \in PositionRecord /\ ActiveLevels(old) = ActiveLevels(store[p])
        /\ EntryOf(p, l, old) = EntryOf(p, l, store[p])
    BY <1>2, LoadedSame
  <2>6. /\ l \in ActiveLevels(old)
        /\ \/ EntryOf(p, l, Fill(old, k)) = EntryOf(p, l, old)
           \/ l \in SLToMove(Fill(old, k), k)
    BY <1>1, <2>3, <2>5, FillEntries
  <2>7. CASE l \in SLToMove(Fill(old, k), k)
    BY <2>1, <2>3, <2>7 DEF Covered, Moving
  <2>8. CASE EntryOf(p, l, Fill(old, k)) = EntryOf(p, l, old)
    <3>1. SameEntry(p, l) /\ StaysRegistered(p, l)
      BY <2>1, <2>3, <2>5, <2>8 DEF SameEntry, StaysRegistered
    <3> QED BY <1>5, <2>1, <2>4, <2>5, <2>6, <3>1
  <2> QED BY <2>6, <2>7, <2>8
<1>15. CASE Reports(w)
  <2> DEFINE sl == SLToMove(snap[w], k)
  <2>1. /\ pc[w] = "retire" /\ UNCHANGED <<store, execCh>>
        /\ \/ sl = {} /\ UNCHANGED engine
           \/ \E i \in sl : UpdateTriggerPrice(p, i, snap[w])
    BY <1>15 DEF Reports
  <2>2. snap[w] = store[p] /\ IsOpen(store[p]) /\ l \in ActiveLevels(store[p])
    BY <1>17, <2>1 DEF Fresh
  <2>3. l # k
    <3>1. Triggered(snap[w], k)
      BY <2>1 DEF IInv, CopyInv, HasCopy, Filled
    <3> QED BY <2>2, <3>1 DEF Triggered, ActiveLevels, WithStatus
  <2>4. CASE sl = {} /\ UNCHANGED engine
    BY <1>5, <2>1, <2>2, <2>3, <2>4 DEF SameEntry, StaysRegistered
  <2>5. CASE \E i \in sl : UpdateTriggerPrice(p, i, snap[w])
    <3>1. PICK i \in sl : UpdateTriggerPrice(p, i, snap[w])
      BY <2>5
    <3>2. i \in Slots
      BY <1>1, OneStopLoss
    <3>3. CASE l = i
      <4>1. engine'[EntryOf(p, i, snap[w])] > 0
        BY <1>1, <3>1, <3>2, UpdatedKeeps
      <4> QED BY <1>3, <2>1, <2>2, <3>3, <4>1, NowPresent
    <3>4. CASE l # i
      <4>1. engine[e] > 0 => engine'[e] > 0
        <5> HIDE DEF e
        <5> QED BY <1>1, <1>3, <3>1, <3>2, <3>4, UpdatedKeeps
      <4>2. l \notin sl
        BY <1>1, <3>4, OneStopLoss
      <4> QED BY <1>5, <2>1, <2>2, <2>3, <4>1, <4>2 DEF SameEntry, StaysRegistered
    <3> QED BY <3>3, <3>4
  <2> QED BY <2>1, <2>4, <2>5
<1>16. CASE Takes(w) \/ Fails(w)
  BY <1>16 DEF Takes, Fails
<1> QED BY <1>4, <1>7, <1>8, <1>9, <1>10, <1>11, <1>12, <1>13, <1>14, <1>15, <1>16

LEMMA WorkerCover ==
  ASSUME OverlapInv, FreshInv, CoverInv, NEW w \in Workers, WorkerStep(w)
  PROVE  CoverInv'
<1>0. IInv /\ TypeOK /\ FeedInv /\ LivingInv
  BY DEF OverlapInv, IInv
<1>1. run = "running"
  BY <1>0, NobodyRuns
<1>2. SUFFICES ASSUME NEW p \in Positions, p \notin raced' \cup missed', IsOpen(store'[p]),
                      NEW l \in ActiveLevels(store'[p])
               PROVE  Covered(p, l)'
  BY DEF CoverInv
<1>3. l \in Slots /\ w \in Procs
  BY ProcsApart DEF ActiveLevels, WithStatus
<1>4. /\ Alone(w) /\ UNCHANGED <<outbox, run, listed>> /\ Remembers
      /\ \/ Takes(w) \/ Waits(w) \/ Reads(w) \/ Drops(w) \/ Retries(w) \/ GoesOn(w)
         \/ Expires(w) \/ Activates(w) \/ Saves(w) \/ Unregisters(w) \/ Suspends(w)
         \/ Fills(w) \/ Persists(w) \/ Fails(w) \/ Reports(w)
  BY <1>0, WorkerKinds
<1>5. (IsOpen(store[p]) /\ l \in ActiveLevels(store[p])) => Covered(p, l)
  BY <1>1, <1>2, <1>4 DEF CoverInv, Remembers
<1>6. CASE pc[w] = "idle"
  <2>1. Takes(w)
    BY <1>4, <1>6
    DEF Waits, Reads, Drops, Retries, GoesOn, Expires, Activates, Saves, Unregisters, Suspends,
        Fills, Persists, Fails, Reports, Executing
  <2>2. UNCHANGED store
    BY <2>1 DEF Takes
  <2> QED BY <1>0, <1>2, <1>3, <1>4, <1>5, <2>1, <2>2, TakesCover
<1>7. CASE pc[w] # "idle" /\ p = job[w].pos
  BY <1>0, <1>2, <1>5, <1>7, WorkerCovers
<1>8. CASE pc[w] # "idle" /\ p # job[w].pos
  <2>1. /\ store'[p] = store[p]
        /\ \A e \in Entry : e.pos = p => (engine[e] > 0 => engine'[e] > 0)
    BY <1>0, <1>8, WorkerElsewhere
  <2>2. EntryOf(p, l, store[p]) \in Entry /\ EntryOf(p, l, store[p]).pos = p
    BY <1>0, <1>3, EntryOfType DEF TypeOK
  <2>3. SameEntry(p, l) /\ StaysRegistered(p, l)
    BY <2>1, <2>2 DEF SameEntry, StaysRegistered
  <2>4. Covered(p, l)
    BY <1>2, <1>5, <2>1
  <2>5. UNCHANGED execCh
    BY <1>4, <1>8
    DEF Takes, Waits, Reads, Drops, Retries, GoesOn, Expires, Activates, Saves, Unregisters,
        Suspends, Fills, Persists, Fails, Reports, Still
  <2>6. ~OwnWork(w, p, l)
    BY <1>8, ProcsApart DEF OwnWork, LevelOf
  <2> QED BY <1>3, <1>4, <2>3, <2>4, <2>5, <2>6, CoverStays
<1> QED BY <1>6, <1>7, <1>8

(* The end of a call writes what it has registered.                         *)
LEMMA EndsCallCovers ==
  ASSUME OverlapInv, CallCopyInv, CoverInv, NEW h \in Callers, EndsCall(h), Alone(h), Remembers,
         UNCHANGED <<outbox, execCh, run, listed>>, run # "down",
         NEW p \in Positions, p = job[h].pos, p \notin raced' \cup missed',
         NEW l \in ActiveLevels(store'[p])
  PROVE  Covered(p, l)'
<1>1. TypeOK /\ LivingInv /\ h \in Procs /\ h \notin Workers
  BY ProcsApart DEF OverlapInv, IInv
<1>2. /\ pc[h] = "engine" /\ todo[h] = {} /\ UNCHANGED engine
      /\ store' = [store EXCEPT ![p] = snap[h]]
  BY DEF EndsCall
<1>3. store'[p] = snap[h]
  BY <1>1, <1>2 DEF TypeOK
<1>4. l \in Slots /\ p \notin raced \cup missed
  BY DEF ActiveLevels, WithStatus, Remembers
<1>5. Accounted(h, p, l, snap[h])
  BY <1>2, <1>3, <1>4, CopyOf
<1>6. CASE Present(p, l, snap[h])
  <2>1. PICK rec : rec = snap[h]
    OBVIOUS
  <2>2. Present(p, l, rec)'
    BY <1>1, <1>2, <1>6, <2>1, PresentStays
  <2> QED BY <1>3, <2>1, <2>2 DEF Covered
<1>7. CASE l \in ActiveLevels(store[p]) /\ AsStored(p, l, snap[h])
  <2>1. IsOpen(store[p])
    BY <1>1, <1>2, <1>4 DEF LivingInv
  <2>2. Covered(p, l)
    BY <1>4, <1>7, <2>1 DEF CoverInv
  <2>3. SameEntry(p, l) /\ StaysRegistered(p, l)
    BY <1>2, <1>3, <1>7 DEF SameEntry, StaysRegistered, AsStored
  <2>4. ~OwnWork(h, p, l)
    BY <1>1, <1>2, <1>3, <1>7 DEF OwnWork
  <2> QED BY <1>1, <1>4, <2>2, <2>3, <2>4, CoverStays
<1> QED BY <1>2, <1>5, <1>6, <1>7 DEF Accounted

(* A call's operation on the engine.                                        *)
LEMMA AppliesCovers ==
  ASSUME TypeOK, HostInv, NEW h \in Callers, Applies(h), Alone(h),
         UNCHANGED <<outbox, execCh, run, listed>>,
         NEW p \in Positions, p = job[h].pos, NEW l \in ActiveLevels(store[p]), Covered(p, l)
  PROVE  Covered(p, l)'
<1>1. h \in Procs /\ h \notin Workers /\ l \in Slots
  BY ProcsApart DEF ActiveLevels, WithStatus
<1>2. PICK i \in todo[h] : EngineCall(h, i) /\ todo'[h] = todo[h] \ {i}
  BY DEF Applies
<1>3. /\ i \in Slots /\ UNCHANGED <<pc[h], job[h], snap[h], store>>
      /\ pc[h] \in {"engine", "register"}
  BY <1>1, <1>2 DEF Applies, TypeOK
<1>4. PICK e \in Entry : e = EntryOf(p, l, store[p]) /\ e.pos = p /\ e.lvl = l
  BY <1>1, EntryOfType DEF TypeOK
<1>5. ASSUME AsStored(p, l, snap[h]), l = i, l \in ActiveLevels(snap[h]) \/ pc[h] = "register"
      PROVE  Covered(p, l)'
  <2>1. job[h].op \notin {"cancel", "removeLevel", "expire"}
    BY <1>2, <1>3, <1>5 DEF HostInv
  <2>2. engine'[EntryOf(p, l, snap[h])] > 0
    BY <1>2, <1>3, <1>5, <2>1, EngineCallKeeps
  <2> QED BY <1>3, <1>4, <1>5, <2>2, NowPresent DEF AsStored
<1>6. CASE pc[h] = "register"
  <2>1. \A d \in Entry : engine[d] > 0 => engine'[d] > 0
    BY <1>2, <1>3, <1>6, EngineCallKeeps DEF HostInv
  <2>2. SameEntry(p, l) /\ StaysRegistered(p, l)
    BY <1>3, <1>4, <2>1 DEF SameEntry, StaysRegistered
  <2>3. Covered(p, l)' \/ OwnWork(h, p, l)
    BY <1>1, <2>2, CoverStays
  <2>4. ASSUME l \in todo[h], AsStored(p, l, snap[h]), l # i PROVE Covered(p, l)'
    BY <1>2, <1>3, <1>6, <2>4 DEF Covered, Opening, AsStored
  <2> QED BY <1>1, <1>5, <1>6, <2>3, <2>4 DEF OwnWork
<1>7. CASE pc[h] = "engine" /\ ~(l \in ActiveLevels(snap[h]) /\ AsStored(p, l, snap[h]))
  BY <1>3, <1>7 DEF Covered, InCall, AsStored
<1>8. CASE pc[h] = "engine" /\ l \in ActiveLevels(snap[h]) /\ AsStored(p, l, snap[h]) /\ l # i
  <2>1. SameEntry(p, l) /\ StaysRegistered(p, l)
    BY <1>2, <1>3, <1>4, <1>8, EngineCallKeeps DEF SameEntry, StaysRegistered
  <2>2. Covered(p, l)' \/ OwnWork(h, p, l)
    BY <1>1, <2>1, CoverStays
  <2>3. CASE l \in todo[h]
    BY <1>2, <1>3, <1>8, <2>3 DEF Covered, InCall
  <2> QED BY <1>1, <1>8, <2>2, <2>3 DEF OwnWork
<1> QED BY <1>3, <1>5, <1>6, <1>7, <1>8

LEMMA CallerCover ==
  ASSUME OverlapInv, CallCopyInv, CoverInv, NEW h \in Callers, Call(h) \/ CallerStep(h)
  PROVE  CoverInv'
<1>0. TypeOK /\ HostInv
  BY DEF OverlapInv, IInv
<1>1. /\ h \in Procs /\ h \notin Workers /\ Remembers
      /\ Alone(h) /\ UNCHANGED <<outbox, tick, execCh, run, listed>>
      /\ Opens(h) \/ ReadsOpen(h) \/ Applies(h) \/ EndsOpen(h) \/ EndsCall(h)
  BY <1>0, CallerKinds, ProcsApart
<1>2. SUFFICES ASSUME run # "down", NEW p \in Positions, p \notin raced' \cup missed',
                      IsOpen(store'[p]), NEW l \in ActiveLevels(store'[p])
               PROVE  Covered(p, l)'
  BY <1>1 DEF CoverInv
<1>3. /\ l \in Slots /\ engine \in [Entry -> Nat] /\ store \in [Positions -> PositionRecord]
      /\ snap[h] \in PositionRecord /\ p \notin raced \cup missed
  BY <1>0, <1>1, <1>2 DEF ActiveLevels, WithStatus, TypeOK, Remembers
<1>4. ASSUME store'[p] = store[p] PROVE Covered(p, l) /\ l \in ActiveLevels(store[p])
  BY <1>2, <1>3, <1>4 DEF CoverInv
<1>5. ASSUME store'[p] = store[p], StaysRegistered(p, l),
             (pc[h] \in {"register", "engine"} /\ job[h].pos = p) => todo[h] = {} /\ pc[h] = "register"
      PROVE  Covered(p, l)'
  <2>1. Covered(p, l) /\ SameEntry(p, l)
    BY <1>4, <1>5 DEF SameEntry
  <2>2. Covered(p, l)' \/ OwnWork(h, p, l)
    BY <1>1, <1>3, <1>5, <2>1, CoverStays
  <2> QED BY <1>1, <1>5, <2>2 DEF OwnWork
<1>6. CASE Opens(h)
  <2>1. PICK q \in Positions, plan \in Plans :
               /\ pc[h] = "idle" /\ store' = [store EXCEPT ![q] = plan] /\ UNCHANGED engine
               /\ pc'[h] = "register" /\ job'[h] = JobOn("open", q) /\ snap'[h] = plan
               /\ todo'[h] = ActiveLevels(plan)
    BY <1>6 DEF Opens
  <2>2. CASE p = q
    <3>1. store'[p] = plan
      BY <1>3, <2>1, <2>2
    <3> QED BY <1>2, <2>1, <2>2, <3>1 DEF Covered, Opening, AsStored, JobOn
  <2>3. CASE p # q
    <3>1. store'[p] = store[p] /\ StaysRegistered(p, l)
      BY <1>3, <2>1, <2>3 DEF StaysRegistered
    <3> QED BY <1>5, <2>1, <3>1
  <2> QED BY <2>2, <2>3
<1>7. CASE ReadsOpen(h)
  <2>1. pc[h] = "idle" /\ UNCHANGED <<store, engine>>
    BY <1>7 DEF ReadsOpen
  <2> QED BY <1>5, <2>1 DEF StaysRegistered
<1>8. CASE Applies(h)
  <2>1. UNCHANGED store /\ \E i \in todo[h] : EngineCall(h, i)
    BY <1>8 DEF Applies
  <2>2. CASE job[h].pos = p
    BY <1>0, <1>1, <1>2, <1>4, <1>8, <2>1, <2>2, AppliesCovers
  <2>3. CASE job[h].pos # p
    <3>1. PICK i \in todo[h] : EngineCall(h, i)
      BY <2>1
    <3>2. i \in Slots /\ job[h].pos \in Positions
      BY <1>0, <1>1, <1>8 DEF Applies, TypeOK
    <3>3. EntryOf(p, l, store[p]) \in Entry /\ EntryOf(p, l, store[p]).pos = p
      BY <1>3, EntryOfType
    <3>4. StaysRegistered(p, l)
      BY <1>0, <2>3, <3>1, <3>2, <3>3, EngineCallKeeps DEF StaysRegistered
    <3> QED BY <1>5, <2>1, <2>3, <3>4
  <2> QED BY <2>2, <2>3
<1>9. CASE EndsOpen(h)
  <2>1. UNCHANGED <<store, engine>> /\ todo[h] = {} /\ pc[h] = "register"
    BY <1>9 DEF EndsOpen
  <2> QED BY <1>5, <2>1 DEF StaysRegistered
<1>10. CASE EndsCall(h)
  <2>1. CASE job[h].pos = p
    BY <1>1, <1>2, <1>10, <2>1, EndsCallCovers
  <2>2. CASE job[h].pos # p
    <3>1. store'[p] = store[p] /\ UNCHANGED engine
      BY <1>3, <1>10, <2>2 DEF EndsCall
    <3> QED BY <1>5, <2>2, <3>1 DEF StaysRegistered
  <2> QED BY <2>1, <2>2
<1> QED BY <1>1, <1>6, <1>7, <1>8, <1>9, <1>10

(* The price goroutine, Run and the clock.                                  *)
LEMMA BackgroundCover ==
  ASSUME TypeOK, FeedInv, CoverInv, Background
  PROVE  CoverInv'
<1>1. UNCHANGED <<store, pc, job, snap, todo, raced, missed>>
  BY BackgroundKeeps
<1>2. ASSUME ~ListActive, run # "down", NEW p \in Positions, NEW l \in ActiveLevels(store[p]),
             Covered(p, l)
      PROVE  Covered(p, l)'
  <2>1. l \in Slots
    BY DEF ActiveLevels, WithStatus
  <2>2. CASE Present(p, l, store[p])
    <3>1. PICK rec : rec = store[p]
      OBVIOUS
    <3>2. Present(p, l, rec)'
      BY <2>2, <3>1, BackgroundPresent
    <3> QED BY <1>1, <3>1, <3>2 DEF Covered
  <2>3. CASE Opening(p, l)
    BY <1>1, <2>3 DEF Covered, Opening, AsStored
  <2>4. CASE Moving(p, l)
    BY <1>1, <2>4 DEF Covered, Moving
  <2>5. CASE InCall(p, l)
    BY <1>1, <2>5 DEF Covered, InCall, AsStored
  <2>6. CASE InList(p, l)
    <3>1. CASE UNCHANGED <<run, listed>>
      BY <1>1, <2>6, <3>1 DEF Covered, InList, AsStored
    <3>2. CASE StartRun
      BY <2>6, <3>2 DEF StartRun, InList
    <3>3. ASSUME NEW q \in Positions, NEW i \in Slots, RegisterListed(q, i)
          PROVE  Covered(p, l)'
      <4>1. /\ engine' = Registered(engine, EntryOf(q, i, listed[q])) /\ run = "listed"
            /\ listed' = [listed EXCEPT ![q] = Mark(@, {i}, "absent")] /\ UNCHANGED run
            /\ engine \in [Entry -> Nat] /\ listed \in [Positions -> PositionRecord]
        BY <3>3 DEF RegisterListed, Register, TypeOK
      <4>2. l \in ActiveLevels(listed[p]) /\ EntryOf(p, l, listed[p]) = EntryOf(p, l, store[p])
        BY <2>6 DEF InList, AsStored
      <4>3. CASE p = q /\ l = i
        <5>1. PICK e \in Entry : e = EntryOf(p, l, listed[p])
          BY <2>1, <4>1, EntryOfType
        <5>2. engine'[e] > 0
          BY <4>1, <4>3, <5>1, RegisteredKeeps
        <5> QED BY <1>1, <4>2, <5>1, <5>2, NowPresent
      <4>4. CASE p # q
        BY <1>1, <2>6, <4>1, <4>4 DEF Covered, InList, AsStored
      <4>5. CASE p = q /\ l # i
        <5> DEFINE m == Mark(listed[p], {i}, "absent")
        <5>1. "absent" \in LevelStatus
          BY DEF LevelStatus
        <5>2. m.levels[l].status = listed[p].levels[l].status /\ EntryOf(p, l, m) = EntryOf(p, l, listed[p])
          BY <2>1, <4>1, <4>5, <5>1, MarkEntries
        <5>3. listed'[p] = m
          BY <4>1, <4>5
        <5> HIDE DEF m
        <5>4. l \in ActiveLevels(listed'[p]) /\ EntryOf(p, l, listed'[p]) = EntryOf(p, l, store[p])
          BY <2>1, <4>2, <5>2, <5>3 DEF ActiveLevels, WithStatus
        <5> QED BY <1>1, <4>1, <5>4 DEF Covered, InList, AsStored
      <4> QED BY <4>3, <4>4, <4>5
    <3>4. \/ UNCHANGED <<run, listed>> \/ StartRun
          \/ \E q \in Positions, i \in Slots : RegisterListed(q, i)
      BY <1>2 DEF Background, RunStep, vars, OnPrice, Dispatch, AdvanceClock, runVars
    <3> QED BY <3>1, <3>2, <3>3, <3>4
  <2> QED BY <1>2, <2>2, <2>3, <2>4, <2>5, <2>6 DEF Covered
<1>3. CASE ListActive
  BY <1>3 DEF ListActive, CoverInv, Covered, InList, AsStored
<1>4. CASE ~ListActive
  <2>1. run' # "down" => run # "down"
    BY <1>4 DEF Background, RunStep, RegisterListed, StartRun, vars, OnPrice, Dispatch,
       AdvanceClock, runVars
  <2> QED BY <1>1, <1>2, <1>4, <2>1 DEF CoverInv
<1> QED BY <1>3, <1>4

LEMMA CoverNext ==
  ASSUME WatchInv, [Next]_vars
  PROVE  CoverInv'
<1>0. TypeOK /\ FeedInv /\ OverlapInv /\ FreshInv /\ CallCopyInv /\ CoverInv
  BY DEF WatchInv, OverlapInv, IInv
<1>1. ASSUME NEW W \in SUBSET Workers, Crash(W) PROVE CoverInv'
  BY <1>1 DEF Crash, CoverInv
<1> QED BY <1>0, <1>1, BackgroundCover, WorkerCover, CallerCover, NextKinds

(* While the keeper runs no active level of an open position is forgotten,  *)
(* through crashes and restarts, the errors between OnPrice and the swap,   *)
(* and any race of the workers with each other, with the price goroutine,   *)
(* with Run and OpenPosition, and with the calls of the host and of the     *)
(* expiry monitor on other positions; on a position where such a call       *)
(* overlapped an execution or another call, or where a call of the Store or *)
(* of GetFee failed, nothing is claimed until the next start.               *)
THEOREM LevelsStayWatched == Spec => []ActiveLevelWatched
<1>1. Init => WatchInv
  <2> SUFFICES ASSUME Init PROVE WatchInv
    OBVIOUS
  <2>1. FreshInv /\ CallCopyInv /\ CoverInv
    BY ProcsApart DEF Init, FreshInv, CallCopyInv, CoverInv
  <2> QED BY <2>1, OverlapInit DEF WatchInv
<1>2. WatchInv /\ [Next]_vars => WatchInv'
  BY OverlapNext, FreshNext, CopyNext, CoverNext DEF WatchInv
<1>3. WatchInv => ActiveLevelWatched
  <2> SUFFICES ASSUME WatchInv, run = "running", NEW k \in LevelId,
                      IsOpen(store[k[1]]), k[2] \in ActiveLevels(store[k[1]]),
                      k[1] \notin raced \cup missed
               PROVE  \/ Watched(k)
                      \/ InPipeline(k)
                      \/ BeingRegistered(k)
                      \/ BeingChanged(k[1], k[2])
    BY DEF ActiveLevelWatched
  <2>1. k[1] \in Positions /\ k = <<k[1], k[2]>>
    BY DEF LevelId
  <2>2. Covered(k[1], k[2]) /\ ~InList(k[1], k[2])
    BY <2>1 DEF WatchInv, CoverInv, InList
  <2>3. Opening(k[1], k[2]) => BeingRegistered(k)
    BY DEF Opening, BeingRegistered
  <2>4. Moving(k[1], k[2]) => BeingChanged(k[1], k[2])
    BY DEF Moving, BeingChanged
  <2>5. InCall(k[1], k[2]) => BeingRegistered(k) \/ BeingChanged(k[1], k[2])
    BY DEF InCall, BeingRegistered, BeingChanged
  <2>6. Present(k[1], k[2], store[k[1]]) => Watched(k) \/ InPipeline(k)
    BY <2>1 DEF Present, Watched
  <2> QED BY <2>2, <2>3, <2>4, <2>5, <2>6 DEF Covered
<1> QED BY <1>1, <1>2, <1>3, PTL DEF Spec

=============================================================================
