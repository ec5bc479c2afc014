----------------------- MODULE PairSubscriptionProofs -----------------------
(* Proofs about PairSubscription for any positions, pairs, workers and      *)
(* capacity of the channel.                                                 *)
EXTENDS PairSubscription, SequenceTheorems, TLAPS

LEMMA FeedOfType == \A g \in Feeders : FeedOf(g) \in Pairs
  BY PairAssumption DEF Feeders, FeedOf

LEMMA FeedOfOwn ==
    /\ \A p \in Positions : p \in Feeders /\ FeedOf(p) = PairOf[p] /\ PairOf[p] \in Pairs
    /\ \A pair \in Pairs : pair \in Feeders /\ FeedOf(pair) = pair
  BY PairAssumption DEF Feeders, FeedOf

LEMMA PairsOfPositions ==
    ASSUME NEW S, S \subseteq Positions
    PROVE  uniquePairs(S) \subseteq Pairs
  BY PairAssumption DEF uniquePairs

LEMMA InitOK == Init => IInv
  <1> SUFFICES ASSUME Init PROVE IInv
    OBVIOUS
  <1>1. TypeOK
    <2>1. place \in [Positions -> CallPlace] /\ runAt \in RunPlace
      BY DEF Init, CallPlace, RunPlace
    <2>2. execCh \in Seq(Positions)
      BY DEF Init
    <2> QED  BY <2>1, <2>2 DEF Init, TypeOK
  <1>2. BeforeReady
    BY DEF Init, BeforeReady
  <1>3. MarkInv
    BY DEF Init, MarkInv, ChainReady
  <1>4. OneGoroutine
    BY DEF Init, OneGoroutine
  <1>5. MarkedIsFed
    BY DEF Init, MarkedIsFed, ChainReady
  <1>6. OpenIsKnown
    BY DEF Init, OpenIsKnown
  <1> QED  BY <1>1, <1>2, <1>3, <1>4, <1>5, <1>6 DEF IInv

-----------------------------------------------------------------------------
(* Types.                                                                   *)

(* subscribePair starts at most the goroutine it was given.                 *)
LEMMA SubscribeTypes ==
    ASSUME TypeOK, NEW g \in Feeders, subscribePair(g)
    PROVE  /\ feeder' \in [Feeders -> {"none", "select", "dispatch", "ended"}]
           /\ unfed' \subseteq Pairs /\ late' \subseteq Feeders
  <1>1. FeedOf(g) \in Pairs
    BY FeedOfType
  <1>2. CASE unfed' = unfed \cup {FeedOf(g)} /\ UNCHANGED <<feeder, late>>
    BY <1>1, <1>2 DEF TypeOK
  <1>3. CASE /\ feeder' = [feeder EXCEPT ![g] = "select"]
             /\ late' = IF cancelled THEN late \cup {g} ELSE late
             /\ UNCHANGED unfed
    <2>1. feeder' \in [Feeders -> {"none", "select", "dispatch", "ended"}]
      BY <1>3 DEF TypeOK
    <2>2. late' \subseteq Feeders
      BY <1>3 DEF TypeOK
    <2> QED  BY <1>3, <2>1, <2>2 DEF TypeOK
  <1> QED  BY <1>2, <1>3 DEF subscribePair

LEMMA CallTypes ==
    ASSUME TypeOK, NEW p \in Positions, Save(p) \/ CallStep(p)
    PROVE  TypeOK'
  <1>1. CASE Save(p)
    <2>1. place' \in [Positions -> CallPlace]
      BY <1>1 DEF Save, GoTo, TypeOK, CallPlace
    <2> QED  BY <1>1, <2>1 DEF Save, TypeOK, runVars, feedVars, historyVars
  <1>2. CASE registerPositionTriggers(p)
    <2>1. place' \in [Positions -> CallPlace]
      BY <1>2 DEF registerPositionTriggers, GoTo, TypeOK, CallPlace
    <2>2. engine' \in [Positions -> Nat]
      BY <1>2 DEF registerPositionTriggers, TypeOK
    <2> QED  BY <1>2, <2>1, <2>2 DEF registerPositionTriggers, TypeOK, runVars, feedVars,
                                     historyVars
  <1>3. CASE ensurePairSubscribed(p)
    <2>1. place' \in [Positions -> CallPlace]
      BY <1>3 DEF ensurePairSubscribed, NothingToDo, MarkPair, ConcurrentMapRead, GoTo,
                  TypeOK, CallPlace, callVars
    <2>2. pairSubs' \subseteq Pairs
      BY <1>3, FeedOfOwn DEF ensurePairSubscribed, NothingToDo, MarkPair, ConcurrentMapRead,
                  NotReady, Marked, TypeOK
    <2>3. mu' \in Positions \cup {Nobody} /\ early' \subseteq Positions /\ crashed' \in BOOLEAN
      BY <1>3 DEF ensurePairSubscribed, NothingToDo, MarkPair, ConcurrentMapRead,
                  TypeOK, callVars
    <2> QED  BY <1>3, <2>1, <2>2, <2>3 DEF ensurePairSubscribed, TypeOK, runVars, feedVars
  <1>4. CASE SubscribeDynamic(p)
    <2>1. place' \in [Positions -> CallPlace]
      BY <1>4 DEF SubscribeDynamic, GoTo, TypeOK, CallPlace
    <2>2. /\ feeder' \in [Feeders -> {"none", "select", "dispatch", "ended"}]
          /\ unfed' \subseteq Pairs /\ late' \subseteq Feeders
      BY <1>4, FeedOfOwn, SubscribeTypes DEF SubscribeDynamic
    <2> QED  BY <1>4, <2>1, <2>2 DEF SubscribeDynamic, TypeOK, runVars
  <1> QED  BY <1>1, <1>2, <1>3, <1>4 DEF CallStep

LEMMA RunTypes ==
    ASSUME TypeOK, StartRun \/ RunStep \/ Cancel
    PROVE  TypeOK'
  <1>1. CASE StartRun
    BY <1>1 DEF StartRun, TypeOK, RunPlace, callVars, feedVars, historyVars
  <1>2. CASE ListActive
    <2>1. engine' \in [Positions -> Nat]
      <3>1. [p \in Positions |-> IF p \in store THEN engine[p] + 1 ELSE engine[p]]
              \in [Positions -> Nat]
        BY DEF TypeOK
      <3> QED  BY <1>2, <3>1 DEF ListActive, TypeOK
    <2> QED  BY <1>2, <2>1 DEF ListActive, TypeOK, RunPlace, callVars, feedVars, historyVars
  <1>3. CASE BeginMarks
    BY <1>3 DEF BeginMarks, TypeOK, RunPlace, callVars, feedVars, historyVars
  <1>4. CASE EndMarks
    <2>1. pairSubs' \subseteq Pairs
      BY <1>4, PairsOfPositions DEF EndMarks, RunMarks, TypeOK
    <2> QED  BY <1>4, <2>1 DEF EndMarks, TypeOK, RunPlace, callVars, feedVars, historyVars
  <1>5. CASE StartChain
    <2>1. toSubscribe' \subseteq Pairs
      BY <1>5, PairsOfPositions DEF StartChain, TypeOK
    <2> QED  BY <1>5, <2>1 DEF StartChain, TypeOK, RunPlace, callVars, feedVars, historyVars
  <1>6. ASSUME NEW pair \in Pairs, SubscribeInitial(pair) PROVE TypeOK'
    <2>1. /\ feeder' \in [Feeders -> {"none", "select", "dispatch", "ended"}]
          /\ unfed' \subseteq Pairs /\ late' \subseteq Feeders
      BY <1>6, FeedOfOwn, SubscribeTypes DEF SubscribeInitial
    <2> QED  BY <1>6, <2>1 DEF SubscribeInitial, TypeOK, callVars
  <1>7. CASE AllSubscribed
    BY <1>7 DEF AllSubscribed, TypeOK, RunPlace, callVars, feedVars, historyVars
  <1>8. CASE CloseChannel
    BY <1>8 DEF CloseChannel, TypeOK, RunPlace, callVars, feedVars, historyVars
  <1>9. CASE Cancel
    BY <1>9 DEF Cancel, TypeOK, callVars, runVars, feedVars, historyVars
  <1> QED  BY <1>1, <1>2, <1>3, <1>4, <1>5, <1>6, <1>7, <1>8, <1>9 DEF RunStep

LEMMA FeederTypes ==
    ASSUME TypeOK, NEW g \in Feeders,
           \/ \E F \in SUBSET Positions : OnPrice(g, F)
           \/ FeederStep(g) \/ FeederEnds(g) \/ FeedClosed(g)
    PROVE  TypeOK'
  <1>1. ASSUME NEW F \in SUBSET Positions, OnPrice(g, F) PROVE TypeOK'
    <2>1. engine' \in [Positions -> Nat] /\ pending' \in [Feeders -> [Positions -> Nat]]
      BY <1>1 DEF OnPrice, TypeOK
    <2>2. feeder' \in [Feeders -> {"none", "select", "dispatch", "ended"}]
      BY <1>1 DEF OnPrice, TypeOK
    <2> QED  BY <1>1, <2>1, <2>2 DEF OnPrice, TypeOK, callVars, runVars, historyVars
  <1>2. ASSUME NEW p \in Positions, Dispatch(g, p) PROVE TypeOK'
    <2>1. pending' \in [Feeders -> [Positions -> Nat]]
      <3>1. pending[g][p] \in Nat /\ pending[g][p] > 0
        BY <1>2 DEF Dispatch, HasEvent, TypeOK
      <3>2. pending[g][p] - 1 \in Nat
        BY <3>1
      <3>3. [pending EXCEPT ![g][p] = @ - 1] \in [Feeders -> [Positions -> Nat]]
        BY <3>2 DEF TypeOK
      <3> QED  BY <1>2, <3>3 DEF Dispatch, TypeOK
    <2>2. execCh' \in Seq(Positions)
      <3>1. Append(execCh, p) \in Seq(Positions)
        BY AppendProperties DEF TypeOK
      <3> QED  BY <1>2, <3>1 DEF Dispatch, TypeOK
    <2> QED  BY <1>2, <2>1, <2>2 DEF Dispatch, TypeOK, callVars, runVars, historyVars
  <1>3. CASE NextUpdate(g)
    BY <1>3 DEF NextUpdate, TypeOK, callVars, runVars, historyVars
  <1>4. CASE FeederEnds(g)
    BY <1>4 DEF FeederEnds, TypeOK, callVars, runVars, historyVars
  <1>5. CASE FeedClosed(g)
    BY <1>5, FeedOfType DEF FeedClosed, TypeOK, callVars, runVars
  <1> QED  BY <1>1, <1>2, <1>3, <1>4, <1>5 DEF FeederStep

LEMMA WorkerTypes ==
    ASSUME TypeOK, NEW w \in Workers, TakeEvent(w) \/ executeTrigger(w) \/ WorkerEnds(w)
    PROVE  TypeOK'
  <1>1. CASE TakeEvent(w)
    <2>1. Head(execCh) \in Positions /\ Tail(execCh) \in Seq(Positions)
      BY <1>1, HeadTailProperties DEF TakeEvent, TypeOK
    <2>2. worker' \in [Workers -> Positions \cup {"none", "idle", "ended"}]
      BY <1>1, <2>1 DEF TakeEvent, TypeOK
    <2> QED  BY <1>1, <2>1, <2>2 DEF TakeEvent, TypeOK, callVars, runVars, feedVars, historyVars
  <1>2. CASE executeTrigger(w)
    <2>1. worker' \in [Workers -> Positions \cup {"none", "idle", "ended"}]
      BY <1>2 DEF executeTrigger, TypeOK
    <2>2. engine' \in [Positions -> Nat] /\ store' \subseteq Positions
          /\ dropped' \subseteq Positions
      <3>1. \A p \in Positions : [engine EXCEPT ![p] = @ + 1] \in [Positions -> Nat]
        BY DEF TypeOK
      <3>2. worker[w] \in Positions
        BY <1>2 DEF executeTrigger
      <3> QED  BY <1>2, <3>1, <3>2 DEF executeTrigger, TypeOK
    <2> QED  BY <1>2, <2>1, <2>2 DEF executeTrigger, TypeOK, callVars, runVars, feedVars
  <1>3. CASE WorkerEnds(w)
    BY <1>3 DEF WorkerEnds, TypeOK, callVars, runVars, feedVars, historyVars
  <1> QED  BY <1>1, <1>2, <1>3

LEMMA TypeStep == TypeOK /\ [Next]_vars => TypeOK'
  <1> SUFFICES ASSUME TypeOK, [Next]_vars PROVE TypeOK'
    OBVIOUS
  <1>1. CASE UNCHANGED vars
    BY <1>1 DEF vars, TypeOK, callVars, runVars, feedVars, historyVars
  <1>2. CASE Next
    BY <1>2, CallTypes, RunTypes, FeederTypes, WorkerTypes DEF Next
  <1> QED  BY <1>1, <1>2
-----------------------------------------------------------------------------
(* What the steps do to the goroutines, in the terms of the invariant.      *)

LEMMA SubscribeFacts ==
    ASSUME TypeOK, NEW g \in Feeders, subscribePair(g)
    PROVE  /\ \A h \in Feeders : h # g => feeder'[h] = feeder[h]
           /\ feeder'[g] \in {feeder[g], "select"}
           /\ feeder'[g] = "select" \/ FeedOf(g) \in unfed'
           /\ unfed \subseteq unfed'
  <1>1. CASE unfed' = unfed \cup {FeedOf(g)} /\ UNCHANGED <<feeder, late>>
    BY <1>1
  <1>2. CASE feeder' = [feeder EXCEPT ![g] = "select"] /\ UNCHANGED unfed
    BY <1>2 DEF TypeOK
  <1> QED  BY <1>1, <1>2 DEF subscribePair

FeederAction(g) ==
    \/ \E F \in SUBSET Positions : OnPrice(g, F)
    \/ FeederStep(g) \/ FeederEnds(g) \/ FeedClosed(g)

WorkerAction(w) == TakeEvent(w) \/ executeTrigger(w) \/ WorkerEnds(w)

(* A goroutine that runs goes on or ends, and ends only with the context or *)
(* with its feed.                                                           *)
LEMMA FeederFacts ==
    ASSUME TypeOK, NEW g \in Feeders, FeederAction(g)
    PROVE  /\ \A h \in Feeders : feeder'[h] = "none" <=> feeder[h] = "none"
           /\ \A h \in Feeders : Alive(h) /\ ~cancelled =>
                feeder'[h] \in {"select", "dispatch"} \/ FeedOf(h) \in unfed'
           /\ unfed \subseteq unfed'
           /\ UNCHANGED <<store, place, mu, runAt, listed, toSubscribe, pairSubs, worker,
                          cancelled, early>>
  <1>1. ASSUME NEW F \in SUBSET Positions, OnPrice(g, F)
        PROVE  /\ feeder[g] # "none" /\ feeder' = [feeder EXCEPT ![g] = "dispatch"]
               /\ UNCHANGED unfed
               /\ UNCHANGED <<store, place, mu, runAt, listed, toSubscribe, pairSubs, worker,
                              cancelled, early>>
    BY <1>1 DEF OnPrice, callVars, runVars, historyVars
  <1>2. ASSUME NEW p \in Positions, Dispatch(g, p)
        PROVE  UNCHANGED <<feeder, unfed, store, place, mu, runAt, listed, toSubscribe, pairSubs,
                           worker, cancelled, early>>
    BY <1>2 DEF Dispatch, callVars, runVars, historyVars
  <1>3. CASE NextUpdate(g)
    <2>1. /\ feeder[g] = "dispatch" /\ feeder' = [feeder EXCEPT ![g] = "select"]
          /\ UNCHANGED <<unfed, store, place, mu, runAt, listed, toSubscribe, pairSubs,
                         worker, cancelled, early>>
      BY <1>3 DEF NextUpdate, callVars, runVars, historyVars
    <2> QED  BY <2>1 DEF TypeOK, Alive
  <1>4. CASE FeederEnds(g)
    <2>1. /\ feeder[g] # "none" /\ cancelled /\ feeder' = [feeder EXCEPT ![g] = "ended"]
          /\ UNCHANGED <<unfed, store, place, mu, runAt, listed, toSubscribe, pairSubs,
                         worker, cancelled, early>>
      BY <1>4 DEF FeederEnds, Alive, callVars, runVars, historyVars
    <2> QED  BY <2>1 DEF TypeOK, Alive
  <1>5. CASE FeedClosed(g)
    <2>1. /\ feeder[g] = "select" /\ feeder' = [feeder EXCEPT ![g] = "ended"]
          /\ unfed' = unfed \cup {FeedOf(g)}
          /\ UNCHANGED <<store, place, mu, runAt, listed, toSubscribe, pairSubs,
                         worker, cancelled, early>>
      BY <1>5 DEF FeedClosed, callVars, runVars
    <2> QED  BY <2>1 DEF TypeOK, Alive
  <1>6. ASSUME NEW F \in SUBSET Positions, OnPrice(g, F)
        PROVE  \A h \in Feeders : /\ feeder'[h] = "none" <=> feeder[h] = "none"
                                  /\ Alive(h) => feeder'[h] \in {"select", "dispatch"}
    BY <1>1, <1>6 DEF TypeOK, Alive
  <1> QED  BY <1>1, <1>2, <1>3, <1>4, <1>5, <1>6 DEF FeederAction, FeederStep, Alive

(* A worker exists only once the chain is ready.                            *)
LEMMA WorkerFacts ==
    ASSUME TypeOK, BeforeReady, NEW w \in Workers, WorkerAction(w)
    PROVE  /\ ChainReady
           /\ UNCHANGED <<place, mu, runAt, listed, toSubscribe, pairSubs, feeder, unfed, early,
                          cancelled>>
  <1>1. worker[w] # "none"
    BY PairAssumption DEF WorkerAction, TakeEvent, executeTrigger, WorkerEnds
  <1>2. UNCHANGED <<place, mu, runAt, listed, toSubscribe, pairSubs, feeder, unfed, early,
                    cancelled>>
    BY DEF WorkerAction, TakeEvent, executeTrigger, WorkerEnds, callVars, runVars, feedVars,
           historyVars
  <1> QED  BY <1>1, <1>2 DEF BeforeReady

(* The three ways in which ensurePairSubscribed leaves its switch.          *)
LEMMA EnsureFacts ==
    ASSUME TypeOK, NEW p \in Positions, ensurePairSubscribed(p)
    PROVE  /\ UNCHANGED <<store, runAt, listed, toSubscribe, feeder, worker, cancelled, unfed>>
           /\ place[p] = "registered" /\ mu = Nobody
           /\ \A q \in Positions : q # p => place'[q] = place[q]
           /\ \/ /\ place'[p] = "done" /\ UNCHANGED <<mu, pairSubs>>
                 /\ runAt = "none" \/ PairOf[p] \in pairSubs \/ p \in early'
                 /\ early \subseteq early'
              \/ /\ ChainReady /\ PairOf[p] \notin pairSubs
                 /\ pairSubs' = pairSubs \cup {PairOf[p]}
                 /\ place'[p] = "subscribe" /\ mu' = p /\ UNCHANGED early
              \/ UNCHANGED <<place, mu, pairSubs, early>>
  <1>1. /\ UNCHANGED <<store, runAt, listed, toSubscribe, feeder, worker, cancelled, unfed>>
        /\ place[p] = "registered" /\ mu = Nobody
    BY DEF ensurePairSubscribed, runVars, feedVars
  <1>2. CASE NothingToDo(p)
    BY <1>1, <1>2 DEF NothingToDo, NotReady, GoTo, TypeOK
  <1>3. CASE MarkPair(p)
    BY <1>1, <1>3 DEF MarkPair, Marked, GoTo, TypeOK
  <1>4. CASE ConcurrentMapRead
    BY <1>1, <1>4 DEF ConcurrentMapRead, callVars
  <1> QED  BY <1>1, <1>2, <1>3, <1>4 DEF ensurePairSubscribed

(* Save and registerPositionTriggers move one call forward.                 *)
LEMMA EarlyCallFacts ==
    ASSUME TypeOK, NEW p \in Positions, Save(p) \/ registerPositionTriggers(p)
    PROVE  /\ UNCHANGED <<mu, runAt, listed, toSubscribe, pairSubs, feeder, unfed, early,
                          cancelled, worker>>
           /\ \A q \in Positions : q # p => place'[q] = place[q]
           /\ place[p] \in {"none", "saved"}
           /\ place'[p] \in {"saved", "registered"}
           /\ store \subseteq store'
           /\ place[p] = "none" => p \in store'
  BY DEF Save, registerPositionTriggers, GoTo, TypeOK, runVars, feedVars, historyVars

LEMMA DynamicFacts ==
    ASSUME TypeOK, NEW p \in Positions, SubscribeDynamic(p)
    PROVE  /\ UNCHANGED <<store, runAt, listed, toSubscribe, pairSubs, worker, cancelled, early>>
           /\ place[p] = "subscribe" /\ place'[p] = "done"
           /\ \A q \in Positions : q # p => place'[q] = place[q]
           /\ p \in Feeders /\ FeedOf(p) = PairOf[p] /\ subscribePair(p)
  BY FeedOfOwn DEF SubscribeDynamic, GoTo, TypeOK, runVars
RunMoves == StartRun \/ ListActive \/ BeginMarks \/ AllSubscribed \/ CloseChannel

(* The steps of Run that neither mark nor subscribe.                        *)
LEMMA RunFacts ==
    ASSUME TypeOK, RunMoves
    PROVE  /\ UNCHANGED <<store, place, mu, pairSubs, toSubscribe, feeder, worker, cancelled,
                          unfed, early>>
           /\ \/ /\ runAt = "made" /\ runAt' = "listed" /\ listed' = store
              \/ /\ UNCHANGED listed
                 /\ \/ runAt = "none" /\ runAt' = "made"
                    \/ runAt = "made" /\ runAt' = "failed"
                    \/ runAt = "listed" /\ runAt' = "marking"
                    \/ runAt = "subscribe" /\ runAt' = "wait" /\ toSubscribe = {}
                    \/ runAt = "wait" /\ runAt' = "closed"
  BY DEF RunMoves, StartRun, ListActive, BeginMarks, AllSubscribed, CloseChannel, callVars,
         feedVars, historyVars

LEMMA EndMarksFacts ==
    ASSUME EndMarks
    PROVE  /\ UNCHANGED <<store, place, mu, listed, toSubscribe, feeder, worker, cancelled,
                          unfed, early>>
           /\ runAt = "marking" /\ runAt' = "marked" /\ pairSubs' = uniquePairs(listed)
  BY DEF EndMarks, RunMarks, callVars, feedVars, historyVars

LEMMA StartChainFacts ==
    ASSUME StartChain
    PROVE  /\ UNCHANGED <<store, place, mu, listed, pairSubs, feeder, cancelled, unfed, early>>
           /\ runAt = "marked" /\ runAt' = "subscribe" /\ toSubscribe' = uniquePairs(listed)
  BY DEF StartChain, callVars, feedVars, historyVars

LEMMA InitialFacts ==
    ASSUME NEW pair \in Pairs, SubscribeInitial(pair)
    PROVE  /\ UNCHANGED <<store, place, mu, runAt, listed, pairSubs, worker, cancelled, early>>
           /\ runAt = "subscribe" /\ pair \in toSubscribe
           /\ toSubscribe' = toSubscribe \ {pair}
           /\ pair \in Feeders /\ FeedOf(pair) = pair /\ subscribePair(pair)
  BY FeedOfOwn DEF SubscribeInitial, callVars

LEMMA CancelFacts ==
    ASSUME Cancel
    PROVE  /\ UNCHANGED <<store, place, mu, runAt, listed, toSubscribe, pairSubs, feeder, worker,
                          unfed, early>>
           /\ cancelled'
  BY DEF Cancel, callVars, runVars, feedVars, historyVars

LEMMA StutterFacts ==
    ASSUME UNCHANGED vars
    PROVE  UNCHANGED <<store, place, mu, runAt, listed, toSubscribe, pairSubs, feeder, worker,
                       cancelled, unfed, early>>
  BY DEF vars, callVars, runVars, feedVars, historyVars

(* Every step is one of those.                                              *)
LEMMA StepKinds ==
    ASSUME [Next]_vars
    PROVE  \/ \E p \in Positions : Save(p) \/ registerPositionTriggers(p)
           \/ \E p \in Positions : ensurePairSubscribed(p)
           \/ \E p \in Positions : SubscribeDynamic(p)
           \/ RunMoves \/ EndMarks \/ StartChain \/ Cancel
           \/ \E pair \in Pairs : SubscribeInitial(pair)
           \/ \E g \in Feeders : FeederAction(g)
           \/ \E w \in Workers : WorkerAction(w)
           \/ UNCHANGED vars
  BY DEF Next, CallStep, RunStep, RunMoves, FeederAction, WorkerAction

-----------------------------------------------------------------------------
(* The parts of the invariant.                                              *)

LEMMA BeforeReadyStep == IInv /\ [Next]_vars => BeforeReady'
  <1> SUFFICES ASSUME IInv, [Next]_vars PROVE BeforeReady'
    OBVIOUS
  <1> USE DEF ChainReady
  <1>0. TypeOK /\ BeforeReady
    BY DEF IInv
  <1>1. ASSUME NEW p \in Positions, Save(p) \/ registerPositionTriggers(p) PROVE BeforeReady'
    BY <1>0, <1>1, EarlyCallFacts DEF BeforeReady
  <1>2. ASSUME NEW p \in Positions, ensurePairSubscribed(p) PROVE BeforeReady'
    BY <1>0, <1>2, EnsureFacts DEF BeforeReady
  <1>3. ASSUME NEW p \in Positions, SubscribeDynamic(p) PROVE BeforeReady'
    BY <1>0, <1>3, DynamicFacts DEF BeforeReady
  <1>4. CASE RunMoves
    BY <1>0, <1>4, RunFacts DEF BeforeReady
  <1>5. CASE EndMarks
    BY <1>0, <1>5, EndMarksFacts DEF BeforeReady
  <1>6. CASE StartChain
    BY <1>6, StartChainFacts DEF BeforeReady
  <1>7. CASE Cancel
    BY <1>0, <1>7, CancelFacts DEF BeforeReady
  <1>8. ASSUME NEW pair \in Pairs, SubscribeInitial(pair) PROVE BeforeReady'
    BY <1>8, InitialFacts DEF BeforeReady
  <1>9. ASSUME NEW g \in Feeders, FeederAction(g) PROVE BeforeReady'
    BY <1>0, <1>9, FeederFacts DEF BeforeReady
  <1>10. ASSUME NEW w \in Workers, WorkerAction(w) PROVE BeforeReady'
    BY <1>0, <1>10, WorkerFacts DEF BeforeReady
  <1>11. CASE UNCHANGED vars
    BY <1>0, <1>11, StutterFacts DEF BeforeReady
  <1> QED  BY <1>1, <1>2, <1>3, <1>4, <1>5, <1>6, <1>7, <1>8, <1>9, <1>10, <1>11, StepKinds

LEMMA OneGoroutineStep == IInv /\ [Next]_vars => OneGoroutine'
  <1> SUFFICES ASSUME IInv, [Next]_vars PROVE OneGoroutine'
    OBVIOUS
  <1>0. TypeOK /\ BeforeReady /\ MarkInv /\ OneGoroutine
    BY DEF IInv
  <1>1. ASSUME NEW p \in Positions, Save(p) \/ registerPositionTriggers(p) PROVE OneGoroutine'
    BY <1>0, <1>1, EarlyCallFacts DEF OneGoroutine
  <1>2. ASSUME NEW p \in Positions, ensurePairSubscribed(p) PROVE OneGoroutine'
    BY <1>0, <1>2, EnsureFacts DEF OneGoroutine
  <1>3. ASSUME NEW p \in Positions, SubscribeDynamic(p) PROVE OneGoroutine'
    <2>1. \A h \in Feeders : FeedOf(h) = FeedOf(p) => feeder[h] = "none"
      BY <1>0, <1>3, DynamicFacts DEF MarkInv, NeverFed
    <2> QED  BY <1>0, <1>3, <2>1, DynamicFacts, SubscribeFacts DEF OneGoroutine
  <1>4. CASE RunMoves
    BY <1>0, <1>4, RunFacts DEF OneGoroutine
  <1>5. CASE EndMarks
    BY <1>0, <1>5, EndMarksFacts DEF OneGoroutine
  <1>6. CASE StartChain
    BY <1>0, <1>6, StartChainFacts DEF OneGoroutine
  <1>7. CASE Cancel
    BY <1>0, <1>7, CancelFacts DEF OneGoroutine
  <1>8. ASSUME NEW pair \in Pairs, SubscribeInitial(pair) PROVE OneGoroutine'
    <2>1. \A h \in Feeders : FeedOf(h) = FeedOf(pair) => feeder[h] = "none"
      BY <1>0, <1>8, InitialFacts DEF MarkInv, NeverFed
    <2> QED  BY <1>0, <1>8, <2>1, InitialFacts, SubscribeFacts DEF OneGoroutine
  <1>9. ASSUME NEW g \in Feeders, FeederAction(g) PROVE OneGoroutine'
    BY <1>0, <1>9, FeederFacts DEF OneGoroutine
  <1>10. ASSUME NEW w \in Workers, WorkerAction(w) PROVE OneGoroutine'
    BY <1>0, <1>10, WorkerFacts DEF OneGoroutine
  <1>11. CASE UNCHANGED vars
    BY <1>0, <1>11, StutterFacts DEF OneGoroutine
  <1> QED  BY <1>1, <1>2, <1>3, <1>4, <1>5, <1>6, <1>7, <1>8, <1>9, <1>10, <1>11, StepKinds
LEMMA MarkInvStep == IInv /\ [Next]_vars => MarkInv'
  <1> SUFFICES ASSUME IInv, [Next]_vars PROVE MarkInv'
    OBVIOUS
  <1> USE DEF ChainReady, NeverFed
  <1>0. TypeOK /\ BeforeReady /\ MarkInv
    BY DEF IInv
  <1>1. ASSUME NEW p \in Positions, Save(p) \/ registerPositionTriggers(p) PROVE MarkInv'
    BY <1>0, <1>1, EarlyCallFacts DEF MarkInv
  <1>2. ASSUME NEW p \in Positions, ensurePairSubscribed(p) PROVE MarkInv'
    <2>1. CASE pairSubs' = pairSubs /\ \A q \in Positions : place'[q] = "subscribe" =>
                                      place[q] = "subscribe" /\ mu' = mu
      BY <1>0, <1>2, <2>1, EnsureFacts DEF MarkInv
    <2>2. CASE /\ ChainReady /\ PairOf[p] \notin pairSubs
               /\ pairSubs' = pairSubs \cup {PairOf[p]}
               /\ place'[p] = "subscribe" /\ mu' = p
      <3>1. PairOf[p] \notin toSubscribe
        BY <1>0, <2>2 DEF MarkInv
      <3>2. NeverFed(PairOf[p])
        BY <1>0, <2>2 DEF MarkInv
      <3>3. \A q \in Positions : place[q] # "subscribe"
        BY <1>0, <1>2, EnsureFacts, PairAssumption DEF MarkInv
      <3>4. UNCHANGED <<runAt, listed, toSubscribe, feeder>>
            /\ \A q \in Positions : q # p => place'[q] = place[q]
        BY <1>0, <1>2, EnsureFacts
      <3> QED  BY <1>0, <2>2, <3>1, <3>2, <3>3, <3>4 DEF MarkInv
    <2> QED  BY <1>0, <1>2, <2>1, <2>2, EnsureFacts
  <1>3. ASSUME NEW p \in Positions, SubscribeDynamic(p) PROVE MarkInv'
    <2>1. \A q \in Positions : place'[q] # "subscribe"
      BY <1>0, <1>3, DynamicFacts DEF MarkInv
    <2>2. PairOf[p] \in pairSubs \ toSubscribe
      BY <1>0, <1>3, DynamicFacts DEF MarkInv
    <2>3. /\ UNCHANGED <<runAt, listed, toSubscribe, pairSubs>>
          /\ \A h \in Feeders : h # p => feeder'[h] = feeder[h]
          /\ p \in Feeders /\ FeedOf(p) = PairOf[p]
      BY <1>0, <1>3, DynamicFacts, SubscribeFacts
    <2> QED  BY <1>0, <2>1, <2>2, <2>3 DEF MarkInv
  <1>4. CASE RunMoves
    <2>1. UNCHANGED <<place, mu, pairSubs, toSubscribe, feeder>>
      BY <1>0, <1>4, RunFacts
    <2>2. runAt' \in {"made", "listed", "marking", "failed"} => pairSubs = {}
      BY <1>0, <1>4, RunFacts DEF MarkInv
    <2>3. (runAt' # "marked") /\ (ChainReady' => ChainReady /\ listed' = listed)
      BY <1>0, <1>4, RunFacts
    <2>4. runAt' # "subscribe" /\ toSubscribe' = {}
      BY <1>0, <1>4, RunFacts DEF MarkInv
    <2>5. runAt' # "none"
      BY <1>0, <1>4, RunFacts
    <2> QED  BY <1>0, <2>1, <2>2, <2>3, <2>4, <2>5 DEF MarkInv
  <1>5. CASE EndMarks
    <2>1. /\ \A g \in Feeders : feeder'[g] = "none"
          /\ \A q \in Positions : place'[q] # "subscribe"
          /\ toSubscribe' = {}
      BY <1>0, <1>5, EndMarksFacts DEF BeforeReady
    <2>2. runAt' = "marked" /\ pairSubs' = uniquePairs(listed) /\ listed' = listed
      BY <1>5, EndMarksFacts
    <2> QED  BY <2>1, <2>2 DEF MarkInv, uniquePairs
  <1>6. CASE StartChain
    <2>1. /\ \A g \in Feeders : feeder'[g] = "none"
          /\ \A q \in Positions : place'[q] # "subscribe"
      BY <1>0, <1>6, StartChainFacts DEF BeforeReady
    <2>2. /\ runAt' = "subscribe" /\ toSubscribe' = uniquePairs(listed) /\ listed' = listed
          /\ pairSubs' = uniquePairs(listed)
      BY <1>0, <1>6, StartChainFacts DEF MarkInv
    <2> QED  BY <2>1, <2>2 DEF MarkInv, uniquePairs
  <1>7. CASE Cancel
    BY <1>0, <1>7, CancelFacts DEF MarkInv
  <1>8. ASSUME NEW pair \in Pairs, SubscribeInitial(pair) PROVE MarkInv'
    <2>1. /\ UNCHANGED <<place, mu, runAt, listed, pairSubs>>
          /\ runAt = "subscribe" /\ pair \in toSubscribe /\ toSubscribe' = toSubscribe \ {pair}
          /\ \A h \in Feeders : h # pair => feeder'[h] = feeder[h]
          /\ pair \in Feeders /\ FeedOf(pair) = pair
      BY <1>0, <1>8, InitialFacts, SubscribeFacts
    <2>2. pair \in pairSubs /\ \A q \in Positions : place[q] = "subscribe" => PairOf[q] # pair
      BY <1>0, <2>1 DEF MarkInv
    <2> QED  BY <1>0, <2>1, <2>2 DEF MarkInv
  <1>9. ASSUME NEW g \in Feeders, FeederAction(g) PROVE MarkInv'
    BY <1>0, <1>9, FeederFacts DEF MarkInv
  <1>10. ASSUME NEW w \in Workers, WorkerAction(w) PROVE MarkInv'
    BY <1>0, <1>10, WorkerFacts DEF MarkInv
  <1>11. CASE UNCHANGED vars
    BY <1>0, <1>11, StutterFacts DEF MarkInv
  <1> QED  BY <1>1, <1>2, <1>3, <1>4, <1>5, <1>6, <1>7, <1>8, <1>9, <1>10, <1>11, StepKinds

LEMMA MarkedIsFedStep == IInv /\ [Next]_vars => MarkedIsFed'
  <1> SUFFICES ASSUME IInv, [Next]_vars PROVE MarkedIsFed'
    OBVIOUS
  <1> USE DEF ChainReady, BeingSubscribed, HasFeeder
  <1>0. TypeOK /\ BeforeReady /\ MarkInv /\ MarkedIsFed
    BY DEF IInv
  <1>1. ASSUME NEW p \in Positions, Save(p) \/ registerPositionTriggers(p) PROVE MarkedIsFed'
    <2>1. \A q \in Positions : place[q] = "subscribe" => place'[q] = "subscribe"
      BY <1>0, <1>1, EarlyCallFacts
    <2>2. UNCHANGED <<runAt, toSubscribe, pairSubs, feeder, unfed, cancelled>>
      BY <1>0, <1>1, EarlyCallFacts
    <2> QED  BY <1>0, <2>1, <2>2 DEF MarkedIsFed, Alive
  <1>2. ASSUME NEW p \in Positions, ensurePairSubscribed(p) PROVE MarkedIsFed'
    <2>1. \A q \in Positions : place[q] = "subscribe" => place'[q] = "subscribe"
      BY <1>0, <1>2, EnsureFacts
    <2>2. UNCHANGED <<runAt, toSubscribe, feeder, unfed, cancelled>>
      BY <1>0, <1>2, EnsureFacts
    <2>3. pairSubs' \subseteq pairSubs
            \/ (pairSubs' = pairSubs \cup {PairOf[p]} /\ place'[p] = "subscribe")
      BY <1>0, <1>2, EnsureFacts
    <2> QED  BY <1>0, <2>1, <2>2, <2>3 DEF MarkedIsFed, Alive
  <1>3. ASSUME NEW p \in Positions, SubscribeDynamic(p) PROVE MarkedIsFed'
    <2>1. /\ UNCHANGED <<runAt, toSubscribe, pairSubs, cancelled>>
          /\ p \in Feeders /\ FeedOf(p) = PairOf[p]
          /\ \A h \in Feeders : h # p => feeder'[h] = feeder[h]
          /\ feeder'[p] \in {feeder[p], "select"}
          /\ feeder'[p] = "select" \/ PairOf[p] \in unfed'
          /\ unfed \subseteq unfed'
      BY <1>0, <1>3, DynamicFacts, SubscribeFacts
    <2>2. \A q \in Positions : place[q] = "subscribe" => q = p
      BY <1>0, <1>3, DynamicFacts DEF MarkInv
    <2>3. \A h \in Feeders : feeder[h] \in {"select", "dispatch"}
                              => feeder'[h] \in {"select", "dispatch"}
      BY <2>1
    <2> QED  BY <1>0, <2>1, <2>2, <2>3 DEF MarkedIsFed, Alive
  <1>4. CASE RunMoves
    <2>1. UNCHANGED <<place, pairSubs, toSubscribe, feeder, cancelled, unfed>>
      BY <1>0, <1>4, RunFacts
    <2>2. ChainReady' => ChainReady
      BY <1>0, <1>4, RunFacts
    <2> QED  BY <1>0, <2>1, <2>2 DEF MarkedIsFed, Alive
  <1>5. CASE EndMarks
    BY <1>5, EndMarksFacts DEF MarkedIsFed
  <1>6. CASE StartChain
    BY <1>0, <1>6, StartChainFacts DEF MarkedIsFed, MarkInv
  <1>7. CASE Cancel
    BY <1>7, CancelFacts DEF MarkedIsFed
  <1>8. ASSUME NEW pair \in Pairs, SubscribeInitial(pair) PROVE MarkedIsFed'
    <2>1. /\ UNCHANGED <<place, runAt, pairSubs, cancelled>>
          /\ toSubscribe' = toSubscribe \ {pair}
          /\ \A h \in Feeders : h # pair => feeder'[h] = feeder[h]
          /\ feeder'[pair] \in {feeder[pair], "select"}
          /\ feeder'[pair] = "select" \/ pair \in unfed'
          /\ unfed \subseteq unfed'
          /\ pair \in Feeders /\ FeedOf(pair) = pair
      BY <1>0, <1>8, InitialFacts, SubscribeFacts
    <2>2. \A h \in Feeders : feeder[h] \in {"select", "dispatch"}
                              => feeder'[h] \in {"select", "dispatch"}
      BY <2>1
    <2> QED  BY <1>0, <2>1, <2>2 DEF MarkedIsFed, Alive
  <1>9. ASSUME NEW g \in Feeders, FeederAction(g) PROVE MarkedIsFed'
    BY <1>0, <1>9, FeederFacts DEF MarkedIsFed, Alive
  <1>10. ASSUME NEW w \in Workers, WorkerAction(w) PROVE MarkedIsFed'
    BY <1>0, <1>10, WorkerFacts DEF MarkedIsFed, Alive
  <1>11. CASE UNCHANGED vars
    BY <1>0, <1>11, StutterFacts DEF MarkedIsFed, Alive
  <1> QED  BY <1>1, <1>2, <1>3, <1>4, <1>5, <1>6, <1>7, <1>8, <1>9, <1>10, <1>11, StepKinds

LEMMA OpenIsKnownStep == IInv /\ [Next]_vars => OpenIsKnown'
  <1> SUFFICES ASSUME IInv, [Next]_vars PROVE OpenIsKnown'
    OBVIOUS
  <1> USE DEF ChainReady
  <1>0. TypeOK /\ BeforeReady /\ MarkInv /\ OpenIsKnown
    BY DEF IInv
  <1>1. ASSUME NEW p \in Positions, Save(p) \/ registerPositionTriggers(p) PROVE OpenIsKnown'
    BY <1>0, <1>1, EarlyCallFacts DEF OpenIsKnown
  <1>2. ASSUME NEW p \in Positions, ensurePairSubscribed(p) PROVE OpenIsKnown'
    <2>1. /\ UNCHANGED <<store, runAt, listed>>
          /\ pairSubs \subseteq pairSubs' /\ early \subseteq early'
          /\ \A q \in Positions : q # p => place'[q] = place[q]
          /\ place[p] = "registered"
      BY <1>0, <1>2, EnsureFacts
    <2>2. place'[p] = "done" => runAt = "none" \/ PairOf[p] \in pairSubs \/ p \in early'
      BY <1>0, <1>2, EnsureFacts
    <2>3. runAt = "none" => p \in store
      BY <1>0, <2>1 DEF BeforeReady
    <2>4. place'[p] # "restored"
      BY <1>0, <1>2, EnsureFacts
    <2> QED  BY <1>0, <2>1, <2>2, <2>3, <2>4 DEF OpenIsKnown
  <1>3. ASSUME NEW p \in Positions, SubscribeDynamic(p) PROVE OpenIsKnown'
    <2>1. PairOf[p] \in pairSubs
      BY <1>0, <1>3, DynamicFacts DEF MarkInv
    <2> QED  BY <1>0, <1>3, <2>1, DynamicFacts DEF OpenIsKnown
  <1>4. CASE RunMoves
    BY <1>0, <1>4, RunFacts DEF OpenIsKnown
  <1>5. CASE EndMarks
    BY <1>0, <1>5, EndMarksFacts DEF OpenIsKnown, MarkInv
  <1>6. CASE StartChain
    BY <1>0, <1>6, StartChainFacts DEF OpenIsKnown
  <1>7. CASE Cancel
    BY <1>0, <1>7, CancelFacts DEF OpenIsKnown
  <1>8. ASSUME NEW pair \in Pairs, SubscribeInitial(pair) PROVE OpenIsKnown'
    BY <1>0, <1>8, InitialFacts DEF OpenIsKnown
  <1>9. ASSUME NEW g \in Feeders, FeederAction(g) PROVE OpenIsKnown'
    BY <1>0, <1>9, FeederFacts DEF OpenIsKnown
  <1>10. ASSUME NEW w \in Workers, WorkerAction(w) PROVE OpenIsKnown'
    BY <1>0, <1>10, WorkerFacts DEF OpenIsKnown
  <1>11. CASE UNCHANGED vars
    BY <1>0, <1>11, StutterFacts DEF OpenIsKnown
  <1> QED  BY <1>1, <1>2, <1>3, <1>4, <1>5, <1>6, <1>7, <1>8, <1>9, <1>10, <1>11, StepKinds

-----------------------------------------------------------------------------
(* The theorems.                                                            *)

LEMMA IInvStep == IInv /\ [Next]_vars => IInv'
  BY TypeStep, BeforeReadyStep, MarkInvStep, OneGoroutineStep, MarkedIsFedStep,
     OpenIsKnownStep DEF IInv

LEMMA InductiveInvariant == Spec => []IInv
  BY InitOK, IInvStep, PTL DEF Spec

(* Every variable keeps its type: runChain and the calls leave no state     *)
(* that the goroutines do not expect.                                       *)
THEOREM TypeCorrect == Spec => []TypeOK
  <1>1. IInv => TypeOK
    BY DEF IInv
  <1> QED  BY InductiveInvariant, <1>1, PTL

(* A pair never has two price goroutines, whichever of Run and any number   *)
(* of calls of OpenPosition meet in ensurePairSubscribed.                   *)
THEOREM OneFeederPerPair == Spec => []OneFeeder
  <1>1. IInv => OneFeeder
    BY DEF IInv, OneGoroutine, OneFeeder, Alive
  <1> QED  BY InductiveInvariant, <1>1, PTL

(* While Run serves, the pair of an open position has its price goroutine,  *)
(* but for the failures the code does not repair and the positions that     *)
(* came between ListActive and the moment the chain is ready.               *)
THEOREM OpenPairsAreFed == Spec => []OpenPairsFed
  <1>1. IInv => OpenPairsFed
    <2> SUFFICES ASSUME IInv, runAt = "wait", ~cancelled, NEW p \in Positions,
                        place[p] \in {"done", "restored"}
                 PROVE  \/ \E g \in Feeders : Alive(g) /\ FeedOf(g) = PairOf[p]
                        \/ PairOf[p] \in unfed
                        \/ \E q \in Positions : place[q] = "subscribe" /\ PairOf[q] = PairOf[p]
                        \/ p \in early \ listed
      BY DEF OpenPairsFed
    <2>1. PairOf[p] \in pairSubs \/ p \in listed \/ p \in early
      BY DEF IInv, OpenIsKnown
    <2>2. p \in listed => PairOf[p] \in pairSubs
      BY DEF IInv, MarkInv, ChainReady, uniquePairs
    <2>3. CASE PairOf[p] \in pairSubs
      BY <2>3 DEF IInv, MarkInv, MarkedIsFed, ChainReady, BeingSubscribed, HasFeeder
    <2> QED  BY <2>1, <2>2, <2>3
  <1> QED  BY InductiveInvariant, <1>1, PTL

-----------------------------------------------------------------------------
(* NoTriggerLost: where the trigger of a position goes in each step.        *)

Unmoved == UNCHANGED <<engine, pending, execCh, worker>>

LEMMA UnmovedIsOnItsWay ==
    ASSUME NEW p \in Positions, Unmoved, OnItsWay(p)
    PROVE  OnItsWay(p)'
  BY DEF Unmoved, OnItsWay

(* The calls of OpenPosition and of Run take nothing away.                  *)
LEMMA CallKeeps ==
    ASSUME TypeOK, NEW q \in Positions, Save(q) \/ CallStep(q), NEW p \in Positions, OnItsWay(p)
    PROVE  OnItsWay(p)'
  <1>1. CASE registerPositionTriggers(q)
    <2>1. engine'[p] >= engine[p] /\ UNCHANGED <<pending, execCh, worker>>
      BY <1>1 DEF registerPositionTriggers, TypeOK, feedVars
    <2>2. engine[p] \in Nat /\ engine'[p] \in Nat
      BY <1>1 DEF registerPositionTriggers, TypeOK
    <2> QED  BY <2>1, <2>2 DEF OnItsWay
  <1>2. CASE Save(q)
    BY <1>2, UnmovedIsOnItsWay DEF Save, Unmoved, feedVars
  <1>3. CASE ensurePairSubscribed(q)
    BY <1>3, UnmovedIsOnItsWay DEF ensurePairSubscribed, Unmoved, feedVars
  <1>4. CASE SubscribeDynamic(q)
    BY <1>4, UnmovedIsOnItsWay DEF SubscribeDynamic, Unmoved
  <1> QED  BY <1>1, <1>2, <1>3, <1>4 DEF CallStep

LEMMA RunKeeps ==
    ASSUME TypeOK, BeforeReady, StartRun \/ RunStep \/ Cancel, NEW p \in Positions, OnItsWay(p)
    PROVE  OnItsWay(p)'
  <1>1. CASE ListActive
    <2>1. UNCHANGED <<pending, execCh, worker>>
      BY <1>1 DEF ListActive, feedVars
    <2>2. engine[p] \in Nat
      BY DEF TypeOK
    <2>3. engine'[p] \in {engine[p], engine[p] + 1}
      BY <1>1 DEF ListActive
    <2> QED  BY <2>1, <2>2, <2>3 DEF OnItsWay
  <1>2. CASE StartChain
    <2>1. \A w \in Workers : worker[w] # p
      BY <1>2, PairAssumption DEF StartChain, BeforeReady, ChainReady
    <2> QED  BY <1>2, <2>1 DEF StartChain, OnItsWay, feedVars
  <1>3. CASE StartRun \/ BeginMarks \/ EndMarks \/ AllSubscribed \/ CloseChannel \/ Cancel
    BY <1>3, UnmovedIsOnItsWay DEF StartRun, BeginMarks, EndMarks, AllSubscribed, CloseChannel,
         Cancel, Unmoved, feedVars
  <1>4. ASSUME NEW pair \in Pairs, SubscribeInitial(pair) PROVE OnItsWay(p)'
    BY <1>4, UnmovedIsOnItsWay DEF SubscribeInitial, Unmoved
  <1> QED  BY <1>1, <1>2, <1>3, <1>4 DEF RunStep

LEMMA FeederKeeps ==
    ASSUME TypeOK, NothingForgotten, NEW g \in Feeders, FeederAction(g), ~cancelled,
           NEW p \in Positions, OnItsWay(p)
    PROVE  OnItsWay(p)'
  <1>1. ASSUME NEW F \in SUBSET Positions, OnPrice(g, F) PROVE OnItsWay(p)'
    <2>1. pending[g][p] = 0
      BY <1>1 DEF OnPrice, NothingForgotten, Dispatched
    <2>2. /\ UNCHANGED <<execCh, worker>>
          /\ \A h \in Feeders : h # g => pending'[h] = pending[h]
          /\ p \in F => pending'[g][p] = engine[p]
          /\ p \notin F => engine'[p] = engine[p]
      BY <1>1 DEF OnPrice, TypeOK
    <2>3. p \in F => engine[p] > 0
      BY <1>1 DEF OnPrice
    <2>4. CASE p \in F
      BY <2>2, <2>3, <2>4 DEF OnItsWay
    <2>5. CASE p \notin F
      <3>1. \A h \in Feeders : pending[h][p] > 0 => pending'[h][p] = pending[h][p]
        BY <2>1, <2>2
      <3> QED  BY <2>2, <2>5, <3>1 DEF OnItsWay
    <2> QED  BY <2>4, <2>5
  <1>2. ASSUME NEW q \in Positions, Dispatch(g, q) PROVE OnItsWay(p)'
    <2>1. CASE UNCHANGED <<pending, execCh>>
      BY <1>2, <2>1, UnmovedIsOnItsWay DEF Dispatch, Unmoved
    <2>2. CASE /\ execCh' = Append(execCh, q)
               /\ pending' = [pending EXCEPT ![g][q] = @ - 1]
      <3>1. UNCHANGED <<engine, worker>>
        BY <1>2 DEF Dispatch
      <3>2. execCh \in Seq(Positions)
        BY DEF TypeOK
      <3>3. Len(execCh) + 1 \in DOMAIN execCh' /\ execCh'[Len(execCh) + 1] = q
        BY <2>2, <3>2, AppendProperties
      <3>4. \A i \in DOMAIN execCh : i \in DOMAIN execCh' /\ execCh'[i] = execCh[i]
        BY <2>2, <3>2, AppendProperties
      <3>5. p # q => \A h \in Feeders : pending'[h][p] = pending[h][p]
        BY <2>2 DEF TypeOK
      <3>6. CASE p = q
        BY <3>3, <3>6 DEF OnItsWay
      <3>7. CASE p # q
        BY <3>1, <3>4, <3>5, <3>7 DEF OnItsWay
      <3> QED  BY <3>6, <3>7
    <2> QED  BY <1>2, <2>1, <2>2 DEF Dispatch
  <1>3. CASE NextUpdate(g)
    <2>1. \A h \in Feeders : pending[h][p] > 0 => pending'[h][p] = pending[h][p]
      BY <1>3 DEF NextUpdate, Returns, Dispatched, TypeOK
    <2> QED  BY <1>3, <2>1 DEF NextUpdate, OnItsWay
  <1>4. CASE FeederEnds(g)
    BY <1>4 DEF FeederEnds
  <1>5. CASE FeedClosed(g)
    BY <1>5, UnmovedIsOnItsWay DEF FeedClosed, Unmoved
  <1> QED  BY <1>1, <1>2, <1>3, <1>4, <1>5 DEF FeederAction, FeederStep

LEMMA WorkerKeeps ==
    ASSUME TypeOK, NEW w \in Workers, WorkerAction(w), ~cancelled,
           NEW p \in Positions, OnItsWay(p), p \in store', p \notin dropped'
    PROVE  OnItsWay(p)'
  <1>1. CASE TakeEvent(w)
    <2>1. execCh \in Seq(Positions) /\ execCh # <<>>
      BY <1>1 DEF TakeEvent, TypeOK
    <2>2. \A i \in DOMAIN execCh : execCh[i] = p =>
             Head(execCh) = p \/ \E j \in DOMAIN Tail(execCh) : Tail(execCh)[j] = p
      <3> SUFFICES ASSUME NEW i \in DOMAIN execCh, execCh[i] = p, Head(execCh) # p
                   PROVE  \E j \in DOMAIN Tail(execCh) : Tail(execCh)[j] = p
        OBVIOUS
      <3>1. i # 1 /\ i \in 1..Len(execCh)
        BY <2>1
      <3>2. i - 1 \in DOMAIN Tail(execCh) /\ Tail(execCh)[i - 1] = execCh[i]
        BY <2>1, <3>1, HeadTailProperties
      <3> QED  BY <3>2
    <2>3. worker'[w] = Head(execCh) /\ execCh' = Tail(execCh) /\ UNCHANGED <<engine, pending>>
      BY <1>1 DEF TakeEvent, TypeOK, feedVars
    <2>4. \A x \in Workers : worker[x] = p => worker'[x] = p
      BY <1>1, PairAssumption DEF TakeEvent, TypeOK
    <2> QED  BY <2>2, <2>3, <2>4 DEF OnItsWay
  <1>2. CASE executeTrigger(w)
    <2>1. UNCHANGED <<pending, execCh>>
      BY <1>2 DEF executeTrigger, feedVars
    <2>2. worker[w] # p => \A x \in Workers : worker[x] = p => worker'[x] = p
      BY <1>2 DEF executeTrigger, TypeOK
    <2>3. worker[w] # p => engine'[p] = engine[p]
      BY <1>2 DEF executeTrigger, TypeOK
    <2>4. worker[w] = p => engine'[p] > 0
      BY <1>2 DEF executeTrigger, TypeOK
    <2> QED  BY <2>1, <2>2, <2>3, <2>4 DEF OnItsWay
  <1>3. CASE WorkerEnds(w)
    BY <1>3 DEF WorkerEnds, WhenCancelled
  <1> QED  BY <1>1, <1>2, <1>3 DEF WorkerAction

(* A position that comes to be registered has an entry in the engine.       *)
LEMMA NewlyRegistered ==
    ASSUME TypeOK, NothingForgotten, [Next]_vars, NEW p \in Positions,
           p \in store', Registered(p)', ~(p \in store /\ Registered(p))
    PROVE  engine'[p] > 0
  <1>1. ASSUME NEW q \in Positions, Save(q) PROVE FALSE
    BY <1>1 DEF Save, GoTo, Registered, NothingForgotten, TypeOK, runVars
  <1>2. ASSUME NEW q \in Positions, registerPositionTriggers(q) PROVE engine'[p] > 0
    <2>1. UNCHANGED <<store, listed>> /\ (p # q => place'[p] = place[p])
      BY <1>2 DEF registerPositionTriggers, GoTo, TypeOK, runVars
    <2>2. p = q
      BY <2>1 DEF Registered
    <2> QED  BY <1>2, <2>2 DEF registerPositionTriggers, TypeOK
  <1>3. ASSUME NEW q \in Positions, ensurePairSubscribed(q) PROVE FALSE
    BY <1>3, EnsureFacts DEF Registered
  <1>4. ASSUME NEW q \in Positions, SubscribeDynamic(q) PROVE FALSE
    BY <1>4, DynamicFacts DEF Registered
  <1>5. CASE RunMoves
    <2>1. UNCHANGED <<store, place>>
      BY <1>5, RunFacts
    <2>2. listed' # listed
      BY <2>1 DEF Registered
    <2>3. ListActive /\ listed' = store
      BY <1>5, <2>2 DEF RunMoves, StartRun, BeginMarks, AllSubscribed, CloseChannel, ListActive
    <2>4. engine' = [q \in Positions |-> IF q \in store THEN engine[q] + 1 ELSE engine[q]]
      BY <2>2, <2>3 DEF ListActive
    <2>5. p \in store /\ engine[p] \in Nat
      BY <2>1 DEF TypeOK
    <2> QED  BY <2>4, <2>5
  <1>6. CASE EndMarks
    BY <1>6, EndMarksFacts DEF Registered
  <1>7. CASE StartChain
    BY <1>7, StartChainFacts DEF Registered
  <1>8. CASE Cancel
    BY <1>8, CancelFacts DEF Registered
  <1>9. ASSUME NEW pair \in Pairs, SubscribeInitial(pair) PROVE FALSE
    BY <1>9, InitialFacts DEF Registered
  <1>10. ASSUME NEW g \in Feeders, FeederAction(g) PROVE FALSE
    BY <1>10, FeederFacts DEF Registered
  <1>11. ASSUME NEW w \in Workers, WorkerAction(w) PROVE FALSE
    <2>1. UNCHANGED <<place, listed>>
      BY <1>11 DEF WorkerAction, TakeEvent, executeTrigger, WorkerEnds, callVars, runVars
    <2>2. store' \subseteq store
      BY <1>11 DEF WorkerAction, TakeEvent, executeTrigger, WorkerEnds
    <2> QED  BY <2>1, <2>2 DEF Registered
  <1>12. CASE UNCHANGED vars
    BY <1>12, StutterFacts DEF Registered
  <1> QED  BY <1>1, <1>2, <1>3, <1>4, <1>5, <1>6, <1>7, <1>8, <1>9, <1>10, <1>11, <1>12,
              StepKinds

(* The context stays ended, and what executeTrigger dropped stays dropped.  *)
LEMMA NeverUndone ==
    ASSUME [Next]_vars
    PROVE  (cancelled => cancelled') /\ dropped \subseteq dropped'
  <1>1. ASSUME NEW p \in Positions, Save(p) \/ CallStep(p)
        PROVE  UNCHANGED <<cancelled, dropped>>
    BY <1>1 DEF CallStep, Save, registerPositionTriggers, ensurePairSubscribed,
                SubscribeDynamic, historyVars
  <1>2. CASE StartRun \/ RunStep \/ Cancel
    BY <1>2 DEF StartRun, RunStep, ListActive, BeginMarks, EndMarks, StartChain,
                SubscribeInitial, AllSubscribed, CloseChannel, Cancel, historyVars
  <1>3. ASSUME NEW g \in Feeders, FeederAction(g) PROVE UNCHANGED <<cancelled, dropped>>
    BY <1>3 DEF FeederAction, FeederStep, OnPrice, Dispatch, NextUpdate, FeederEnds, FeedClosed,
                historyVars
  <1>4. ASSUME NEW w \in Workers, WorkerAction(w)
        PROVE  UNCHANGED cancelled /\ dropped \subseteq dropped'
    BY <1>4 DEF WorkerAction, TakeEvent, executeTrigger, WorkerEnds, historyVars
  <1>5. CASE UNCHANGED vars
    BY <1>5 DEF vars, historyVars
  <1> QED  BY <1>1, <1>2, <1>3, <1>4, <1>5 DEF Next, FeederAction, WorkerAction

LEMMA NothingForgottenStep ==
    ASSUME IInv, NothingForgotten, [Next]_vars
    PROVE  NothingForgotten'
  <1>0. TypeOK /\ BeforeReady
    BY DEF IInv
  <1>1. ASSUME NEW p \in Positions, place'[p] = "none" PROVE p \notin store' \cup listed'
    <2>1. ASSUME NEW q \in Positions, Save(q) \/ registerPositionTriggers(q)
          PROVE  /\ UNCHANGED listed /\ place[p] = "none"
                 /\ store' \in {store, store \cup {q}} /\ p # q
      BY <1>0, <1>1, <2>1 DEF Save, registerPositionTriggers, GoTo, TypeOK, runVars
    <2>2. ASSUME NEW q \in Positions, ensurePairSubscribed(q) \/ SubscribeDynamic(q)
          PROVE  UNCHANGED <<store, listed>> /\ place[p] = "none"
      BY <1>0, <1>1, <2>2, EnsureFacts, DynamicFacts
    <2>3. CASE RunMoves \/ EndMarks \/ StartChain \/ Cancel
      BY <1>0, <1>1, <2>3, RunFacts, EndMarksFacts, StartChainFacts, CancelFacts
         DEF NothingForgotten
    <2>4. ASSUME NEW pair \in Pairs, SubscribeInitial(pair) PROVE UNCHANGED <<store, listed, place>>
      BY <2>4, InitialFacts
    <2>5. ASSUME NEW g \in Feeders, FeederAction(g) PROVE UNCHANGED <<store, listed, place>>
      BY <1>0, <2>5, FeederFacts
    <2>6. ASSUME NEW w \in Workers, WorkerAction(w)
          PROVE  UNCHANGED <<listed, place>> /\ store' \subseteq store
      BY <2>6 DEF WorkerAction, TakeEvent, executeTrigger, WorkerEnds, callVars, runVars
    <2>7. CASE UNCHANGED vars
      BY <1>1, <2>7, StutterFacts DEF NothingForgotten
    <2> QED  BY <1>1, <2>1, <2>2, <2>3, <2>4, <2>5, <2>6, <2>7, StepKinds DEF NothingForgotten
  <1>2. ASSUME NEW g \in Feeders, feeder'[g] # "dispatch" PROVE Dispatched(g)'
    <2>1. ASSUME NEW h \in Feeders, subscribePair(h), UNCHANGED pending, feeder[h] = "none"
          PROVE  Dispatched(g)'
      BY <1>0, <1>2, <2>1, SubscribeFacts DEF NothingForgotten, Dispatched
    <2>2. ASSUME UNCHANGED <<feeder, pending>> PROVE Dispatched(g)'
      BY <1>2, <2>2 DEF NothingForgotten, Dispatched
    <2>3. ASSUME NEW q \in Positions, Save(q) \/ CallStep(q) PROVE Dispatched(g)'
      <3>1. CASE SubscribeDynamic(q)
        <4>1. FeedOf(q) = PairOf[q] /\ q \in Feeders /\ subscribePair(q) /\ UNCHANGED pending
          BY <1>0, <3>1, DynamicFacts DEF SubscribeDynamic
        <4>2. feeder[q] = "none"
          BY <3>1, <4>1 DEF SubscribeDynamic, IInv, MarkInv, NeverFed
        <4> QED  BY <2>1, <4>1, <4>2
      <3>2. CASE Save(q) \/ registerPositionTriggers(q) \/ ensurePairSubscribed(q)
        BY <2>2, <3>2 DEF Save, registerPositionTriggers, ensurePairSubscribed, feedVars
      <3> QED  BY <2>3, <3>1, <3>2 DEF CallStep
    <2>4. CASE StartRun \/ RunStep \/ Cancel
      <3>1. ASSUME NEW pair \in Pairs, SubscribeInitial(pair) PROVE Dispatched(g)'
        <4>1. /\ FeedOf(pair) = pair /\ pair \in Feeders /\ subscribePair(pair)
              /\ UNCHANGED pending /\ pair \in toSubscribe
          BY <3>1, InitialFacts DEF SubscribeInitial
        <4>2. feeder[pair] = "none"
          BY <4>1 DEF IInv, MarkInv, NeverFed
        <4> QED  BY <2>1, <4>1, <4>2
      <3>2. CASE \/ StartRun \/ ListActive \/ BeginMarks \/ EndMarks \/ StartChain
                 \/ AllSubscribed \/ CloseChannel \/ Cancel
        BY <2>2, <3>2 DEF StartRun, ListActive, BeginMarks, EndMarks, StartChain, AllSubscribed,
                          CloseChannel, Cancel, feedVars
      <3> QED  BY <2>4, <3>1, <3>2 DEF RunStep
    <2>5. ASSUME NEW h \in Feeders, NEW F \in SUBSET Positions, OnPrice(h, F)
          PROVE  Dispatched(g)'
      <3>1. g # h /\ feeder'[g] = feeder[g] /\ pending'[g] = pending[g]
        BY <1>0, <1>2, <2>5 DEF OnPrice, TypeOK
      <3> QED  BY <1>2, <3>1 DEF NothingForgotten, Dispatched
    <2>6. ASSUME NEW h \in Feeders, NEW p \in Positions, Dispatch(h, p) PROVE Dispatched(g)'
      <3>1. g # h /\ feeder'[g] = feeder[g] /\ pending'[g] = pending[g]
        BY <1>0, <1>2, <2>6 DEF Dispatch, TypeOK
      <3> QED  BY <1>2, <3>1 DEF NothingForgotten, Dispatched
    <2>7. ASSUME NEW h \in Feeders, NextUpdate(h) \/ FeederEnds(h) PROVE Dispatched(g)'
      <3>1. CASE g = h
        BY <1>0, <2>7, <3>1 DEF NextUpdate, FeederEnds, Dispatched, TypeOK
      <3>2. CASE g # h
        <4>1. feeder'[g] = feeder[g] /\ pending'[g] = pending[g]
          BY <1>0, <2>7, <3>2 DEF NextUpdate, FeederEnds, TypeOK
        <4> QED  BY <1>2, <4>1 DEF NothingForgotten, Dispatched
      <3> QED  BY <3>1, <3>2
    <2>8. ASSUME NEW h \in Feeders, FeedClosed(h) PROVE Dispatched(g)'
      <3>1. feeder[g] # "dispatch" /\ UNCHANGED pending
        BY <1>0, <1>2, <2>8 DEF FeedClosed, TypeOK
      <3> QED  BY <3>1 DEF NothingForgotten, Dispatched
    <2>9. ASSUME NEW w \in Workers, WorkerAction(w) PROVE Dispatched(g)'
      BY <2>2, <2>9 DEF WorkerAction, TakeEvent, executeTrigger, WorkerEnds, feedVars
    <2>10. CASE UNCHANGED vars
      BY <2>2, <2>10 DEF vars, feedVars
    <2> QED  BY <2>3, <2>4, <2>5, <2>6, <2>7, <2>8, <2>9, <2>10
             DEF Next, WorkerAction, FeederStep
  <1> QED  BY <1>1, <1>2 DEF NothingForgotten

LEMMA TriggerInvStep == TriggerInv /\ [Next]_vars => TriggerInv'
  <1> SUFFICES ASSUME TriggerInv, [Next]_vars PROVE TriggerInv'
    OBVIOUS
  <1>0. IInv /\ NothingForgotten /\ TypeOK /\ BeforeReady
    BY DEF TriggerInv, IInv
  <1>1. IInv' /\ NothingForgotten'
    BY <1>0, IInvStep, NothingForgottenStep
  <1>2. NoTriggerLost'
    <2> SUFFICES ASSUME NEW p \in Positions, p \in store', Registered(p)', p \notin dropped',
                        ~cancelled'
                 PROVE  OnItsWay(p)'
      BY <1>1 DEF NoTriggerLost, IInv, TypeOK
    <2>1. CASE p \in store /\ Registered(p)
      <3>1. OnItsWay(p) /\ ~cancelled
        BY <2>1, NeverUndone DEF TriggerInv, NoTriggerLost
      <3> HIDE DEF FeederAction, WorkerAction
      <3>2. ASSUME NEW q \in Positions, Save(q) \/ CallStep(q) PROVE OnItsWay(p)'
        BY <1>0, <3>1, <3>2, CallKeeps
      <3>3. CASE StartRun \/ RunStep \/ Cancel
        BY <1>0, <3>1, <3>3, RunKeeps
      <3>4. ASSUME NEW g \in Feeders, FeederAction(g) PROVE OnItsWay(p)'
        BY <1>0, <3>1, <3>4, FeederKeeps
      <3>5. ASSUME NEW w \in Workers, WorkerAction(w) PROVE OnItsWay(p)'
        BY <1>0, <3>1, <3>5, WorkerKeeps
      <3>6. CASE UNCHANGED vars
        BY <3>1, <3>6, UnmovedIsOnItsWay DEF vars, Unmoved, feedVars
      <3>7. \/ StartRun \/ RunStep \/ Cancel
            \/ \E q \in Positions : Save(q) \/ CallStep(q)
            \/ \E g \in Feeders : FeederAction(g)
            \/ \E w \in Workers : WorkerAction(w)
            \/ UNCHANGED vars
        BY DEF Next, FeederAction, WorkerAction
      <3> QED  BY <3>2, <3>3, <3>4, <3>5, <3>6, <3>7
    <2>2. CASE ~(p \in store /\ Registered(p))
      BY <1>0, <2>2, NewlyRegistered DEF OnItsWay
    <2> QED  BY <2>1, <2>2
  <1> QED  BY <1>1, <1>2 DEF TriggerInv

(* The trigger of an open position is in the engine, with a price           *)
(* goroutine, in the channel or with a worker, however many of them there   *)
(* are and whatever the channel holds, unless executeTrigger could not read *)
(* the record or the context ends.                                          *)
THEOREM TriggersAreKept == Spec => []NoTriggerLost
  <1>1. Init => TriggerInv
    <2>1. Init => NothingForgotten
      BY DEF Init, NothingForgotten, Dispatched
    <2>2. Init => NoTriggerLost
      BY DEF Init, NoTriggerLost, Registered
    <2> QED  BY InitOK, <2>1, <2>2 DEF TriggerInv
  <1>2. TriggerInv => NoTriggerLost
    BY DEF TriggerInv
  <1> QED  BY <1>1, <1>2, TriggerInvStep, PTL DEF Spec

-----------------------------------------------------------------------------
(* CrashOnlyIfLate.                                                         *)

(* The channel is closed by CloseChannel and stays closed.                  *)
LEMMA ClosingFacts ==
    ASSUME TypeOK, BeforeReady, [Next]_vars
    PROVE  /\ runAt = "closed" => runAt' = "closed"
           /\ runAt' = "closed" => runAt = "closed" \/ CloseChannel
  <1>1. ASSUME NEW p \in Positions, Save(p) \/ registerPositionTriggers(p) PROVE UNCHANGED runAt
    BY <1>1, EarlyCallFacts
  <1>2. ASSUME NEW p \in Positions, ensurePairSubscribed(p) PROVE UNCHANGED runAt
    BY <1>2, EnsureFacts
  <1>3. ASSUME NEW p \in Positions, SubscribeDynamic(p) PROVE UNCHANGED runAt
    BY <1>3, DynamicFacts
  <1>4. CASE RunMoves
    <2>1. CloseChannel => runAt # "closed"
      BY DEF CloseChannel
    <2> QED  BY <1>4, <2>1 DEF RunMoves, StartRun, ListActive, BeginMarks, AllSubscribed
  <1>5. CASE EndMarks \/ StartChain
    BY <1>5, EndMarksFacts, StartChainFacts
  <1>6. CASE Cancel \/ UNCHANGED vars
    BY <1>6, CancelFacts, StutterFacts
  <1>7. ASSUME NEW pair \in Pairs, SubscribeInitial(pair) PROVE UNCHANGED runAt
    BY <1>7, InitialFacts
  <1>8. ASSUME NEW g \in Feeders, FeederAction(g) PROVE UNCHANGED runAt
    BY <1>8, FeederFacts
  <1>9. ASSUME NEW w \in Workers, WorkerAction(w) PROVE UNCHANGED runAt
    BY <1>9, WorkerFacts
  <1> QED  BY <1>1, <1>2, <1>3, <1>4, <1>5, <1>6, <1>7, <1>8, <1>9, StepKinds

(* Who starts late is recorded, and who runs after a step ran before it or  *)
(* was just subscribed.                                                     *)
LEMMA LateFacts ==
    ASSUME IInv, [Next]_vars
    PROVE  /\ late \subseteq late'
           /\ \A g \in Feeders : Alive(g)' =>
                Alive(g) \/ (cancelled => g \in late')
  <1>0. TypeOK
    BY DEF IInv
  <1>1. ASSUME UNCHANGED <<late, feeder>>
        PROVE  /\ late \subseteq late'
               /\ \A g \in Feeders : Alive(g)' => Alive(g)
    BY <1>1 DEF Alive
  <1>2. ASSUME NEW h \in Feeders, subscribePair(h)
        PROVE  /\ late \subseteq late'
               /\ \A g \in Feeders : Alive(g)' => Alive(g) \/ (cancelled => g \in late')
    BY <1>0, <1>2 DEF subscribePair, Alive, TypeOK
  <1>3. ASSUME NEW p \in Positions, Save(p) \/ CallStep(p)
        PROVE  UNCHANGED <<late, feeder>> \/ \E h \in Feeders : subscribePair(h)
    BY <1>3, FeedOfOwn DEF CallStep, Save, registerPositionTriggers, ensurePairSubscribed,
                SubscribeDynamic, historyVars, feedVars
  <1>4. CASE StartRun \/ RunStep \/ Cancel
    <2>1. UNCHANGED <<late, feeder>> \/ \E h \in Feeders : subscribePair(h)
      BY <1>4, FeedOfOwn DEF StartRun, RunStep, ListActive, BeginMarks, EndMarks, StartChain,
              SubscribeInitial, AllSubscribed, CloseChannel, Cancel, historyVars, feedVars
    <2> QED  BY <1>1, <1>2, <2>1
  <1>5. ASSUME NEW h \in Feeders, FeederAction(h)
        PROVE  /\ UNCHANGED late
               /\ \A g \in Feeders : Alive(g)' => Alive(g)
    <2>1. ASSUME NEW F \in SUBSET Positions, OnPrice(h, F)
          PROVE  UNCHANGED late /\ \A g \in Feeders : Alive(g)' => Alive(g)
      BY <1>0, <2>1 DEF OnPrice, historyVars, Alive, TypeOK
    <2>2. ASSUME NEW p \in Positions, Dispatch(h, p) PROVE UNCHANGED <<late, feeder>>
      BY <2>2 DEF Dispatch, historyVars
    <2>3. CASE NextUpdate(h)
      BY <1>0, <2>3 DEF NextUpdate, historyVars, Alive, TypeOK
    <2>4. CASE FeederEnds(h)
      BY <1>0, <2>4 DEF FeederEnds, historyVars, Alive, TypeOK
    <2>5. CASE FeedClosed(h)
      BY <1>0, <2>5 DEF FeedClosed, Alive, TypeOK
    <2> QED  BY <1>1, <1>5, <2>1, <2>2, <2>3, <2>4, <2>5 DEF FeederAction, FeederStep
  <1>6. ASSUME NEW w \in Workers, WorkerAction(w) PROVE UNCHANGED <<late, feeder>>
    BY <1>6 DEF WorkerAction, TakeEvent, executeTrigger, WorkerEnds, historyVars, feedVars
  <1>7. CASE UNCHANGED vars
    BY <1>1, <1>7 DEF vars, historyVars, feedVars
  <1>8. \/ StartRun \/ RunStep \/ Cancel
        \/ \E q \in Positions : Save(q) \/ CallStep(q)
        \/ \E g \in Feeders : FeederAction(g)
        \/ \E w \in Workers : WorkerAction(w)
        \/ UNCHANGED vars
    BY DEF Next, FeederAction, WorkerAction
  <1> HIDE DEF FeederAction, WorkerAction
  <1> QED  BY <1>1, <1>2, <1>3, <1>4, <1>5, <1>6, <1>7, <1>8

LEMMA ClosedAfterAllStep ==
    ASSUME IInv, ClosedAfterAll, [Next]_vars
    PROVE  ClosedAfterAll'
  <1>0. TypeOK /\ BeforeReady
    BY DEF IInv
  <1>1. ASSUME NEW w \in Workers, worker'[w] = "ended" PROVE cancelled'
    <2>1. CASE worker[w] = "ended"
      BY <2>1, NeverUndone DEF ClosedAfterAll
    <2>2. CASE worker[w] # "ended"
      <3>1. ASSUME NEW v \in Workers, WorkerAction(v) PROVE cancelled'
        <4>1. CASE TakeEvent(v)
          BY <1>0, <1>1, <2>2, <4>1, PairAssumption, HeadTailProperties DEF TakeEvent, TypeOK
        <4>2. CASE executeTrigger(v)
          BY <1>0, <1>1, <2>2, <4>2 DEF executeTrigger, TypeOK
        <4>3. CASE WorkerEnds(v)
          BY <4>3 DEF WorkerEnds, WhenCancelled
        <4> QED  BY <3>1, <4>1, <4>2, <4>3 DEF WorkerAction
      <3>2. CASE StartChain
        BY <1>1, <3>2 DEF StartChain
      <3>3. UNCHANGED worker \/ StartChain \/ \E v \in Workers : WorkerAction(v)
        <4> HIDE DEF WorkerAction
        <4>1. ASSUME NEW q \in Positions, ensurePairSubscribed(q) PROVE UNCHANGED worker
          BY <1>0, <4>1, EnsureFacts
        <4>2. ASSUME NEW g \in Feeders, FeederAction(g) PROVE UNCHANGED worker
          BY <1>0, <4>2, FeederFacts
        <4>3. ASSUME NEW q \in Positions, SubscribeDynamic(q) PROVE UNCHANGED worker
          BY <1>0, <4>3, DynamicFacts
        <4>4. ASSUME NEW q \in Positions, Save(q) \/ registerPositionTriggers(q)
              PROVE UNCHANGED worker
          BY <1>0, <4>4, EarlyCallFacts
        <4>5. CASE RunMoves \/ EndMarks \/ Cancel
          BY <1>0, <4>5, RunFacts, EndMarksFacts, CancelFacts
        <4>6. ASSUME NEW pair \in Pairs, SubscribeInitial(pair) PROVE UNCHANGED worker
          BY <4>6, InitialFacts
        <4> QED  BY <4>1, <4>2, <4>3, <4>4, <4>5, <4>6, StepKinds, StutterFacts
      <3> QED  BY <1>1, <2>2, <3>1, <3>2, <3>3
    <2> QED  BY <2>1, <2>2
  <1>2. runAt' = "closed" => cancelled'
    <2>1. CASE runAt = "closed"
      BY <2>1, NeverUndone DEF ClosedAfterAll
    <2>2. CASE CloseChannel
      <3>1. PICK w \in Workers : TRUE
        BY PairAssumption
      <3>2. cancelled
        BY <2>2, <3>1 DEF CloseChannel, ClosedAfterAll
      <3> QED  BY <3>2, NeverUndone
    <2> QED  BY <1>0, <2>1, <2>2, ClosingFacts
  <1>3. ASSUME NEW g \in Feeders, runAt' = "closed", Alive(g)' PROVE g \in late'
    <2>1. CASE runAt = "closed"
      BY <1>3, <2>1, LateFacts DEF ClosedAfterAll
    <2>2. CASE CloseChannel
      BY <1>3, <2>2 DEF CloseChannel, FeedersEnded, Alive, feedVars
    <2> QED  BY <1>0, <1>3, <2>1, <2>2, ClosingFacts
  <1> QED  BY <1>1, <1>2, <1>3 DEF ClosedAfterAll

(* The process is killed by a send on the closed channel, or by the read    *)
(* that meets Run's marks; nothing happens after it.                        *)
LEMMA CrashFacts ==
    ASSUME [Next]_vars, crashed'
    PROVE  \/ UNCHANGED vars
           \/ runAt = "marking" /\ UNCHANGED runAt
           \/ \E g \in Feeders : Alive(g) /\ runAt = "closed" /\ UNCHANGED late
  <1>1. ASSUME NEW p \in Positions, Save(p) \/ CallStep(p)
        PROVE  runAt = "marking" /\ UNCHANGED runAt
    BY <1>1 DEF CallStep, Save, registerPositionTriggers, ensurePairSubscribed,
                SubscribeDynamic, NothingToDo, MarkPair, ConcurrentMapRead, runVars
  <1>2. CASE StartRun \/ RunStep \/ Cancel
    BY <1>2 DEF StartRun, RunStep, ListActive, BeginMarks, EndMarks, StartChain,
                SubscribeInitial, AllSubscribed, CloseChannel, Cancel
  <1>3. ASSUME NEW g \in Feeders, FeederAction(g)
        PROVE  Alive(g) /\ runAt = "closed" /\ UNCHANGED late
    BY <1>3 DEF FeederAction, FeederStep, OnPrice, Dispatch, NextUpdate, FeederEnds, FeedClosed,
                Alive, historyVars
  <1>4. ASSUME NEW w \in Workers, WorkerAction(w) PROVE FALSE
    BY <1>4 DEF WorkerAction, TakeEvent, executeTrigger, WorkerEnds
  <1> QED  BY <1>1, <1>2, <1>3, <1>4 DEF Next, FeederAction, WorkerAction

LEMMA CrashInvStep ==
    ASSUME IInv, CrashInv, [Next]_vars
    PROVE  CrashInv'
  <1>1. ClosedAfterAll'
    BY ClosedAfterAllStep DEF CrashInv
  <1>2. ASSUME crashed' PROVE runAt' = "marking" \/ late' # {}
    <2>1. CASE UNCHANGED vars
      BY <1>2, <2>1 DEF vars, runVars, historyVars, CrashInv, CrashOnlyIfLate
    <2>2. CASE runAt = "marking" /\ UNCHANGED runAt
      BY <2>2
    <2>3. ASSUME NEW g \in Feeders, Alive(g), runAt = "closed", UNCHANGED late
          PROVE  late' # {}
      BY <2>3 DEF CrashInv, ClosedAfterAll
    <2> QED  BY <1>2, <2>1, <2>2, <2>3, CrashFacts
  <1> QED  BY <1>1, <1>2 DEF CrashInv, CrashOnlyIfLate

(* A send on the closed channel takes a price goroutine that OpenPosition   *)
(* started after the context had ended: those that Run waits for never      *)
(* panic, for any number of workers and pairs.                              *)
THEOREM CrashTakesALateStart == Spec => []CrashOnlyIfLate
  <1>1. Init => CrashInv
    BY PairAssumption DEF Init, CrashInv, ClosedAfterAll, CrashOnlyIfLate
  <1>2. CrashInv => CrashOnlyIfLate
    BY DEF CrashInv
  <1>3. IInv /\ CrashInv /\ [Next]_vars => CrashInv'
    BY CrashInvStep
  <1> QED  BY <1>1, <1>2, <1>3, InductiveInvariant, PTL DEF Spec
=============================================================================
