-------------------------- MODULE PairSubscription --------------------------
(****************************************************************************)
(* How manager.go gives each token pair of one chain a price goroutine: Run *)
(* for the pairs of the positions it finds in the Store, OpenPosition for a *)
(* pair that has none yet, on any goroutine and at any moment of the life   *)
(* of Run: before it, while it starts, while it serves and stops, and after *)
(* it.  What a worker does with an event is PositionManager's subject; here *)
(* executeTrigger closes the position, or returns and leaves it open.       *)
(*                                                                          *)
(* A position has one level, and a call of OpenPosition of its own.  Prices *)
(* are left out: an update may fire any entries of its pair.                *)
(****************************************************************************)
EXTENDS Naturals, Sequences

CONSTANTS
    Positions,
    Pairs,
    PairOf,     \* position -> its pair
    Workers,    \* execution goroutines
    ChanCap,    \* capacity of execCh
    Nobody

(* The goroutine that subscribePair starts is named after the pair when Run *)
(* calls it, after the position when OpenPosition does.                     *)
ASSUME PairAssumption ==
    /\ PairOf \in [Positions -> Pairs]
    /\ Positions \cap Pairs = {}
    /\ Nobody \notin Positions
    /\ Positions \cap {"none", "idle", "ended"} = {}
    /\ Workers # {}     \* runChain starts four if it is told none
    /\ ChanCap \in Nat \ {0}

Feeders == Positions \cup Pairs
FeedOf(g) == IF g \in Pairs THEN g ELSE PairOf[g]

VARIABLES
    store,      \* open positions in the Store
    engine,     \* registrations of a position's level
    place,      \* per position: where its OpenPosition is
    mu,         \* position whose OpenPosition holds pairSubsMu
    runAt,      \* where Run and its runChain are
    listed,     \* what ListActive returned
    pairSubs,   \* pairs marked in pairSubs[chainID]
    toSubscribe,\* pairs runChain has yet to subscribe
    feeder,     \* per price goroutine: "none", "select", "dispatch", "ended"
    pending,    \* ... and the events it has yet to put into execCh
    execCh,
    worker,     \* per worker: "idle", "ended", or the position it executes
    cancelled,  \* the context of Run has ended
    crashed,    \* the runtime has killed the process
    unfed,      \* history: pairs whose Subscribe failed or whose feed was closed
    early,      \* history: positions that came before execChs was set
    late,       \* history: goroutines that started after the context ended
    dropped     \* history: open positions whose trigger executeTrigger dropped

callVars   == <<place, mu>>
runVars    == <<runAt, listed, toSubscribe>>
feedVars   == <<feeder, pending>>
historyVars == <<unfed, early, late, dropped>>
vars == <<store, engine, callVars, runVars, pairSubs, feedVars, execCh, worker, cancelled,
          crashed, historyVars>>

CallPlace == {"none", "saved", "registered", "subscribe", "done", "restored"}
RunPlace == {"none", "made", "listed", "marking", "marked", "subscribe", "wait", "closed",
             "failed"}

TypeOK ==
    /\ store \subseteq Positions
    /\ engine \in [Positions -> Nat]
    /\ place \in [Positions -> CallPlace]
    /\ mu \in Positions \cup {Nobody}
    /\ runAt \in RunPlace
    /\ listed \subseteq Positions
    /\ pairSubs \subseteq Pairs
    /\ toSubscribe \subseteq Pairs
    /\ feeder \in [Feeders -> {"none", "select", "dispatch", "ended"}]
    /\ pending \in [Feeders -> [Positions -> Nat]]
    /\ execCh \in Seq(Positions)
    /\ worker \in [Workers -> Positions \cup {"none", "idle", "ended"}]
    /\ cancelled \in BOOLEAN /\ crashed \in BOOLEAN
    /\ unfed \subseteq Pairs
    /\ early \subseteq Positions
    /\ late \subseteq Feeders
    /\ dropped \subseteq Positions

(* Some positions are in the Store from an earlier run of the program.      *)
Init ==
    /\ store \in SUBSET Positions
    /\ engine = [p \in Positions |-> 0]
    /\ place = [p \in Positions |-> IF p \in store THEN "restored" ELSE "none"]
    /\ mu = Nobody
    /\ runAt = "none" /\ listed = {} /\ toSubscribe = {}
    /\ pairSubs = {}
    /\ feeder = [g \in Feeders |-> "none"]
    /\ pending = [g \in Feeders |-> [p \in Positions |-> 0]]
    /\ execCh = <<>>
    /\ worker = [w \in Workers |-> "none"]
    /\ cancelled = FALSE /\ crashed = FALSE
    /\ unfed = {} /\ early = {} /\ late = {} /\ dropped = {}

-----------------------------------------------------------------------------
(* OpenPosition.                                                            *)

GoTo(p, there) == place' = [place EXCEPT ![p] = there]

Save(p) ==
    /\ ~crashed
    /\ place[p] = "none"
    /\ store' = store \cup {p}
    /\ GoTo(p, "saved")
    /\ UNCHANGED <<engine, mu, runVars, pairSubs, feedVars, execCh, worker, cancelled,
                   crashed, historyVars>>

registerPositionTriggers(p) ==
    /\ ~crashed
    /\ place[p] = "saved"
    /\ engine' = [engine EXCEPT ![p] = @ + 1]
    /\ GoTo(p, "registered")
    /\ UNCHANGED <<store, mu, runVars, pairSubs, feedVars, execCh, worker, cancelled,
                   crashed, historyVars>>

(* execChs and subWg of the chain are set.                                  *)
ChainReady == runAt \in {"subscribe", "wait", "closed"}

(* The mark that keeps a second OpenPosition from subscribing the pair      *)
(* again.  The mutant sets none.                                            *)
Unmarked(pair) == pairSubs
Marked(pair) == pairSubs \cup {pair}

(* What stays marked when the chain is not ready.  The mutant marks the     *)
(* pair before it looks.                                                    *)
MarkedFirst(pair) == pairSubs \cup {pair}
NotReady(pair) == pairSubs

(* ensurePairSubscribed returns early: before Run was called, for a pair    *)
(* that is marked, or, which leaves the pair without a feed, while the      *)
(* chain is not ready.                                                      *)
NothingToDo(p) ==
    /\ runAt = "none" \/ PairOf[p] \in pairSubs \/ ~ChainReady
    /\ GoTo(p, "done")
    /\ IF runAt = "none" \/ PairOf[p] \in pairSubs
       THEN UNCHANGED <<pairSubs, early>>
       ELSE pairSubs' = NotReady(PairOf[p]) /\ early' = early \cup {p}
    /\ UNCHANGED <<mu, crashed>>

MarkPair(p) ==
    /\ ChainReady /\ PairOf[p] \notin pairSubs
    /\ pairSubs' = Marked(PairOf[p])
    /\ mu' = p
    /\ GoTo(p, "subscribe")
    /\ UNCHANGED <<early, crashed>>

(* Run writes its maps without pairSubsMu: a read that meets the write of   *)
(* pairSubs[chainID] may be found by the runtime, which ends the process.   *)
ConcurrentMapRead ==
    /\ runAt = "marking"
    /\ crashed' = TRUE
    /\ UNCHANGED <<callVars, pairSubs, early>>

ensurePairSubscribed(p) ==
    /\ ~crashed
    /\ place[p] = "registered" /\ mu = Nobody
    /\ NothingToDo(p) \/ MarkPair(p) \/ ConcurrentMapRead
    /\ UNCHANGED <<store, engine, runVars, feedVars, execCh, worker, cancelled, unfed, late,
                   dropped>>

(* subscribePair: a failed Subscribe is reported to the host and leaves the *)
(* mark.                                                                    *)
subscribePair(g) ==
    \/ /\ unfed' = unfed \cup {FeedOf(g)}
       /\ UNCHANGED <<feeder, late>>
    \/ /\ feeder' = [feeder EXCEPT ![g] = "select"]
       /\ late' = IF cancelled THEN late \cup {g} ELSE late
       /\ UNCHANGED unfed

(* PriceFeed.Subscribe answers, and OpenPosition releases pairSubsMu.       *)
SubscribeDynamic(p) ==
    /\ ~crashed
    /\ place[p] = "subscribe"
    /\ subscribePair(p)
    /\ mu' = Nobody
    /\ GoTo(p, "done")
    /\ UNCHANGED <<store, engine, runVars, pairSubs, pending, execCh, worker, cancelled,
                   crashed, early, dropped>>

-----------------------------------------------------------------------------
(* Run and runChain.                                                        *)

StartRun ==
    /\ ~crashed
    /\ runAt = "none" /\ runAt' = "made"
    /\ UNCHANGED <<store, engine, callVars, listed, toSubscribe, pairSubs, feedVars, execCh,
                   worker, cancelled, crashed, historyVars>>

(* ListActive, and the registration of what it returns: a position whose    *)
(* OpenPosition registers it too is registered twice.  If it fails, so does *)
(* Run.                                                                     *)
ListActive ==
    /\ ~crashed
    /\ runAt = "made"
    /\ \/ /\ runAt' = "listed" /\ listed' = store
          /\ engine' = [p \in Positions |-> IF p \in store THEN engine[p] + 1 ELSE engine[p]]
       \/ runAt' = "failed" /\ UNCHANGED <<listed, engine>>
    /\ UNCHANGED <<store, callVars, toSubscribe, pairSubs, feedVars, execCh, worker,
                   cancelled, crashed, historyVars>>

uniquePairs(S) == {PairOf[p] : p \in S}

(* The marks of Run.  The mutant sets none.                                 *)
NoMarks == {}
RunMarks == uniquePairs(listed)

(* m.pairSubs[chainID] = make(...), and the marks.                          *)
BeginMarks ==
    /\ ~crashed
    /\ runAt = "listed" /\ runAt' = "marking"
    /\ UNCHANGED <<store, engine, callVars, listed, toSubscribe, pairSubs, feedVars, execCh,
                   worker, cancelled, crashed, historyVars>>

EndMarks ==
    /\ ~crashed
    /\ runAt = "marking" /\ runAt' = "marked"
    /\ pairSubs' = RunMarks
    /\ UNCHANGED <<store, engine, callVars, listed, toSubscribe, feedVars, execCh, worker,
                   cancelled, crashed, historyVars>>

(* runChain sets execChs and subWg under pairSubsMu, and starts the workers.*)
StartChain ==
    /\ ~crashed
    /\ runAt = "marked" /\ mu = Nobody
    /\ runAt' = "subscribe"
    /\ toSubscribe' = uniquePairs(listed)
    /\ worker' = [w \in Workers |-> "idle"]
    /\ UNCHANGED <<store, engine, callVars, listed, pairSubs, feedVars, execCh, cancelled,
                   crashed, historyVars>>

SubscribeInitial(pair) ==
    /\ ~crashed
    /\ runAt = "subscribe" /\ pair \in toSubscribe
    /\ subscribePair(pair)
    /\ toSubscribe' = toSubscribe \ {pair}
    /\ UNCHANGED <<store, engine, callVars, runAt, listed, pairSubs, pending, execCh, worker,
                   cancelled, crashed, early, dropped>>

AllSubscribed ==
    /\ ~crashed
    /\ runAt = "subscribe" /\ toSubscribe = {}
    /\ runAt' = "wait"
    /\ UNCHANGED <<store, engine, callVars, listed, toSubscribe, pairSubs, feedVars, execCh,
                   worker, cancelled, crashed, historyVars>>

Alive(g) == feeder[g] \in {"select", "dispatch"}

(* What close(execCh) waits for after the workers.  The mutant forgets      *)
(* subWg.Wait.                                                              *)
NoWait == TRUE
FeedersEnded == \A g \in Feeders : ~Alive(g)

(* wg.Wait, subWg.Wait, close(execCh).                                      *)
CloseChannel ==
    /\ ~crashed
    /\ runAt = "wait"
    /\ \A w \in Workers : worker[w] = "ended"
    /\ FeedersEnded
    /\ runAt' = "closed"
    /\ UNCHANGED <<store, engine, callVars, listed, toSubscribe, pairSubs, feedVars, execCh,
                   worker, cancelled, crashed, historyVars>>

(* The host ends the context it gave Run.                                   *)
Cancel ==
    /\ ~crashed
    /\ runAt # "none" /\ ~cancelled
    /\ cancelled' = TRUE
    /\ UNCHANGED <<store, engine, callVars, runVars, pairSubs, feedVars, execCh, worker,
                   crashed, historyVars>>

-----------------------------------------------------------------------------
(* The price goroutines and the workers.                                    *)

(* An update comes, and OnPrice removes the entries it fires.  A select     *)
(* with the context ended may still choose it.                              *)
OnPrice(g, F) ==
    /\ ~crashed
    /\ feeder[g] = "select"
    /\ F # {} /\ \A p \in F : PairOf[p] = FeedOf(g) /\ engine[p] > 0
    /\ pending' = [pending EXCEPT ![g] =
                     [p \in Positions |-> IF p \in F THEN engine[p] ELSE 0]]
    /\ engine' = [p \in Positions |-> IF p \in F THEN 0 ELSE engine[p]]
    /\ feeder' = [feeder EXCEPT ![g] = "dispatch"]
    /\ UNCHANGED <<store, callVars, runVars, pairSubs, execCh, worker, cancelled, crashed,
                   historyVars>>

Dispatched(g) == \A p \in Positions : pending[g][p] = 0

(* The events of this update.                                               *)
HasEvent(g, p) == pending[g][p] > 0

(* handlePriceUpdate sends the next event; a send on the closed channel     *)
(* panics.                                                                  *)
Dispatch(g, p) ==
    /\ ~crashed
    /\ feeder[g] = "dispatch" /\ HasEvent(g, p)
    /\ \/ /\ runAt = "closed"
          /\ crashed' = TRUE
          /\ UNCHANGED <<pending, execCh>>
       \/ /\ runAt # "closed" /\ Len(execCh) < ChanCap
          /\ execCh' = Append(execCh, p)
          /\ pending' = [pending EXCEPT ![g][p] = @ - 1]
          /\ UNCHANGED crashed
    /\ UNCHANGED <<store, engine, callVars, runVars, pairSubs, feeder, worker, cancelled,
                   historyVars>>

(* It returns: nothing is left to send, or the context has ended and the    *)
(* events are dropped.  The mutant drops them when the channel is full.     *)
GivesUp(g) == Dispatched(g) \/ cancelled \/ Len(execCh) = ChanCap
Returns(g) == Dispatched(g) \/ cancelled

NextUpdate(g) ==
    /\ ~crashed
    /\ feeder[g] = "dispatch" /\ Returns(g)
    /\ feeder' = [feeder EXCEPT ![g] = "select"]
    /\ pending' = [pending EXCEPT ![g] = [p \in Positions |-> 0]]
    /\ UNCHANGED <<store, engine, callVars, runVars, pairSubs, execCh, worker, cancelled,
                   crashed, historyVars>>

(* Either select, of handlePriceUpdate and then of the loop, may find the   *)
(* context ended.                                                           *)
FeederEnds(g) ==
    /\ ~crashed
    /\ Alive(g) /\ cancelled
    /\ feeder' = [feeder EXCEPT ![g] = "ended"]
    /\ pending' = [pending EXCEPT ![g] = [p \in Positions |-> 0]]
    /\ UNCHANGED <<store, engine, callVars, runVars, pairSubs, execCh, worker, cancelled,
                   crashed, historyVars>>

(* The host closes the feed.                                                *)
FeedClosed(g) ==
    /\ ~crashed
    /\ feeder[g] = "select"
    /\ feeder' = [feeder EXCEPT ![g] = "ended"]
    /\ unfed' = unfed \cup {FeedOf(g)}
    /\ UNCHANGED <<store, engine, callVars, runVars, pairSubs, pending, execCh, worker,
                   cancelled, crashed, early, late, dropped>>

TakeEvent(w) ==
    /\ ~crashed
    /\ worker[w] = "idle" /\ execCh # <<>>
    /\ worker' = [worker EXCEPT ![w] = Head(execCh)]
    /\ execCh' = Tail(execCh)
    /\ UNCHANGED <<store, engine, callVars, runVars, pairSubs, feedVars, cancelled, crashed,
                   historyVars>>

(* executeTrigger: the position is closed already, or now; the swap fails   *)
(* and the trigger is put back; or the record cannot be read, and the       *)
(* trigger is gone.                                                         *)
executeTrigger(w) ==
    /\ ~crashed
    /\ worker[w] \in Positions
    /\ LET p == worker[w] IN
       \/ store' = store \ {p} /\ UNCHANGED <<engine, dropped>>
       \/ /\ p \in store
          /\ \/ engine' = [engine EXCEPT ![p] = @ + 1] /\ UNCHANGED dropped
             \/ dropped' = dropped \cup {p} /\ UNCHANGED engine
          /\ UNCHANGED store
    /\ worker' = [worker EXCEPT ![w] = "idle"]
    /\ UNCHANGED <<callVars, runVars, pairSubs, feedVars, execCh, cancelled, crashed, unfed,
                   early, late>>

(* What a worker returns for.  The mutant waits for the channel to close.   *)
WhenClosed == runAt = "closed"
WhenCancelled == cancelled

WorkerEnds(w) ==
    /\ ~crashed
    /\ worker[w] = "idle" /\ WhenCancelled
    /\ worker' = [worker EXCEPT ![w] = "ended"]
    /\ UNCHANGED <<store, engine, callVars, runVars, pairSubs, feedVars, execCh, cancelled,
                   crashed, historyVars>>

RunStep ==
    \/ ListActive \/ BeginMarks \/ EndMarks \/ StartChain
    \/ \E pair \in Pairs : SubscribeInitial(pair)
    \/ AllSubscribed \/ CloseChannel

CallStep(p) == registerPositionTriggers(p) \/ ensurePairSubscribed(p) \/ SubscribeDynamic(p)

FeederStep(g) ==
    \/ \E p \in Positions : Dispatch(g, p)
    \/ NextUpdate(g)

Next ==
    \/ StartRun \/ RunStep \/ Cancel
    \/ \E p \in Positions : Save(p) \/ CallStep(p)
    \/ \E g \in Feeders :
         \/ \E F \in SUBSET Positions : OnPrice(g, F)
         \/ FeederStep(g) \/ FeederEnds(g) \/ FeedClosed(g)
    \/ \E w \in Workers : TakeEvent(w) \/ executeTrigger(w) \/ WorkerEnds(w)

Spec == Init /\ [][Next]_vars

(* Every goroutine that can run does, and select, which chooses at random,  *)
(* finds in the end that the context has ended.                             *)
Fairness ==
    /\ WF_vars(RunStep)
    /\ \A p \in Positions : WF_vars(CallStep(p))
    /\ \A g \in Feeders : WF_vars(FeederStep(g)) /\ WF_vars(FeederEnds(g))
    /\ \A w \in Workers : WF_vars(TakeEvent(w) \/ executeTrigger(w) \/ WorkerEnds(w))

FairSpec == Spec /\ Fairness

-----------------------------------------------------------------------------
(* However OpenPosition and Run overlap, a pair never has two price         *)
(* goroutines, which would fire its triggers from two channels.             *)
OneFeeder ==
    \A g, h \in Feeders : Alive(g) /\ Alive(h) /\ FeedOf(g) = FeedOf(h) => g = h

(* While Run serves, the pair of a position whose OpenPosition has returned *)
(* has its price goroutine, but for three reasons: its Subscribe failed or  *)
(* its feed was closed, which nothing repairs; another OpenPosition is just *)
(* subscribing it; or the position came after ListActive and before the     *)
(* chain was ready.                                                         *)
OpenPairsFed ==
    runAt = "wait" /\ ~cancelled =>
        \A p \in Positions : place[p] \in {"done", "restored"} =>
            \/ \E g \in Feeders : Alive(g) /\ FeedOf(g) = PairOf[p]
            \/ PairOf[p] \in unfed
            \/ \E q \in Positions : place[q] = "subscribe" /\ PairOf[q] = PairOf[p]
            \/ p \in early \ listed

(* The trigger of an open position stays in the engine or is on its way to  *)
(* a worker, whatever the channel and the pool do, unless executeTrigger    *)
(* could not read the record or the context ends.                           *)
Registered(p) ==
    p \in listed \/ place[p] \in {"registered", "subscribe", "done"}

OnItsWay(p) ==
    \/ engine[p] > 0
    \/ \E g \in Feeders : pending[g][p] > 0
    \/ \E i \in DOMAIN execCh : execCh[i] = p
    \/ \E w \in Workers : worker[w] = p

NoTriggerLost ==
    \A p \in store : Registered(p) => OnItsWay(p) \/ p \in dropped \/ cancelled

(* The process is killed only by a price goroutine that OpenPosition        *)
(* started after the context ended, or by the read of pairSubs that meets   *)
(* Run's write of it.                                                       *)
CrashOnlyIfLate ==
    crashed => runAt = "marking" \/ late # {}

(* When the context ends Run returns, with its workers, price goroutines    *)
(* and calls of OpenPosition in any state.                                  *)
RunReturns == cancelled ~> runAt \in {"closed", "failed"} \/ crashed

-----------------------------------------------------------------------------
(* The inductive invariant behind OneFeeder and OpenPairsFed.               *)

NeverFed(pair) == \A g \in Feeders : FeedOf(g) = pair => feeder[g] = "none"
BeingSubscribed(pair) == \E q \in Positions : place[q] = "subscribe" /\ PairOf[q] = pair
HasFeeder(pair) == \E g \in Feeders : Alive(g) /\ FeedOf(g) = pair

(* Until the chain is ready nothing is subscribed and no position closes.   *)
BeforeReady ==
    ~ChainReady =>
        /\ toSubscribe = {}
        /\ \A g \in Feeders : feeder[g] = "none"
        /\ \A w \in Workers : worker[w] = "none"
        /\ \A p \in Positions : /\ place[p] # "subscribe"
                                /\ place[p] # "none" => p \in store

(* A pair is marked before it is subscribed, and by one goroutine only.     *)
MarkInv ==
    /\ runAt \in {"none", "made", "listed", "marking", "failed"} => pairSubs = {}
    /\ runAt = "marked" => pairSubs = uniquePairs(listed)
    /\ ChainReady => uniquePairs(listed) \subseteq pairSubs
    /\ runAt # "subscribe" => toSubscribe = {}
    /\ \A pair \in toSubscribe : pair \in pairSubs /\ NeverFed(pair)
    /\ \A p \in Positions : place[p] = "subscribe" =>
         mu = p /\ PairOf[p] \in pairSubs \ toSubscribe /\ NeverFed(PairOf[p])
    /\ \A g \in Feeders : feeder[g] # "none" => FeedOf(g) \in pairSubs

OneGoroutine ==
    \A g, h \in Feeders :
        feeder[g] # "none" /\ feeder[h] # "none" /\ FeedOf(g) = FeedOf(h) => g = h

(* A marked pair has its goroutine, or will have it, or lost it.            *)
MarkedIsFed ==
    ChainReady /\ ~cancelled =>
        \A pair \in pairSubs :
            pair \in toSubscribe \cup unfed \/ BeingSubscribed(pair) \/ HasFeeder(pair)

(* A position whose OpenPosition returned is one that Run finds, or found,  *)
(* or its pair is marked, or it came too early.                             *)
OpenIsKnown ==
    \A p \in Positions : place[p] \in {"done", "restored"} =>
        \/ runAt \in {"none", "made"} /\ p \in store
        \/ runAt \notin {"none", "made"} /\ p \in listed
        \/ runAt = "failed"
        \/ p \in early
        \/ PairOf[p] \in pairSubs

IInv ==
    TypeOK /\ BeforeReady /\ MarkInv /\ OneGoroutine /\ MarkedIsFed /\ OpenIsKnown

-----------------------------------------------------------------------------
(* What NoTriggerLost and CrashOnlyIfLate need beside it.                   *)

(* A position is known to nobody before its OpenPosition saves it, and a    *)
(* price goroutine that selects has sent all its events: it may forget      *)
(* them, and the next update overwrites none.                               *)
NothingForgotten ==
    /\ \A p \in Positions : place[p] = "none" => p \notin store \cup listed
    /\ \A g \in Feeders : feeder[g] # "dispatch" => Dispatched(g)

(* Workers end with the context only, and the channel is closed after them: *)
(* a price goroutine that runs then was started too late.                   *)
ClosedAfterAll ==
    /\ \A w \in Workers : worker[w] = "ended" => cancelled
    /\ runAt = "closed" => cancelled /\ \A g \in Feeders : Alive(g) => g \in late

TriggerInv == IInv /\ NothingForgotten /\ NoTriggerLost
CrashInv == ClosedAfterAll /\ CrashOnlyIfLate
=============================================================================
