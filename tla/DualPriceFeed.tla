---------------------------- MODULE DualPriceFeed ----------------------------
(****************************************************************************)
(* The price feed of pricefeed_dual.go for one token pair.  While there are *)
(* subscribers three goroutines share one cached price: "swaps" follows the *)
(* pool's Swap events, and polls slot0 while the event subscription is      *)
(* down; "watchdog" reads slot0 when the cached price is old, and takes the *)
(* price of OKX when that read fails; a third one compares the cached price *)
(* with OKX.  The first two publish, each as the loop of UniswapV3PriceFeed *)
(* does: cache and copy the subscribers under mu, then send without it.     *)
(*                                                                          *)
(* A step is a critical section of mu, one non-blocking send, or one call   *)
(* of the chain.  A generation is what one first Subscribe started; a call  *)
(* that its context's end overtakes fails.                                  *)
(****************************************************************************)
EXTENDS Integers, Sequences

CONSTANTS
    Subscribers,  \* calls of Subscribe; each makes a channel of its own
    Prices,       \* prices the pool may have
    FirstPrice,   \* the one it has in the beginning
    OKXPrices,    \* prices OKX may quote; 0 stands for one that is not positive
    MaxDeviation, \* basis points up to which OKX confirms a price
    MaxGens,      \* bound: generations
    MaxMoves,     \* bound: moves of the pool's price
    MaxEvents     \* bound: Subscribes, moves and failures together; a
                  \* generation counts for four, a failing
                  \* chain for three, a failing subscription for two

ASSUME DualFeedAssumption ==
    /\ Prices \subseteq Nat \ {0} /\ FirstPrice \in Prices
    /\ OKXPrices \subseteq Nat
    /\ MaxDeviation \in Nat /\ MaxDeviation < 65536   \* a uint16
    /\ MaxGens \in Nat /\ MaxMoves \in Nat /\ MaxEvents \in Nat

Gens    == 1..MaxGens
NoGen   == 0
Threads == Gens \X {"swaps", "watchdog"}
Swaps(g)    == <<g, "swaps">>
Watchdog(g) == <<g, "watchdog">>

(* A price, where it is from, and how many moves the pool had made then.    *)
Quote   == [price : (Prices \cup OKXPrices) \ {0}, move : 0..MaxMoves, from : {"pool", "okx"}]
NoQuote == [price |-> 0, move |-> 0, from |-> "pool"]
NoThread == <<NoGen, "swaps">>

VARIABLES
    pool,        \* the pool's price
    chainUp,     \* reads of slot0 succeed
    events,      \* Subscribes, moves and failures so far
    cached,      \* prices[pair]: price, and onChain, which is the same
    okx,         \* ... and the price OKX quoted last, or 0
    quoted,      \* history: the last of them that was positive
    confirmed,   \* ... whose source is "onchain+okx"
    fresh,       \* the timestamp is at most StaleThreshold old
    subs,        \* subs[pair]
    active,      \* the generation whose cancel func active[pair] is, or NoGen
    made,        \* generations so far
    cancelled,   \* generations whose context is cancelled
    at, phase, val, targets,
                 \* per thread: place; "idle", "read" or "send" of a price; that
                 \* price; the subscribers of its copy not yet sent to
    logs,        \* per generation: Swap events that wait in logCh
    live,        \* generations whose event subscription has not failed
    chan,        \* per subscriber: "none", "open" or "closed"
    last,        \* per subscriber: the price last put into its channel, or 0
    panicked,    \* a send on a closed channel
    by,          \* history: the thread that published the cached price
    missed,      \* history: subscribers that the cached price was not sent to
    overtaken    \* history: ... or that were sent an older price after it

poolVars  == <<pool, chainUp, events>>
priceVars == <<cached, okx, quoted, confirmed, fresh, by>>
genVars   == <<subs, active, made, cancelled>>
pubVars   == <<phase, val, targets>>
wsVars    == <<logs, live>>
chanVars  == <<chan, last, missed, overtaken>>
vars == <<poolVars, priceVars, genVars, at, pubVars, wsVars, chanVars, panicked>>

TypeOK ==
    /\ pool \in Quote /\ pool.from = "pool" /\ pool.price \in Prices
    /\ chainUp \in BOOLEAN /\ events \in 0..MaxEvents
    /\ cached \in Quote \cup {NoQuote}
    /\ okx \in OKXPrices \cup {0} /\ quoted \in OKXPrices \cup {0}
    /\ confirmed \in BOOLEAN /\ fresh \in BOOLEAN
    /\ subs \subseteq Subscribers
    /\ active \in Gens \cup {NoGen} /\ made \in 0..MaxGens
    /\ cancelled \subseteq Gens
    /\ at \in [Threads -> {"none", "dial", "fallback", "polled", "listen", "select",
                         "ending", "ended"}]
    /\ phase \in [Threads -> {"idle", "read", "send"}]
    /\ val \in [Threads -> Quote \cup {NoQuote}]
    /\ \A t \in Threads : phase[t] # "idle" => val[t] \in Quote
    /\ targets \in [Threads -> SUBSET Subscribers]
    /\ logs \in [Gens -> Seq(Quote)]
    /\ live \subseteq Gens
    /\ chan \in [Subscribers -> {"none", "open", "closed"}]
    /\ last \in [Subscribers -> Prices \cup OKXPrices \cup {0}]
    /\ panicked \in BOOLEAN
    /\ by \in Threads \cup {NoThread}
    /\ missed \subseteq Subscribers /\ overtaken \subseteq Subscribers

Init ==
    /\ pool = [price |-> FirstPrice, move |-> 0, from |-> "pool"]
    /\ chainUp = TRUE /\ events = 0
    /\ cached = NoQuote /\ okx = 0 /\ quoted = 0 /\ confirmed = FALSE /\ fresh = FALSE /\ by = NoThread
    /\ subs = {} /\ active = NoGen /\ made = 0 /\ cancelled = {}
    /\ at = [t \in Threads |-> "none"]
    /\ phase = [t \in Threads |-> "idle"]
    /\ val = [t \in Threads |-> NoQuote]
    /\ targets = [t \in Threads |-> {}]
    /\ logs = [g \in Gens |-> <<>>] /\ live = {}
    /\ chan = [s \in Subscribers |-> "none"]
    /\ last = [s \in Subscribers |-> 0]
    /\ panicked = FALSE
    /\ missed = {} /\ overtaken = {}

-----------------------------------------------------------------------------
(* Subscribers.                                                             *)

Running(t) == at[t] \notin {"none", "ended"}

(* cancel() and delete(f.active, pair).  The mutant forgets cancel().       *)
ForgetGen == active' = NoGen /\ UNCHANGED cancelled
CancelGen == active' = NoGen /\ cancelled' = cancelled \cup ({active} \ {NoGen})

Happens(n) == events + n <= MaxEvents /\ events' = events + n

(* Subscribe reads slot0 with mu held; the price is cached and not sent.    *)
Subscribe(s) ==
    /\ ~panicked /\ chan[s] = "none"
    /\ chan' = [chan EXCEPT ![s] = "open"]
    /\ subs' = subs \cup {s}
    /\ IF active # NoGen
       THEN Happens(1) /\ UNCHANGED <<active, made, at, priceVars>>
       ELSE /\ made < MaxGens /\ Happens(4)
            /\ made' = made + 1 /\ active' = made'
            /\ at' = [at EXCEPT ![Swaps(made')] = "dial", ![Watchdog(made')] = "select"]
            /\ \/ /\ chainUp
                  /\ cached' = pool /\ by' = NoThread
                  /\ okx' = 0 /\ quoted' = 0 /\ confirmed' = FALSE /\ fresh' = TRUE
               \/ ~chainUp /\ UNCHANGED priceVars
    /\ missed' = IF cached' = NoQuote THEN missed ELSE missed \cup {s}
    /\ UNCHANGED <<pool, chainUp, cancelled, pubVars, wsVars, last, overtaken, panicked>>

(* The subscriber's context ends, and the goroutine that waits for it       *)
(* removes the channel; after Close it finds nothing to do.  What is left   *)
(* in a closed channel concerns nobody.                                     *)
removeSub(s) ==
    /\ ~panicked
    /\ chan[s] = "open"
    /\ subs' = subs \ {s}
    /\ chan' = [chan EXCEPT ![s] = "closed"] /\ last' = [last EXCEPT ![s] = 0]
    /\ missed' = missed \ {s} /\ overtaken' = overtaken \ {s}
    /\ IF subs' = {} THEN CancelGen ELSE UNCHANGED <<active, cancelled>>
    /\ UNCHANGED <<poolVars, priceVars, made, at, pubVars, wsVars, panicked>>

(* Close; wg.Wait returns when no generation runs.                          *)
Close ==
    /\ ~panicked
    /\ subs # {}
    /\ CancelGen
    /\ chan' = [s \in Subscribers |-> IF s \in subs THEN "closed" ELSE chan[s]]
    /\ subs' = {} /\ missed' = {} /\ overtaken' = {}
    /\ last' = [s \in Subscribers |-> 0]
    /\ UNCHANGED <<poolVars, priceVars, made, at, pubVars, wsVars, panicked>>

-----------------------------------------------------------------------------
(* publishPrice, in the thread that calls it.                               *)

HasRead(t, quote) ==
    /\ phase' = [phase EXCEPT ![t] = "read"]
    /\ val' = [val EXCEPT ![t] = quote]
    /\ UNCHANGED targets

Forget(t) ==
    /\ phase' = [phase EXCEPT ![t] = "idle"]
    /\ val' = [val EXCEPT ![t] = NoQuote]

(* Does a newly published price say "onchain+okx"?  The mutant keeps what   *)
(* the last one said.                                                       *)
KeepSource == confirmed
NewSource == FALSE

(* The copy of the subscriber slice.  The mutant skips those that have not  *)
(* received a price yet.                                                    *)
OldSubs == {s \in subs : last[s] # 0}
CopySubs == subs

(* Under mu: skip an unchanged price, or cache it and copy the subscribers. *)
Cache(t, quote) ==
    IF cached.price = quote.price
    THEN Forget(t) /\ UNCHANGED <<priceVars, targets>>
    ELSE /\ phase' = [phase EXCEPT ![t] = "send"]
         /\ val' = [val EXCEPT ![t] = quote]
         /\ cached' = quote /\ by' = t
         /\ confirmed' = NewSource /\ fresh' = TRUE
         /\ targets' = [targets EXCEPT ![t] = CopySubs]
         /\ UNCHANGED <<okx, quoted>>

Publish(t) ==
    /\ ~panicked
    /\ phase[t] = "read"
    /\ Cache(t, val[t])
    /\ UNCHANGED <<poolVars, genVars, at, wsVars, chanVars, panicked>>

(* The sends, each to a channel of the copy: a full buffer drops the price, *)
(* a channel closed since panics.  Whether a buffer is full is up to the    *)
(* subscriber.  As no property is about two subscribers, one step makes     *)
(* them all.                                                                *)
Send(t) ==
    /\ ~panicked
    /\ phase[t] = "send"
    /\ \/ /\ \E s \in targets[t] : chan[s] = "closed"
          /\ panicked' = TRUE
          /\ UNCHANGED <<pubVars, last, missed, overtaken>>
       \/ /\ \A s \in targets[t] : chan[s] = "open"
          /\ Forget(t) /\ targets' = [targets EXCEPT ![t] = {}]
          /\ \E full \in SUBSET targets[t] :
               LET sent == targets[t] \ full
               IN  /\ last' = [s \in Subscribers |-> IF s \in sent THEN val[t].price
                                                                  ELSE last[s]]
                   /\ IF t = by
                      THEN missed' = (missed \ sent) \cup full /\ overtaken' = overtaken \ sent
                      ELSE missed' = missed \ sent /\ overtaken' = overtaken \cup sent
          /\ UNCHANGED panicked
    /\ UNCHANGED <<poolVars, priceVars, genVars, at, wsVars, chan>>

-----------------------------------------------------------------------------
(* runSwapListener.                                                         *)

Go(t, place) == at' = [at EXCEPT ![t] = place]

(* A failed or ended subscription: return if cancelled, else poll a while.  *)
Retreat(g) == Go(Swaps(g), IF g \in cancelled THEN "ended" ELSE "fallback")

(* SubscribeFilterLogs, with a new logCh, may fail whether or not slot0 can *)
(* be read.  The mutant uses the old one.                                   *)
OldLogs(g) == logs
NewLogs(g) == [logs EXCEPT ![g] = <<>>]

Dial(g) ==
    /\ ~panicked
    /\ at[Swaps(g)] \in {"dial", "fallback", "polled"} /\ phase[Swaps(g)] = "idle"
    /\ \/ /\ g \notin cancelled
          /\ Go(Swaps(g), "listen")
          /\ logs' = NewLogs(g) /\ live' = live \cup {g}
          /\ UNCHANGED events
       \/ /\ IF chainUp /\ g \notin cancelled THEN Happens(2) ELSE UNCHANGED events
          /\ Retreat(g)
          /\ UNCHANGED wsVars
    /\ UNCHANGED <<pool, chainUp, priceVars, genVars, pubVars, chanVars, panicked>>

Listening(g) == ~panicked /\ at[Swaps(g)] = "listen" /\ phase[Swaps(g)] = "idle"

(* The listener takes a log and publishes its price.                        *)
TakeLog(g) ==
    /\ Listening(g) /\ logs[g] # <<>>
    /\ logs' = [logs EXCEPT ![g] = Tail(@)]
    /\ Cache(Swaps(g), Head(logs[g]))
    /\ UNCHANGED <<poolVars, genVars, at, live, chanVars, panicked>>

(* sub.Err(): select may prefer it to logs that wait, which are then lost.  *)
SubscriptionFails(g) ==
    /\ Listening(g) /\ g \notin live
    /\ Retreat(g)
    /\ UNCHANGED <<poolVars, priceVars, genVars, pubVars, wsVars, chanVars, panicked>>

ListenerEnds(g) ==
    /\ Listening(g) /\ g \in cancelled
    /\ Go(Swaps(g), "ended") /\ live' = live \ {g}
    /\ UNCHANGED <<poolVars, priceVars, genVars, pubVars, logs, chanVars, panicked>>

(* pollFallback: slot0 every two seconds, for five seconds, so twice at     *)
(* most; then Dial.                                                         *)
PollFallback(g) ==
    /\ ~panicked
    /\ at[Swaps(g)] \in {"fallback", "polled"} /\ phase[Swaps(g)] = "idle"
    /\ chainUp /\ g \notin cancelled
    /\ Go(Swaps(g), IF at[Swaps(g)] = "fallback" THEN "polled" ELSE "dial")
    /\ HasRead(Swaps(g), pool)
    /\ UNCHANGED <<poolVars, priceVars, genVars, wsVars, chanVars, panicked>>

-----------------------------------------------------------------------------
(* runStaleWatchdog.                                                        *)

(* readSlot0 of the watchdog fails.                                         *)
ReadFails(g) == ~chainUp \/ g \in cancelled

(* okxPrice != nil and positive.                                            *)
HasOKX == okx # 0

(* The ticker fires, and the timestamp is old.  A cancelled watchdog may    *)
(* take one tick that has waited for it, and none after that.               *)
ReadIfStale(g) ==
    /\ ~panicked
    /\ at[Watchdog(g)] = "select" /\ phase[Watchdog(g)] = "idle" /\ ~fresh
    /\ IF g \in cancelled THEN Go(Watchdog(g), "ending") ELSE UNCHANGED at
    /\ \/ chainUp /\ g \notin cancelled /\ HasRead(Watchdog(g), pool)
       \/ /\ ReadFails(g) /\ HasOKX
          /\ HasRead(Watchdog(g), [price |-> okx, move |-> pool.move, from |-> "okx"])
    /\ UNCHANGED <<poolVars, priceVars, genVars, wsVars, chanVars, panicked>>

WatchdogEnds(g) ==
    /\ ~panicked
    /\ at[Watchdog(g)] \in {"select", "ending"} /\ phase[Watchdog(g)] = "idle"
    /\ g \in cancelled
    /\ Go(Watchdog(g), "ended")
    /\ UNCHANGED <<poolVars, priceVars, genVars, pubVars, wsVars, chanVars, panicked>>

-----------------------------------------------------------------------------
(* runOKXPoller of the active generation.  A cancelled one ends, and what   *)
(* it fetched before that its successor may fetch too.                      *)

Distance(a, b) == IF a > b THEN a - b ELSE b - a

(* computeDeviationBps: rounded, and cut to the 16 bits of its result.      *)
TrueDeviation(a, b) == (20000 * Distance(a, b) + a) \div (2 * a)
computeDeviationBps(a, b) == TrueDeviation(a, b) % 65536

(* The poller leaves the timestamp alone.  The mutant sets it.              *)
Touch == fresh' = TRUE
Untouched == UNCHANGED fresh

(* A price that is not positive is stored, and compared with nothing.       *)
OKXPoll(price) ==
    /\ ~panicked
    /\ active # NoGen
    /\ okx' = price
    /\ quoted' = IF price > 0 THEN price ELSE quoted
    /\ confirmed' = IF cached # NoQuote /\ price > 0
                    THEN computeDeviationBps(cached.price, price) <= MaxDeviation
                    ELSE confirmed
    /\ Untouched
    /\ UNCHANGED <<poolVars, cached, by, genVars, at, pubVars, wsVars, chanVars, panicked>>

-----------------------------------------------------------------------------
(* The environment.                                                         *)

(* A swap and its log, or a reorganization that undoes one: its log says    *)
(* Removed, the listener skips it, and none is put into logs.               *)
PoolMoves(price, removed) ==
    /\ ~panicked /\ Happens(1)
    /\ pool.move < MaxMoves /\ price # pool.price
    /\ pool' = [price |-> price, move |-> pool.move + 1, from |-> "pool"]
    /\ logs' = [g \in Gens |-> IF g \in live /\ ~removed THEN Append(logs[g], pool')
                                                        ELSE logs[g]]
    /\ UNCHANGED <<chainUp, priceVars, genVars, at, pubVars, live, chanVars, panicked>>

(* Reads of slot0 begin to fail, and the subscriptions with them or not.    *)
ChainFails ==
    /\ ~panicked /\ Happens(3)
    /\ chainUp /\ chainUp' = FALSE
    /\ live' \in {live, {}}
    /\ UNCHANGED <<pool, priceVars, genVars, at, pubVars, logs, chanVars, panicked>>

ChainRecovers ==
    /\ ~panicked
    /\ ~chainUp /\ chainUp' = TRUE
    /\ UNCHANGED <<pool, events, priceVars, genVars, at, pubVars, wsVars, chanVars, panicked>>

SubscriptionDrops(g) ==
    /\ ~panicked /\ Happens(2)
    /\ g \in live /\ live' = live \ {g}
    /\ UNCHANGED <<pool, chainUp, priceVars, genVars, at, pubVars, logs, chanVars, panicked>>

(* StaleThreshold passes since the timestamp.                               *)
Age ==
    /\ ~panicked
    /\ fresh /\ fresh' = FALSE
    /\ UNCHANGED <<poolVars, cached, okx, quoted, confirmed, by, genVars, at, pubVars, wsVars,
                   chanVars, panicked>>

Environment ==
    \/ \E price \in Prices, removed \in BOOLEAN : PoolMoves(price, removed)
    \/ ChainFails \/ ChainRecovers \/ Age
    \/ \E g \in Gens : SubscriptionDrops(g)

Next ==
    \/ \E s \in Subscribers : Subscribe(s) \/ removeSub(s)
    \/ Close
    \/ \E g \in Gens :
         \/ Dial(g) \/ TakeLog(g) \/ SubscriptionFails(g) \/ ListenerEnds(g)
         \/ PollFallback(g)
         \/ ReadIfStale(g) \/ WatchdogEnds(g)
    \/ \E t \in Threads :
         Publish(t) \/ Send(t)
    \/ \E price \in OKXPrices : OKXPoll(price)
    \/ Environment

Spec == Init /\ [][Next]_vars

(* The goroutines run and time passes.  Nothing makes the pool move, the    *)
(* chain fail or recover, OKX answer or a subscriber receive.               *)
Proceed(g) ==
    \/ Dial(g) \/ TakeLog(g) \/ SubscriptionFails(g) \/ ListenerEnds(g)
    \/ Publish(Swaps(g)) \/ Send(Swaps(g))

Watch(g) == ReadIfStale(g) \/ WatchdogEnds(g) \/ Publish(Watchdog(g)) \/ Send(Watchdog(g))

Fairness ==
    /\ \A g \in Gens : WF_vars(Proceed(g)) /\ WF_vars(Watch(g))
    /\ WF_vars(Age)

FairSpec == Spec /\ Fairness

-----------------------------------------------------------------------------
(* The generation that active names is the only one that was not told to    *)
(* stop, both goroutines that publish run in it, and there is one exactly   *)
(* when there are subscribers.                                              *)
WatchedIffSubscribed ==
    /\ active = NoGen <=> subs = {}
    /\ \A t \in Threads : Running(t) /\ t[1] \notin cancelled <=> t[1] = active

(* A subscriber holds the cached price at the end of its channel, but for   *)
(* the reasons the code has: the price was not sent to it (a full buffer,   *)
(* or published before it came), a send is outstanding, or a goroutine that *)
(* published an earlier price sent that one last.                           *)
UpToDate ==
    \A s \in subs :
        \/ last[s] = cached.price
        \/ s \in missed \cup overtaken
        \/ \E t \in Threads : phase[t] = "send" /\ s \in targets[t]

(* A price that says "onchain+okx" is within MaxDeviation of the price OKX  *)
(* quoted last, leaving out quotes that were not positive, or so far away   *)
(* that 16 bits do not hold the difference.  What it was compared with      *)
(* OKX's may itself be a price of OKX, which the watchdog published.        *)
ConfirmedByOKX ==
    confirmed =>
        /\ cached # NoQuote /\ quoted # 0
        /\ LET d == TrueDeviation(cached.price, quoted)
           IN  d <= MaxDeviation \/ d > 65535

(* An older price of the pool replaces a newer one only if another          *)
(* goroutine published that, or a Subscribe read it: events, polls and      *)
(* reads of one goroutine stay in order over any loss of the subscription.  *)
OlderOnlyFromAnother ==
    [][cached' # cached /\ by' = by /\ cached.from = "pool" /\ cached'.from = "pool"
         => cached'.move > cached.move \/ by = NoThread]_vars

(* However events, polls and reads overlap, the cached price is the pool's  *)
(* again and again while the chain answers and somebody subscribes; as the  *)
(* pool moves MaxMoves times only, it is the last price.                    *)
Converges ==
    []<>(cached.price = pool.price \/ subs = {} \/ ~chainUp \/ panicked)

(* A generation that is not the active one ends, unless a send panics: no   *)
(* goroutine is left behind, and wg.Wait in Close returns.                  *)
OldGenerationsEnd ==
    \A g \in Gens :
        g <= made /\ g # active ~>
            panicked \/ ~(Running(Swaps(g)) \/ Running(Watchdog(g)))

-----------------------------------------------------------------------------
(* The inductive invariants behind the safety properties.                   *)

(* Generations follow one another: the last one is active or, like all      *)
(* before it, cancelled, and no goroutine ends that was not told to.        *)
GenInv ==
    /\ \A s \in Subscribers : s \in subs <=> chan[s] = "open"
    /\ active = NoGen <=> subs = {}
    /\ active # NoGen => active = made
    /\ \A g \in Gens : g \in cancelled <=> g <= made /\ g # active
    /\ \A t \in Threads : at[t] = "none" <=> t[1] > made
    /\ \A t \in Threads : at[t] = "ended" => t[1] \in cancelled

(* Only the thread that published the cached price can still bring it.      *)
DeliveryInv ==
    /\ \A s \in Subscribers : chan[s] = "none" => last[s] = 0
    /\ by \in Threads => cached \in Quote /\ (phase[by] = "send" => val[by] = cached)
    /\ \A s \in subs :
         \/ last[s] = cached.price
         \/ s \in missed \cup overtaken
         \/ by \in Threads /\ phase[by] = "send" /\ s \in targets[by]

(* The logs hold prices of the pool only.                                   *)
LogInv == \A g \in Gens : \A i \in DOMAIN logs[g] : logs[g][i].from = "pool"

(* A price of the pool is an earlier one or the pool's own.                 *)
OfPool(quote)   == quote.from = "pool" /\ quote.price # 0
NotAhead(quote) == OfPool(quote) => quote.move < pool.move \/ quote = pool

(* A thread that published the cached price and has a new one in its hands, *)
(* or in the logs it is about to take, has no older one there.              *)
OrderInv ==
    /\ NotAhead(cached)
    /\ \A t \in Threads : phase[t] = "read" =>
         /\ NotAhead(val[t])
         /\ by = t /\ OfPool(cached) /\ OfPool(val[t]) =>
              val[t].move > cached.move \/ val[t] = cached
    /\ \A g \in Gens : \A i, j \in DOMAIN logs[g] :
         NotAhead(logs[g][i]) /\ (i < j => logs[g][i].move < logs[g][j].move)
    /\ \A g \in Gens : at[Swaps(g)] = "listen" =>
         /\ phase[Swaps(g)] # "read"
         /\ by = Swaps(g) /\ OfPool(cached) =>
              \A i \in DOMAIN logs[g] : logs[g][i].move > cached.move
=============================================================================
