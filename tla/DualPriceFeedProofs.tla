------------------------ MODULE DualPriceFeedProofs ------------------------
(****************************************************************************)
(* The safety properties of DualPriceFeed, for any number of subscribers,   *)
(* generations, prices and events.                                          *)
(****************************************************************************)
EXTENDS DualPriceFeed, SequenceTheorems, TLAPS

LEMMA ThreadFacts ==
    /\ NoThread \notin Threads
    /\ \A g \in Gens : /\ Swaps(g) \in Threads /\ Watchdog(g) \in Threads
                       /\ Swaps(g)[1] = g /\ Watchdog(g)[1] = g
                       /\ g \in Nat /\ g # NoGen /\ g <= MaxGens
    /\ \A g, h \in Gens : Swaps(g) # Watchdog(h) /\ (Swaps(g) = Swaps(h) => g = h)
                            /\ (Watchdog(g) = Watchdog(h) => g = h)
    /\ \A t \in Threads : t[1] \in Gens /\ (t = Swaps(t[1]) \/ t = Watchdog(t[1]))
  BY DualFeedAssumption DEF NoThread, NoGen, Threads, Gens, Swaps, Watchdog

LEMMA QuoteFacts ==
    /\ \A q \in Quote : /\ q.price \in Nat \ {0} /\ q.price \in Prices \cup OKXPrices
                        /\ q.move \in Nat /\ q.move <= MaxMoves
                        /\ q.from \in {"pool", "okx"}
    /\ NoQuote \notin Quote
    /\ NoQuote.price = 0 /\ NoQuote.from = "pool"
  <1>1. NoQuote.price = 0 /\ NoQuote.from = "pool"
    BY DEF NoQuote
  <1>2. ASSUME NEW q \in Quote
        PROVE  /\ q.price \in (Prices \cup OKXPrices) \ {0} /\ q.move \in 0..MaxMoves
               /\ q.from \in {"pool", "okx"}
    BY DEF Quote
  <1>3. \A price \in (Prices \cup OKXPrices) \ {0} : price \in Nat \ {0}
    BY DualFeedAssumption
  <1>4. \A n \in 0..MaxMoves : n \in Nat /\ n <= MaxMoves
    BY DualFeedAssumption
  <1> QED  BY <1>1, <1>2, <1>3, <1>4

LEMMA TypeInit == Init => TypeOK
  <1> SUFFICES ASSUME Init PROVE TypeOK
    OBVIOUS
  <1>1. pool \in Quote /\ pool.from = "pool" /\ pool.price \in Prices
    BY DualFeedAssumption DEF Init, Quote
  <1>2. 0 \in 0..MaxEvents /\ 0 \in 0..MaxGens
    BY DualFeedAssumption
  <1>3. logs \in [Gens -> Seq(Quote)]
    BY DEF Init
  <1> QED  BY <1>1, <1>2, <1>3 DEF Init, TypeOK

(* What Cache does, in its two cases.                                       *)
LEMMA CacheFacts ==
    ASSUME TypeOK, NEW t \in Threads, NEW quote \in Quote, Cache(t, quote)
    PROVE  /\ phase' \in [Threads -> {"idle", "read", "send"}]
           /\ val' \in [Threads -> Quote \cup {NoQuote}]
           /\ targets' \in [Threads -> SUBSET Subscribers]
           /\ \A u \in Threads : u # t => /\ phase'[u] = phase[u] /\ val'[u] = val[u]
                                          /\ targets'[u] = targets[u]
           /\ okx' = okx /\ quoted' = quoted
           /\ \/ /\ cached.price = quote.price
                 /\ phase'[t] = "idle" /\ val'[t] = NoQuote
                 /\ UNCHANGED <<cached, confirmed, fresh, by, targets>>
              \/ /\ cached.price # quote.price
                 /\ phase'[t] = "send" /\ val'[t] = quote
                 /\ cached' = quote /\ by' = t /\ confirmed' = FALSE /\ fresh' = TRUE
                 /\ targets'[t] = subs
  <1>1. CASE cached.price = quote.price
    BY <1>1 DEF Cache, Forget, priceVars, TypeOK
  <1>2. CASE cached.price # quote.price
    BY <1>2 DEF Cache, CopySubs, NewSource, TypeOK
  <1> QED  BY <1>1, <1>2

LEMMA CacheTypes ==
    ASSUME TypeOK, NEW t \in Threads, NEW quote \in Quote, Cache(t, quote)
    PROVE  /\ cached' \in Quote \cup {NoQuote}
           /\ okx' \in OKXPrices \cup {0} /\ quoted' \in OKXPrices \cup {0}
           /\ confirmed' \in BOOLEAN /\ fresh' \in BOOLEAN
           /\ phase' \in [Threads -> {"idle", "read", "send"}]
           /\ val' \in [Threads -> Quote \cup {NoQuote}]
           /\ \A u \in Threads : phase'[u] # "idle" => val'[u] \in Quote
           /\ targets' \in [Threads -> SUBSET Subscribers]
           /\ by' \in Threads \cup {NoThread}
  <1>1. CASE cached.price = quote.price
    <2>1. UNCHANGED <<cached, confirmed, fresh, by, okx, quoted>> /\ phase'[t] = "idle"
      BY <1>1, CacheFacts
    <2> QED  BY <2>1, CacheFacts DEF TypeOK
  <1>2. CASE cached.price # quote.price
    <2>1. /\ phase'[t] = "send" /\ val'[t] = quote /\ okx' = okx /\ quoted' = quoted
          /\ cached' = quote /\ by' = t /\ confirmed' = FALSE /\ fresh' = TRUE
      BY <1>2, CacheFacts
    <2> QED  BY <2>1, CacheFacts DEF TypeOK
  <1> QED  BY <1>1, <1>2

(* A quote that a goroutine has read.                                       *)
LEMMA HasReadFacts ==
    ASSUME TypeOK, NEW t \in Threads, NEW quote \in Quote, HasRead(t, quote)
    PROVE  /\ phase' \in [Threads -> {"idle", "read", "send"}]
           /\ val' \in [Threads -> Quote \cup {NoQuote}]
           /\ \A u \in Threads : phase'[u] # "idle" => val'[u] \in Quote
           /\ \A u \in Threads : u # t => phase'[u] = phase[u] /\ val'[u] = val[u]
           /\ phase'[t] = "read" /\ val'[t] = quote
           /\ targets' = targets
  BY DEF HasRead, TypeOK

(* A cancelled generation.                                                  *)
LEMMA CancelFacts ==
    ASSUME TypeOK, CancelGen
    PROVE  active' = NoGen /\ cancelled' \subseteq Gens /\ cancelled \subseteq cancelled'
  BY DEF CancelGen, TypeOK

LEMMA SubscribeTypes ==
    ASSUME TypeOK, NEW s \in Subscribers, Subscribe(s)
    PROVE  TypeOK'
  <1>1. /\ chan' \in [Subscribers -> {"none", "open", "closed"}]
        /\ subs' \subseteq Subscribers
        /\ missed' \subseteq Subscribers
    BY DEF Subscribe, TypeOK
  <1>2. UNCHANGED <<pool, chainUp, cancelled, phase, val, targets, logs, live, last,
                    overtaken, panicked>>
    BY DEF Subscribe, pubVars, wsVars
  <1>3. events' \in 0..MaxEvents
    BY DualFeedAssumption DEF Subscribe, Happens, TypeOK
  <1>4. CASE active # NoGen
    <2>1. UNCHANGED <<active, made, at, cached, okx, quoted, confirmed, fresh, by>>
      BY <1>4 DEF Subscribe, priceVars
    <2> QED  BY <1>1, <1>2, <1>3, <2>1 DEF TypeOK
  <1>5. CASE active = NoGen
    <2>1. made' \in 0..MaxGens /\ active' = made' /\ made' \in Gens
      BY <1>5, DualFeedAssumption DEF Subscribe, TypeOK, Gens
    <2>2. at' \in [Threads -> {"none", "dial", "fallback", "polled", "listen", "select",
                               "ending", "ended"}]
      BY <1>5 DEF Subscribe, TypeOK
    <2>3. /\ cached' \in Quote \cup {NoQuote}
          /\ okx' \in OKXPrices \cup {0} /\ quoted' \in OKXPrices \cup {0}
          /\ confirmed' \in BOOLEAN /\ fresh' \in BOOLEAN /\ by' \in Threads \cup {NoThread}
      BY <1>5 DEF Subscribe, priceVars, TypeOK
    <2> QED  BY <1>1, <1>2, <1>3, <2>1, <2>2, <2>3 DEF TypeOK
  <1> QED  BY <1>4, <1>5

LEMMA RemoveTypes ==
    ASSUME TypeOK, (\E s \in Subscribers : removeSub(s)) \/ Close
    PROVE  TypeOK'
  <1>1. UNCHANGED <<pool, chainUp, events, cached, okx, quoted, confirmed, fresh, by, made, at,
                    phase, val, targets, logs, live, panicked>>
    BY DEF removeSub, Close, poolVars, priceVars, pubVars, wsVars
  <1> DEFINE SubsTyped ==
               /\ subs \subseteq Subscribers /\ missed \subseteq Subscribers
               /\ overtaken \subseteq Subscribers
               /\ chan \in [Subscribers -> {"none", "open", "closed"}]
               /\ last \in [Subscribers -> Prices \cup OKXPrices \cup {0}]
  <1>2. SubsTyped'
    <2>1. ASSUME NEW s \in Subscribers, removeSub(s) PROVE SubsTyped'
      BY <2>1 DEF removeSub, TypeOK
    <2>2. CASE Close
      <3>1. chan' = [s \in Subscribers |-> IF s \in subs THEN "closed" ELSE chan[s]]
        BY <2>2 DEF Close
      <3>2. last' = [s \in Subscribers |-> 0]
        BY <2>2 DEF Close
      <3> QED  BY <2>2, <3>1, <3>2 DEF Close, TypeOK
    <2> QED  BY <2>1, <2>2
  <1>3. active' \in Gens \cup {NoGen} /\ cancelled' \subseteq Gens
    BY CancelFacts DEF removeSub, Close, TypeOK
  <1> QED  BY <1>1, <1>2, <1>3 DEF TypeOK

LEMMA PublishTypes ==
    ASSUME TypeOK, NEW t \in Threads, Publish(t) \/ Send(t)
    PROVE  TypeOK'
  <1>1. CASE Publish(t)
    <2>1. val[t] \in Quote /\ Cache(t, val[t])
      BY <1>1 DEF Publish, TypeOK
    <2>2. UNCHANGED <<pool, chainUp, events, subs, active, made, cancelled, at, logs,
                      live, chan, last, missed, overtaken, panicked>>
      BY <1>1 DEF Publish, poolVars, genVars, wsVars, chanVars
    <2> QED  BY <2>1, <2>2, CacheTypes DEF TypeOK
  <1>2. CASE Send(t)
    <2>1. UNCHANGED <<pool, chainUp, events, cached, okx, quoted, confirmed, fresh, by, subs,
                      active, made, cancelled, at, logs, live, chan>>
      BY <1>2 DEF Send, poolVars, priceVars, genVars, wsVars
    <2>2. CASE panicked' /\ UNCHANGED <<pubVars, last, missed, overtaken>>
      BY <1>2, <2>1, <2>2 DEF Send, pubVars, TypeOK
    <2>3. CASE /\ Forget(t) /\ targets' = [targets EXCEPT ![t] = {}]
               /\ \E full \in SUBSET targets[t] :
                    LET sent == targets[t] \ full
                    IN  /\ last' = [s \in Subscribers |-> IF s \in sent THEN val[t].price
                                                                       ELSE last[s]]
                        /\ IF t = by
                           THEN /\ missed' = (missed \ sent) \cup full
                                /\ overtaken' = overtaken \ sent
                           ELSE missed' = missed \ sent /\ overtaken' = overtaken \cup sent
               /\ UNCHANGED panicked
      <3>1. val[t].price \in Prices \cup OKXPrices
        BY <1>2, QuoteFacts DEF Send, TypeOK
      <3>2. /\ phase' \in [Threads -> {"idle", "read", "send"}]
            /\ val' \in [Threads -> Quote \cup {NoQuote}]
            /\ targets' \in [Threads -> SUBSET Subscribers]
            /\ \A u \in Threads : phase'[u] # "idle" => val'[u] \in Quote
        BY <2>3 DEF Forget, TypeOK
      <3>3. /\ last' \in [Subscribers -> Prices \cup OKXPrices \cup {0}]
            /\ missed' \subseteq Subscribers /\ overtaken' \subseteq Subscribers
        <4>1. PICK full \in SUBSET targets[t] :
                LET sent == targets[t] \ full
                IN  /\ last' = [s \in Subscribers |-> IF s \in sent THEN val[t].price
                                                                   ELSE last[s]]
                    /\ IF t = by
                       THEN missed' = (missed \ sent) \cup full /\ overtaken' = overtaken \ sent
                       ELSE missed' = missed \ sent /\ overtaken' = overtaken \cup sent
          BY <2>3
        <4>2. last' \in [Subscribers -> Prices \cup OKXPrices \cup {0}]
          BY <3>1, <4>1 DEF TypeOK
        <4>3. missed' \subseteq Subscribers /\ overtaken' \subseteq Subscribers
          BY <4>1 DEF TypeOK
        <4> QED  BY <4>2, <4>3
      <3> QED  BY <2>1, <2>3, <3>2, <3>3 DEF TypeOK
    <2> QED  BY <1>2, <2>2, <2>3 DEF Send
  <1> QED  BY <1>1, <1>2

Places == {"none", "dial", "fallback", "polled", "listen", "select", "ending", "ended"}

LEMMA GoTypes ==
    ASSUME TypeOK, NEW t \in Threads, NEW place \in Places, Go(t, place)
    PROVE  at' \in [Threads -> Places]
  BY DEF Go, TypeOK, Places

(* The steps of a goroutine that publish nothing and read nothing.          *)
QuietMove(g) == Dial(g) \/ SubscriptionFails(g) \/ ListenerEnds(g) \/ WatchdogEnds(g)

LEMMA ListenerTypes ==
    ASSUME TypeOK, NEW g \in Gens,
           QuietMove(g) \/ TakeLog(g) \/ PollFallback(g) \/ ReadIfStale(g)
    PROVE  TypeOK'
  <1>0. Swaps(g) \in Threads /\ Watchdog(g) \in Threads
    BY ThreadFacts
  <1>1. CASE QuietMove(g)
    <2>0. events' \in 0..MaxEvents
      BY <1>1, DualFeedAssumption
         DEF QuietMove, Dial, SubscriptionFails, ListenerEnds, WatchdogEnds, Happens, TypeOK,
             poolVars
    <2>1. UNCHANGED <<pool, chainUp, cached, okx, quoted, confirmed, fresh, by, subs,
                      active, made, cancelled, phase, val, targets, chan, last, missed,
                      overtaken, panicked>>
      BY <1>1 DEF QuietMove, Dial, SubscriptionFails, ListenerEnds, WatchdogEnds, poolVars,
                  priceVars, genVars, pubVars, chanVars
    <2>2. at' \in [Threads -> Places]
      <3>1. Retreat(g) => at' \in [Threads -> Places]
        BY <1>0, GoTypes DEF Retreat, Places
      <3>2. Go(Swaps(g), "listen") \/ Go(Swaps(g), "ended") \/ Go(Watchdog(g), "ended")
              => at' \in [Threads -> Places]
        BY <1>0, GoTypes DEF Places
      <3> QED  BY <1>1, <3>1, <3>2 DEF QuietMove, Dial, SubscriptionFails, ListenerEnds,
                                      WatchdogEnds
    <2>3. logs' \in [Gens -> Seq(Quote)] /\ live' \subseteq Gens
      <3>1. NewLogs(g) \in [Gens -> Seq(Quote)]
        BY DEF NewLogs, TypeOK
      <3>2. logs' \in {logs, NewLogs(g)} /\ live' \in {live, live \cup {g}, live \ {g}}
        BY <1>1 DEF QuietMove, Dial, SubscriptionFails, ListenerEnds, WatchdogEnds, wsVars
      <3> QED  BY <3>1, <3>2 DEF TypeOK
    <2> QED  BY <2>0, <2>1, <2>2, <2>3 DEF TypeOK, Places
  <1>2. CASE TakeLog(g)
    <2>1. logs[g] \in Seq(Quote) /\ logs[g] # <<>>
      BY <1>2 DEF TakeLog, TypeOK
    <2>2. Head(logs[g]) \in Quote /\ Tail(logs[g]) \in Seq(Quote)
      BY <2>1, HeadTailProperties
    <2>3. logs' \in [Gens -> Seq(Quote)]
      BY <1>2, <2>2 DEF TakeLog, TypeOK
    <2>4. UNCHANGED <<pool, chainUp, events, subs, active, made, cancelled, at, live,
                      chan, last, missed, overtaken, panicked>>
      BY <1>2 DEF TakeLog, poolVars, genVars, chanVars
    <2>5. Cache(Swaps(g), Head(logs[g]))
      BY <1>2 DEF TakeLog
    <2> QED  BY <1>0, <2>2, <2>3, <2>4, <2>5, CacheTypes DEF TypeOK
  <1>3. CASE PollFallback(g)
    <2>1. at' \in [Threads -> Places]
      BY <1>0, <1>3, GoTypes DEF PollFallback, Places
    <2>2. HasRead(Swaps(g), pool) /\ pool \in Quote
      BY <1>3 DEF PollFallback, TypeOK
    <2>3. UNCHANGED <<pool, chainUp, events, cached, okx, quoted, confirmed, fresh, by, subs,
                      active, made, cancelled, logs, live, chan, last, missed, overtaken,
                      panicked>>
      BY <1>3 DEF PollFallback, poolVars, priceVars, genVars, wsVars, chanVars
    <2> QED  BY <1>0, <2>1, <2>2, <2>3, HasReadFacts DEF TypeOK, Places
  <1>4. CASE ReadIfStale(g)
    <2>1. at' \in [Threads -> Places]
      BY <1>0, <1>4, GoTypes DEF ReadIfStale, Places, TypeOK
    <2>2. PICK quote \in Quote : HasRead(Watchdog(g), quote)
      <3>1. pool \in Quote
        BY DEF TypeOK
      <3>2. HasOKX => [price |-> okx, move |-> pool.move, from |-> "okx"] \in Quote
        BY DEF HasOKX, TypeOK, Quote
      <3> QED  BY <1>4, <3>1, <3>2 DEF ReadIfStale
    <2>3. UNCHANGED <<pool, chainUp, events, cached, okx, quoted, confirmed, fresh, by, subs,
                      active, made, cancelled, logs, live, chan, last, missed, overtaken,
                      panicked>>
      BY <1>4 DEF ReadIfStale, poolVars, priceVars, genVars, wsVars, chanVars
    <2> QED  BY <1>0, <2>1, <2>2, <2>3, HasReadFacts DEF TypeOK, Places
  <1> QED  BY <1>1, <1>2, <1>3, <1>4

LEMMA EnvironmentTypes ==
    ASSUME TypeOK, Environment \/ \E price \in OKXPrices : OKXPoll(price)
    PROVE  TypeOK'
  <1>1. \A n \in Nat : Happens(n) => events' \in 0..MaxEvents
    BY DualFeedAssumption DEF Happens, TypeOK
  <1>2. ASSUME NEW price \in Prices, NEW removed \in BOOLEAN, PoolMoves(price, removed)
        PROVE  TypeOK'
    <2>1. pool' \in Quote /\ pool'.from = "pool" /\ pool'.price \in Prices
      <3>1. pool.move \in 0..MaxMoves /\ pool.move < MaxMoves
        BY <1>2 DEF PoolMoves, TypeOK, Quote
      <3>2. pool.move + 1 \in 0..MaxMoves
        BY <3>1, DualFeedAssumption
      <3> QED  BY <1>2, <3>2, DualFeedAssumption DEF PoolMoves, Quote
    <2>2. logs' \in [Gens -> Seq(Quote)]
      <3>1. \A g \in Gens : Append(logs[g], pool') \in Seq(Quote) /\ logs[g] \in Seq(Quote)
        BY <2>1, AppendProperties DEF TypeOK
      <3> QED  BY <1>2, <3>1 DEF PoolMoves
    <2>3. UNCHANGED <<chainUp, cached, okx, quoted, confirmed, fresh, by, subs, active, made,
                      cancelled, at, phase, val, targets, live, chan, last, missed, overtaken,
                      panicked>>
      BY <1>2 DEF PoolMoves, priceVars, genVars, pubVars, chanVars
    <2> QED  BY <1>1, <1>2, <2>1, <2>2, <2>3 DEF PoolMoves, TypeOK
  <1>3. CASE ChainFails
    BY <1>1, <1>3 DEF ChainFails, TypeOK, priceVars, genVars, pubVars, chanVars
  <1>4. CASE ChainRecovers
    BY <1>4 DEF ChainRecovers, TypeOK, priceVars, genVars, pubVars, wsVars, chanVars
  <1>5. ASSUME NEW g \in Gens, SubscriptionDrops(g) PROVE TypeOK'
    BY <1>1, <1>5 DEF SubscriptionDrops, TypeOK, priceVars, genVars, pubVars, chanVars
  <1>6. CASE Age
    BY <1>6 DEF Age, TypeOK, poolVars, genVars, pubVars, wsVars, chanVars
  <1>7. ASSUME NEW price \in OKXPrices, OKXPoll(price) PROVE TypeOK'
    <2>1. UNCHANGED <<poolVars, cached, by, genVars, at, pubVars, wsVars, chanVars, panicked,
                      fresh>>
      BY <1>7 DEF OKXPoll, Untouched
    <2>2. okx' \in OKXPrices \cup {0} /\ quoted' \in OKXPrices \cup {0}
      BY <1>7 DEF OKXPoll, TypeOK
    <2>3. confirmed' \in BOOLEAN
      <3>1. CASE cached # NoQuote /\ price > 0
        <4>1. confirmed' = (computeDeviationBps(cached.price, price) <= MaxDeviation)
          BY <1>7, <3>1 DEF OKXPoll
        <4> QED  BY <4>1
      <3>2. CASE ~(cached # NoQuote /\ price > 0)
        <4>1. confirmed' = confirmed
          BY <1>7, <3>2 DEF OKXPoll
        <4> QED  BY <4>1 DEF TypeOK
      <3> QED  BY <3>1, <3>2
    <2> QED  BY <2>1, <2>2, <2>3 DEF TypeOK, poolVars, genVars, pubVars, wsVars, chanVars
  <1> QED  BY <1>2, <1>3, <1>4, <1>5, <1>6, <1>7 DEF Environment

LEMMA TypeStep == TypeOK /\ [Next]_vars => TypeOK'
  <1> SUFFICES ASSUME TypeOK, [Next]_vars PROVE TypeOK'
    OBVIOUS
  <1>1. CASE UNCHANGED vars
    BY <1>1 DEF vars, TypeOK, poolVars, priceVars, genVars, pubVars, wsVars, chanVars
  <1>2. CASE Next
    BY <1>2, SubscribeTypes, RemoveTypes, PublishTypes, ListenerTypes, EnvironmentTypes
       DEF Next, QuietMove
  <1> QED  BY <1>1, <1>2

-----------------------------------------------------------------------------
(* The generations.                                                         *)

StaysInPlace == UNCHANGED <<chan, subs, active, made, cancelled, at>>

(* A goroutine that runs goes on, or ends if its generation is cancelled.   *)
MovesOn ==
    /\ UNCHANGED <<chan, subs, active, made, cancelled>>
    /\ \E t \in Threads :
         /\ at[t] # "none" /\ at'[t] # "none"
         /\ at'[t] = "ended" => t[1] \in cancelled
         /\ \A u \in Threads : u # t => at'[u] = at[u]

LEMMA ListenerMoves ==
    ASSUME TypeOK, NEW g \in Gens, QuietMove(g) \/ PollFallback(g) \/ ReadIfStale(g)
    PROVE  MovesOn
  <1>0. /\ Swaps(g) \in Threads /\ Watchdog(g) \in Threads
        /\ Swaps(g)[1] = g /\ Watchdog(g)[1] = g
    BY ThreadFacts
  <1>1. UNCHANGED <<chan, subs, active, made, cancelled>>
    BY DEF QuietMove, Dial, SubscriptionFails, ListenerEnds, WatchdogEnds, PollFallback,
           ReadIfStale, genVars, chanVars
  <1>2. ASSUME NEW t \in Threads, NEW place \in Places \ {"none"}, at[t] # "none",
               Go(t, place), place = "ended" => t[1] \in cancelled
        PROVE  MovesOn
    BY <1>1, <1>2 DEF Go, MovesOn, TypeOK
  <1>3. CASE Dial(g)
    BY <1>0, <1>2, <1>3 DEF Dial, Retreat, Listening, Places
  <1>4. CASE SubscriptionFails(g)
    BY <1>0, <1>2, <1>4 DEF SubscriptionFails, Retreat, Listening, Places
  <1>5. CASE ListenerEnds(g)
    BY <1>0, <1>2, <1>5 DEF ListenerEnds, Listening, Places
  <1>6. CASE WatchdogEnds(g)
    BY <1>0, <1>2, <1>6 DEF WatchdogEnds, Places
  <1>7. CASE PollFallback(g)
    BY <1>0, <1>2, <1>7 DEF PollFallback, Places
  <1>8. CASE ReadIfStale(g)
    BY <1>0, <1>1, <1>2, <1>8 DEF ReadIfStale, Places, MovesOn
  <1> QED  BY <1>3, <1>4, <1>5, <1>6, <1>7, <1>8 DEF QuietMove

LEMMA OthersStay ==
    ASSUME \/ \E t \in Threads : Publish(t) \/ Send(t)
           \/ \E g \in Gens : TakeLog(g)
           \/ \E price \in OKXPrices : OKXPoll(price)
           \/ Environment
           \/ UNCHANGED vars
    PROVE  StaysInPlace
  <1>1. ASSUME NEW t \in Threads, Publish(t) \/ Send(t) PROVE StaysInPlace
    BY <1>1 DEF Publish, Send, StaysInPlace, genVars, chanVars
  <1>2. ASSUME NEW g \in Gens, TakeLog(g) PROVE StaysInPlace
    BY <1>2 DEF TakeLog, StaysInPlace, genVars, chanVars
  <1>3. ASSUME NEW price \in OKXPrices, OKXPoll(price) PROVE StaysInPlace
    BY <1>3 DEF OKXPoll, StaysInPlace, genVars, chanVars
  <1>4. CASE Environment
    BY <1>4 DEF Environment, PoolMoves, ChainFails, ChainRecovers, SubscriptionDrops, Age,
                StaysInPlace, genVars, chanVars
  <1>5. CASE UNCHANGED vars
    BY <1>5 DEF vars, StaysInPlace, genVars, chanVars
  <1> QED  BY <1>1, <1>2, <1>3, <1>4, <1>5

(* Every step is one of these.                                              *)
LEMMA StepKinds ==
    ASSUME [Next]_vars
    PROVE  \/ \E s \in Subscribers : Subscribe(s)
           \/ \E s \in Subscribers : removeSub(s)
           \/ Close
           \/ \E g \in Gens : QuietMove(g) \/ PollFallback(g) \/ ReadIfStale(g)
           \/ \E g \in Gens : TakeLog(g)
           \/ \E t \in Threads : Publish(t)
           \/ \E t \in Threads : Send(t)
           \/ \E price \in OKXPrices : OKXPoll(price)
           \/ Environment
           \/ UNCHANGED vars
  BY DEF Next, QuietMove

(* The generation that the last subscriber, or Close, cancels.              *)
LEMMA CancelKeepsGens ==
    ASSUME TypeOK, GenInv, CancelGen, UNCHANGED <<made, at>>
    PROVE  /\ active' = NoGen
           /\ \A g \in Gens : g \in cancelled' <=> g <= made
           /\ \A t \in Threads : at'[t] = "none" <=> t[1] > made
           /\ \A t \in Threads : at'[t] = "ended" => t[1] \in cancelled'
  <1>1. active' = NoGen /\ cancelled' = cancelled \cup ({active} \ {NoGen})
    BY DEF CancelGen
  <1>2. \A g \in Gens : g # NoGen /\ g \in Nat
    BY ThreadFacts
  <1>3. made \in Nat
    BY DualFeedAssumption DEF TypeOK
  <1> QED  BY <1>1, <1>2, <1>3 DEF GenInv, TypeOK

LEMMA GenInit == Init => GenInv
  <1> SUFFICES ASSUME Init PROVE GenInv
    OBVIOUS
  <1>1. \A g \in Gens : g > 0 /\ ~(g <= 0)
    BY ThreadFacts DEF NoGen
  <1>2. \A t \in Threads : t[1] \in Gens
    BY ThreadFacts
  <1> QED  BY <1>1, <1>2 DEF Init, GenInv

LEMMA GenStep == TypeOK /\ GenInv /\ [Next]_vars => GenInv'
  <1> SUFFICES ASSUME TypeOK, GenInv, [Next]_vars PROVE GenInv'
    OBVIOUS
  <1>1. ASSUME NEW s \in Subscribers, Subscribe(s) PROVE GenInv'
    <2>1. /\ subs' = subs \cup {s} /\ chan' = [chan EXCEPT ![s] = "open"]
          /\ cancelled' = cancelled
      BY <1>1 DEF Subscribe
    <2>2. \A x \in Subscribers : x \in subs' <=> chan'[x] = "open"
      BY <2>1 DEF GenInv, TypeOK
    <2>3. CASE active # NoGen
      <3>1. UNCHANGED <<active, made, at>>
        BY <1>1, <2>3 DEF Subscribe
      <3> QED  BY <2>1, <2>2, <2>3, <3>1 DEF GenInv
    <2>4. CASE active = NoGen
      <3>1. /\ made \in Nat /\ made' = made + 1 /\ made' \in Gens /\ active' = made'
            /\ at' = [at EXCEPT ![Swaps(made')] = "dial", ![Watchdog(made')] = "select"]
        BY <1>1, <2>4, DualFeedAssumption DEF Subscribe, TypeOK, Gens
      <3>2. active' # NoGen /\ subs' # {}
        BY <2>1, <3>1, ThreadFacts
      <3>3. \A g \in Gens : g \in cancelled' <=> g <= made' /\ g # active'
        BY <2>1, <2>4, <3>1, ThreadFacts DEF GenInv
      <3>4. \A t \in Threads : t[1] = made' => at'[t] \in {"dial", "select"}
        BY <3>1, ThreadFacts DEF TypeOK
      <3>5. \A t \in Threads : t[1] # made' => at'[t] = at[t]
        BY <3>1, ThreadFacts DEF TypeOK
      <3>6. \A t \in Threads : t[1] \in Nat
        BY ThreadFacts
      <3>7. ASSUME NEW t \in Threads PROVE at'[t] = "none" <=> t[1] > made'
        <4>1. t[1] \in Nat /\ (at[t] = "none" <=> t[1] > made)
          BY <3>6 DEF GenInv
        <4>2. CASE t[1] = made'
          <5>1. at'[t] # "none"
            BY <3>4, <4>2
          <5> QED  BY <3>1, <4>1, <4>2, <5>1
        <4>3. CASE t[1] # made'
          <5>1. at'[t] = at[t]
            BY <3>5, <4>3
          <5>2. t[1] > made <=> t[1] > made'
            BY <3>1, <4>1, <4>3
          <5> QED  BY <4>1, <5>1, <5>2
        <4> QED  BY <4>2, <4>3
      <3>8. \A t \in Threads : at'[t] = "ended" => t[1] \in cancelled'
        BY <2>1, <3>4, <3>5 DEF GenInv
      <3> QED  BY <2>2, <3>1, <3>2, <3>3, <3>7, <3>8 DEF GenInv
    <2> QED  BY <2>3, <2>4
  <1>2. ASSUME NEW s \in Subscribers, removeSub(s) PROVE GenInv'
    <2>1. /\ subs' = subs \ {s} /\ chan' = [chan EXCEPT ![s] = "closed"]
          /\ chan[s] = "open" /\ UNCHANGED <<made, at>>
      BY <1>2 DEF removeSub
    <2>2. \A x \in Subscribers : x \in subs' <=> chan'[x] = "open"
      BY <2>1 DEF GenInv, TypeOK
    <2>3. CASE subs' = {}
      <3>1. CancelGen
        BY <1>2, <2>3 DEF removeSub
      <3>2. \A g \in Gens : g # NoGen
        BY ThreadFacts
      <3> QED  BY <2>1, <2>2, <2>3, <3>1, <3>2, CancelKeepsGens DEF GenInv
    <2>4. CASE subs' # {}
      <3>1. UNCHANGED <<active, cancelled>> /\ subs # {}
        BY <1>2, <2>1, <2>4 DEF removeSub
      <3> QED  BY <2>1, <2>2, <2>4, <3>1 DEF GenInv
    <2> QED  BY <2>3, <2>4
  <1>3. CASE Close
    <2>1. /\ subs' = {} /\ UNCHANGED <<made, at>> /\ CancelGen
          /\ chan' = [s \in Subscribers |-> IF s \in subs THEN "closed" ELSE chan[s]]
      BY <1>3 DEF Close
    <2>2. \A x \in Subscribers : x \in subs' <=> chan'[x] = "open"
      BY <2>1 DEF GenInv
    <2>3. \A g \in Gens : g # NoGen
      BY ThreadFacts
    <2> QED  BY <2>1, <2>2, <2>3, CancelKeepsGens DEF GenInv
  <1>4. CASE MovesOn
    <2>1. PICK t \in Threads :
            /\ at[t] # "none" /\ at'[t] # "none"
            /\ at'[t] = "ended" => t[1] \in cancelled
            /\ \A u \in Threads : u # t => at'[u] = at[u]
      BY <1>4 DEF MovesOn
    <2>2. UNCHANGED <<chan, subs, active, made, cancelled>>
      BY <1>4 DEF MovesOn
    <2> QED  BY <2>1, <2>2 DEF GenInv
  <1>5. CASE StaysInPlace
    BY <1>5 DEF StaysInPlace, GenInv
  <1> QED  BY <1>1, <1>2, <1>3, <1>4, <1>5, StepKinds, ListenerMoves, OthersStay

-----------------------------------------------------------------------------
(* What the steps do to the cached price, to the quotes in flight and to    *)
(* the channels.                                                            *)

PricesStay == UNCHANGED <<cached, okx, quoted, confirmed, by>>
QuotesStay == UNCHANGED <<phase, val, targets>>
ChansStay  == UNCHANGED <<subs, chan, last, missed, overtaken>>

LEMMA SubscribeFacts ==
    ASSUME TypeOK, NEW s \in Subscribers, Subscribe(s)
    PROVE  /\ chan[s] = "none" /\ chan' = [chan EXCEPT ![s] = "open"] /\ subs' = subs \cup {s}
           /\ QuotesStay
           /\ UNCHANGED <<last, overtaken, logs, pool, chainUp, cancelled>>
           /\ missed' = IF cached' = NoQuote THEN missed ELSE missed \cup {s}
           /\ \/ PricesStay
              \/ /\ active = NoGen
                 /\ cached' = pool /\ by' = NoThread /\ okx' = 0 /\ confirmed' = FALSE
           /\ \A t \in Threads : at'[t] = "listen" => at[t] = "listen"
  <1>1. /\ chan[s] = "none" /\ chan' = [chan EXCEPT ![s] = "open"] /\ subs' = subs \cup {s}
        /\ QuotesStay
        /\ UNCHANGED <<last, overtaken, logs, pool, chainUp, cancelled>>
        /\ missed' = IF cached' = NoQuote THEN missed ELSE missed \cup {s}
    BY DEF Subscribe, QuotesStay, pubVars, wsVars
  <1>2. CASE active # NoGen
    <2>1. PricesStay /\ at' = at
      BY <1>2 DEF Subscribe, PricesStay, priceVars
    <2> QED  BY <1>1, <2>1
  <1>3. CASE active = NoGen
    <2>1. at' = [at EXCEPT ![Swaps(made')] = "dial", ![Watchdog(made')] = "select"]
      BY <1>3 DEF Subscribe
    <2>2. \/ PricesStay
          \/ cached' = pool /\ by' = NoThread /\ okx' = 0 /\ confirmed' = FALSE
      BY <1>3 DEF Subscribe, PricesStay, priceVars
    <2>3. \A t \in Threads : at'[t] \in {at[t], "dial", "select"}
      BY <2>1 DEF TypeOK
    <2> QED  BY <1>1, <1>3, <2>2, <2>3
  <1> QED  BY <1>2, <1>3

LEMMA RemoveFacts ==
    ASSUME TypeOK, (\E s \in Subscribers : removeSub(s)) \/ Close
    PROVE  /\ PricesStay /\ QuotesStay
           /\ UNCHANGED <<logs, pool, chainUp, at>>
           /\ cancelled \subseteq cancelled'
           /\ subs' \subseteq subs
           /\ \A s \in subs' : /\ last'[s] = last[s]
                               /\ s \in missed \cup overtaken => s \in missed' \cup overtaken'
           /\ \A s \in Subscribers :
                /\ chan'[s] = "none" => chan[s] = "none"
                /\ last'[s] \in {last[s], 0}
  <1>1. /\ PricesStay /\ QuotesStay /\ UNCHANGED <<logs, pool, chainUp, at>>
    BY DEF removeSub, Close, PricesStay, QuotesStay, priceVars, pubVars, wsVars, poolVars
  <1>2. ASSUME NEW s \in Subscribers, removeSub(s)
        PROVE  /\ subs' = subs \ {s} /\ missed' = missed \ {s} /\ overtaken' = overtaken \ {s}
               /\ chan' = [chan EXCEPT ![s] = "closed"] /\ last' = [last EXCEPT ![s] = 0]
               /\ cancelled \subseteq cancelled'
    BY <1>2, CancelFacts DEF removeSub
  <1>3. ASSUME NEW s \in Subscribers, removeSub(s)
        PROVE  /\ \A x \in subs' : /\ last'[x] = last[x]
                                   /\ x \in missed \cup overtaken => x \in missed' \cup overtaken'
               /\ \A x \in Subscribers : /\ chan'[x] = "none" => chan[x] = "none"
                                         /\ last'[x] \in {last[x], 0}
    BY <1>2, <1>3 DEF TypeOK
  <1>4. CASE Close
    <2>1. /\ subs' = {} /\ last' = [s \in Subscribers |-> 0]
          /\ chan' = [s \in Subscribers |-> IF s \in subs THEN "closed" ELSE chan[s]]
          /\ cancelled \subseteq cancelled'
      BY <1>4, CancelFacts DEF Close
    <2> QED  BY <1>1, <2>1
  <1> QED  BY <1>1, <1>2, <1>3, <1>4

LEMMA MoveFacts ==
    ASSUME TypeOK, NEW g \in Gens, QuietMove(g)
    PROVE  /\ PricesStay /\ QuotesStay /\ ChansStay
           /\ UNCHANGED <<pool, chainUp, cancelled>>
           /\ \A h \in Gens : logs'[h] \in {logs[h], <<>>}
           /\ \A h \in Gens : at'[Swaps(h)] = "listen" =>
                \/ at[Swaps(h)] = "listen" /\ logs'[h] = logs[h]
                \/ phase[Swaps(h)] = "idle" /\ logs'[h] = <<>>
  <1>0. /\ Swaps(g) \in Threads /\ Watchdog(g) \in Threads
        /\ \A h \in Gens : Swaps(h) \in Threads /\ Swaps(h) # Watchdog(g)
                            /\ (h # g => Swaps(h) # Swaps(g))
    BY ThreadFacts
  <1>1. /\ PricesStay /\ QuotesStay /\ ChansStay
        /\ UNCHANGED <<pool, chainUp, cancelled>>
    BY DEF QuietMove, Dial, SubscriptionFails, ListenerEnds, WatchdogEnds, PricesStay, QuotesStay,
           ChansStay, poolVars, priceVars, genVars, pubVars, chanVars
  <1>2. CASE Dial(g) /\ Go(Swaps(g), "listen") /\ logs' = NewLogs(g)
    <2>1. phase[Swaps(g)] = "idle"
      BY <1>2 DEF Dial
    <2>2. logs'[g] = <<>> /\ \A h \in Gens : h # g => logs'[h] = logs[h]
      BY <1>2 DEF NewLogs, TypeOK
    <2>3. \A h \in Gens : h # g => at'[Swaps(h)] = at[Swaps(h)]
      BY <1>0, <1>2 DEF Go, TypeOK
    <2> QED  BY <1>1, <2>1, <2>2, <2>3
  <1>3. CASE logs' = logs /\ (Retreat(g) \/ Go(Swaps(g), "ended") \/ Go(Watchdog(g), "ended"))
    <2>1. \A h \in Gens : at'[Swaps(h)] = "listen" => at[Swaps(h)] = "listen"
      BY <1>0, <1>3 DEF Retreat, Go, TypeOK
    <2> QED  BY <1>1, <1>3, <2>1
  <1> QED  BY <1>2, <1>3 DEF QuietMove, Dial, SubscriptionFails, ListenerEnds, WatchdogEnds, wsVars

(* A goroutine reads a price: of the pool, or OKX's without the chain.      *)
LEMMA ReadFacts ==
    ASSUME TypeOK, NEW g \in Gens, PollFallback(g) \/ ReadIfStale(g)
    PROVE  /\ PricesStay /\ ChansStay
           /\ UNCHANGED <<logs, pool, chainUp, cancelled, targets>>
           /\ \A h \in Gens : at'[Swaps(h)] = "listen" =>
                at[Swaps(h)] = "listen" /\ phase'[Swaps(h)] = phase[Swaps(h)]
           /\ \E t \in Threads :
                /\ phase[t] = "idle" /\ phase'[t] = "read"
                /\ t[1] = g
                /\ \/ val'[t] = pool
                   \/ val'[t].from = "okx" /\ (~chainUp \/ g \in cancelled)
                /\ \A u \in Threads : u # t => phase'[u] = phase[u] /\ val'[u] = val[u]
  <1>0. /\ Swaps(g) \in Threads /\ Watchdog(g) \in Threads
        /\ Swaps(g)[1] = g /\ Watchdog(g)[1] = g
        /\ \A h \in Gens : Swaps(h) \in Threads /\ Swaps(h) # Watchdog(g)
                            /\ (h # g => Swaps(h) # Swaps(g))
    BY ThreadFacts
  <1>1. /\ PricesStay /\ ChansStay
        /\ UNCHANGED <<logs, pool, chainUp, cancelled, targets>>
    BY DEF PollFallback, ReadIfStale, HasRead, PricesStay, ChansStay, poolVars, priceVars,
           genVars, wsVars, chanVars
  <1>2. pool \in Quote
    BY DEF TypeOK
  <1>3. CASE PollFallback(g)
    <2>1. /\ phase[Swaps(g)] = "idle" /\ HasRead(Swaps(g), pool)
          /\ Go(Swaps(g), IF at[Swaps(g)] = "fallback" THEN "polled" ELSE "dial")
      BY <1>3 DEF PollFallback
    <2>2. at'[Swaps(g)] # "listen" /\ \A h \in Gens : h # g => at'[Swaps(h)] = at[Swaps(h)]
      BY <1>0, <2>1 DEF Go, TypeOK
    <2>3. /\ phase'[Swaps(g)] = "read" /\ val'[Swaps(g)] = pool
          /\ \A u \in Threads : u # Swaps(g) => phase'[u] = phase[u] /\ val'[u] = val[u]
      BY <1>0, <1>2, <2>1, HasReadFacts
    <2>4. \A h \in Gens : at'[Swaps(h)] = "listen" =>
            at[Swaps(h)] = "listen" /\ phase'[Swaps(h)] = phase[Swaps(h)]
      BY <1>0, <2>2, <2>3
    <2> QED  BY <1>0, <1>1, <2>1, <2>3, <2>4
  <1>4. CASE ReadIfStale(g)
    <2>1. PICK quote \in Quote :
            /\ HasRead(Watchdog(g), quote)
            /\ \/ quote = pool
               \/ quote.from = "okx" /\ (~chainUp \/ g \in cancelled)
      <3>1. HasOKX => [price |-> okx, move |-> pool.move, from |-> "okx"] \in Quote
        BY DEF HasOKX, TypeOK, Quote
      <3>2. [price |-> okx, move |-> pool.move, from |-> "okx"].from = "okx"
        OBVIOUS
      <3> QED  BY <1>2, <1>4, <3>1, <3>2 DEF ReadIfStale, ReadFails
    <2>2. phase[Watchdog(g)] = "idle"
      BY <1>4 DEF ReadIfStale
    <2>3. \A h \in Gens : at'[Swaps(h)] = at[Swaps(h)]
      BY <1>0, <1>4 DEF ReadIfStale, Go, TypeOK
    <2>4. /\ phase'[Watchdog(g)] = "read" /\ val'[Watchdog(g)] = quote
          /\ \A u \in Threads : u # Watchdog(g) => phase'[u] = phase[u] /\ val'[u] = val[u]
      BY <1>0, <2>1, HasReadFacts
    <2>5. \A h \in Gens : at'[Swaps(h)] = "listen" =>
            at[Swaps(h)] = "listen" /\ phase'[Swaps(h)] = phase[Swaps(h)]
      BY <1>0, <2>3, <2>4
    <2> QED  BY <1>0, <1>1, <2>1, <2>2, <2>4, <2>5
  <1> QED  BY <1>3, <1>4

LEMMA TakeLogFacts ==
    ASSUME TypeOK, NEW g \in Gens, TakeLog(g)
    PROVE  /\ at[Swaps(g)] = "listen" /\ phase[Swaps(g)] = "idle"
           /\ logs[g] \in Seq(Quote) /\ logs[g] # <<>> /\ Head(logs[g]) \in Quote
           /\ Head(logs[g]) = logs[g][1] /\ 1 \in DOMAIN logs[g]
           /\ logs'[g] = Tail(logs[g]) /\ \A h \in Gens : h # g => logs'[h] = logs[h]
           /\ \A i \in DOMAIN logs'[g] : i + 1 \in DOMAIN logs[g] /\ i \in Nat
                                           /\ i >= 1 /\ logs'[g][i] = logs[g][i + 1]
           /\ Cache(Swaps(g), Head(logs[g]))
           /\ ChansStay /\ UNCHANGED <<pool, chainUp, cancelled, at>>
  <1>1. /\ at[Swaps(g)] = "listen" /\ phase[Swaps(g)] = "idle"
        /\ Cache(Swaps(g), Head(logs[g])) /\ logs[g] # <<>>
        /\ ChansStay /\ UNCHANGED <<pool, chainUp, cancelled, at>>
    BY DEF TakeLog, Listening, ChansStay, poolVars, genVars, chanVars
  <1>2. logs[g] \in Seq(Quote)
    BY DEF TypeOK
  <1>3. logs'[g] = Tail(logs[g]) /\ \A h \in Gens : h # g => logs'[h] = logs[h]
    BY DEF TakeLog, TypeOK
  <1>4. Head(logs[g]) \in Quote /\ Head(logs[g]) = logs[g][1] /\ 1 \in DOMAIN logs[g]
    BY <1>1, <1>2, HeadTailProperties
  <1>5. \A i \in DOMAIN Tail(logs[g]) : i + 1 \in DOMAIN logs[g] /\ i \in Nat
                                        /\ i >= 1 /\ Tail(logs[g])[i] = logs[g][i + 1]
    BY <1>1, <1>2, HeadTailProperties
  <1> QED  BY <1>1, <1>2, <1>3, <1>4, <1>5

LEMMA PublishFacts ==
    ASSUME TypeOK, NEW t \in Threads, Publish(t)
    PROVE  /\ phase[t] = "read" /\ val[t] \in Quote /\ Cache(t, val[t])
           /\ ChansStay /\ UNCHANGED <<logs, pool, chainUp, cancelled, at>>
  BY DEF Publish, TypeOK, ChansStay, poolVars, genVars, wsVars, chanVars

LEMMA SendFacts ==
    ASSUME TypeOK, NEW t \in Threads, Send(t)
    PROVE  /\ PricesStay /\ phase[t] = "send"
           /\ UNCHANGED <<logs, pool, chainUp, cancelled, at, subs, chan>>
           /\ \/ QuotesStay /\ UNCHANGED <<last, missed, overtaken>>
              \/ /\ phase'[t] = "idle"
                 /\ \A u \in Threads : u # t => /\ phase'[u] = phase[u] /\ val'[u] = val[u]
                                                /\ targets'[u] = targets[u]
                 /\ \A s \in targets[t] : /\ chan[s] = "open"
                                          /\ \/ last'[s] = val[t].price
                                             \/ t = by /\ s \in missed'
                                             \/ t # by /\ last'[s] = last[s]
                                          /\ t # by => \/ s \in overtaken'
                                                       \/ /\ last'[s] = last[s]
                                                          /\ s \in missed => s \in missed'
                                                          /\ s \in overtaken => s \in overtaken'
                 /\ \A s \in Subscribers \ targets[t] :
                      /\ last'[s] = last[s]
                      /\ s \in missed \cup overtaken => s \in missed' \cup overtaken'
  <1>1. /\ PricesStay /\ phase[t] = "send"
        /\ UNCHANGED <<logs, pool, chainUp, cancelled, at, subs, chan>>
    BY DEF Send, PricesStay, poolVars, priceVars, genVars, wsVars
  <1>2. CASE UNCHANGED <<pubVars, last, missed, overtaken>>
    BY <1>1, <1>2 DEF pubVars, QuotesStay
  <1>3. ASSUME \A s \in targets[t] : chan[s] = "open",
               Forget(t) /\ targets' = [targets EXCEPT ![t] = {}],
               NEW full \in SUBSET targets[t], NEW sent, sent = targets[t] \ full,
               last' = [s \in Subscribers |-> IF s \in sent THEN val[t].price ELSE last[s]],
               IF t = by
               THEN missed' = (missed \ sent) \cup full /\ overtaken' = overtaken \ sent
               ELSE missed' = missed \ sent /\ overtaken' = overtaken \cup sent
        PROVE  /\ phase'[t] = "idle"
               /\ \A u \in Threads : u # t => /\ phase'[u] = phase[u] /\ val'[u] = val[u]
                                              /\ targets'[u] = targets[u]
               /\ \A s \in targets[t] : /\ chan[s] = "open"
                                        /\ \/ last'[s] = val[t].price
                                           \/ t = by /\ s \in missed'
                                           \/ t # by /\ last'[s] = last[s]
                                        /\ t # by => \/ s \in overtaken'
                                                     \/ /\ last'[s] = last[s]
                                                        /\ s \in missed => s \in missed'
                                                        /\ s \in overtaken => s \in overtaken'
               /\ \A s \in Subscribers \ targets[t] :
                    /\ last'[s] = last[s]
                    /\ s \in missed \cup overtaken => s \in missed' \cup overtaken'
    <2>1. /\ phase'[t] = "idle"
          /\ \A u \in Threads : u # t => /\ phase'[u] = phase[u] /\ val'[u] = val[u]
                                         /\ targets'[u] = targets[u]
      BY <1>3 DEF Forget, TypeOK
    <2>2. targets[t] \subseteq Subscribers
      BY DEF TypeOK
    <2>3. ASSUME NEW s \in Subscribers
          PROVE  last'[s] = IF s \in sent THEN val[t].price ELSE last[s]
      BY <1>3
    <2>4. ASSUME NEW s \in Subscribers \ targets[t]
          PROVE  /\ last'[s] = last[s]
                 /\ s \in missed \cup overtaken => s \in missed' \cup overtaken'
      BY <1>3, <2>3
    <2>5. ASSUME NEW s \in targets[t]
          PROVE  /\ \/ last'[s] = val[t].price
                    \/ t = by /\ s \in missed'
                    \/ t # by /\ last'[s] = last[s]
                 /\ t # by => \/ s \in overtaken'
                              \/ /\ last'[s] = last[s]
                                 /\ s \in missed => s \in missed'
                                 /\ s \in overtaken => s \in overtaken'
      BY <1>3, <2>2, <2>3
    <2> QED  BY <1>3, <2>1, <2>4, <2>5
  <1>4. CASE /\ \A s \in targets[t] : chan[s] = "open"
             /\ Forget(t) /\ targets' = [targets EXCEPT ![t] = {}]
             /\ \E full \in SUBSET targets[t] :
                  LET sent == targets[t] \ full
                  IN  /\ last' = [s \in Subscribers |-> IF s \in sent THEN val[t].price
                                                                     ELSE last[s]]
                      /\ IF t = by
                         THEN /\ missed' = (missed \ sent) \cup full
                              /\ overtaken' = overtaken \ sent
                         ELSE missed' = missed \ sent /\ overtaken' = overtaken \cup sent
    <2>1. PICK full \in SUBSET targets[t] :
            LET sent == targets[t] \ full
            IN  /\ last' = [s \in Subscribers |-> IF s \in sent THEN val[t].price
                                                               ELSE last[s]]
                /\ IF t = by
                   THEN missed' = (missed \ sent) \cup full /\ overtaken' = overtaken \ sent
                   ELSE missed' = missed \ sent /\ overtaken' = overtaken \cup sent
      BY <1>4
    <2> DEFINE sent == targets[t] \ full
    <2>2. /\ last' = [s \in Subscribers |-> IF s \in sent THEN val[t].price ELSE last[s]]
          /\ IF t = by
             THEN missed' = (missed \ sent) \cup full /\ overtaken' = overtaken \ sent
             ELSE missed' = missed \ sent /\ overtaken' = overtaken \cup sent
      BY <2>1
    <2>3. sent = targets[t] \ full
      OBVIOUS
    <2> HIDE DEF sent
    <2> QED  BY <1>1, <1>3, <1>4, <2>2, <2>3
  <1> QED  BY <1>2, <1>4 DEF Send

(* The pool moves, and a log of that may follow; or nothing of the kind.    *)
LEMMA EnvironmentFacts ==
    ASSUME TypeOK, Environment \/ UNCHANGED vars
    PROVE  /\ PricesStay /\ QuotesStay /\ ChansStay /\ UNCHANGED <<cancelled, at>>
           /\ \/ UNCHANGED <<pool, logs>>
              \/ /\ pool' \in Quote /\ pool'.from = "pool" /\ pool'.move = pool.move + 1
                 /\ \A g \in Gens : logs'[g] \in {logs[g], Append(logs[g], pool')}
  <1>1. PricesStay /\ QuotesStay /\ ChansStay /\ UNCHANGED <<cancelled, at>>
    BY DEF Environment, PoolMoves, ChainFails, ChainRecovers, SubscriptionDrops, Age, vars,
           PricesStay, QuotesStay, ChansStay, poolVars, priceVars, genVars, pubVars, chanVars
  <1>2. ASSUME NEW price \in Prices, NEW removed \in BOOLEAN, PoolMoves(price, removed)
        PROVE  /\ pool' \in Quote /\ pool'.from = "pool" /\ pool'.move = pool.move + 1
               /\ \A g \in Gens : logs'[g] \in {logs[g], Append(logs[g], pool')}
    <2>1. pool' = [price |-> price, move |-> pool.move + 1, from |-> "pool"]
      BY <1>2 DEF PoolMoves
    <2>2. pool.move + 1 \in 0..MaxMoves
      <3>1. pool.move \in 0..MaxMoves /\ pool.move < MaxMoves
        BY <1>2 DEF PoolMoves, TypeOK, Quote
      <3> QED  BY <3>1, DualFeedAssumption
    <2>3. pool' \in Quote /\ pool'.from = "pool" /\ pool'.move = pool.move + 1
      BY <2>1, <2>2, DualFeedAssumption DEF Quote
    <2>4. \A g \in Gens : logs'[g] \in {logs[g], Append(logs[g], pool')}
      BY <1>2 DEF PoolMoves
    <2> QED  BY <1>2, <2>3, <2>4 DEF PoolMoves
  <1>3. CASE ChainFails \/ ChainRecovers \/ Age \/ (\E g \in Gens : SubscriptionDrops(g))
             \/ UNCHANGED vars
    <2>1. UNCHANGED <<pool, logs>>
      BY <1>3 DEF ChainFails, ChainRecovers, SubscriptionDrops, Age, vars, poolVars, wsVars
    <2> QED  BY <1>1, <2>1
  <1> QED  BY <1>1, <1>2, <1>3 DEF Environment

LEMMA OKXPollFacts ==
    ASSUME NEW price \in OKXPrices, OKXPoll(price)
    PROVE  /\ QuotesStay /\ ChansStay
           /\ UNCHANGED <<cached, by, logs, pool, chainUp, cancelled, at>>
           /\ quoted' = IF price > 0 THEN price ELSE quoted
           /\ confirmed' = IF cached # NoQuote /\ price > 0
                           THEN computeDeviationBps(cached.price, price) <= MaxDeviation
                           ELSE confirmed
  BY DEF OKXPoll, QuotesStay, ChansStay, poolVars, genVars, pubVars, wsVars, chanVars

LEMMA DeviationNatural ==
    ASSUME NEW a \in Nat, NEW b \in Nat, a > 0
    PROVE  TrueDeviation(a, b) \in Nat
  <1>1. Distance(a, b) \in Nat
    BY DEF Distance
  <1> DEFINE n == 20000 * Distance(a, b) + a
  <1>2. n \in Nat /\ 2 * a \in Nat /\ 2 * a > 0
    BY <1>1
  <1> HIDE DEF n
  <1>3. \A m, k \in Nat : k > 0 => m \div k \in Nat
    BY Z3
  <1>4. n \div (2 * a) \in Nat
    BY <1>2, <1>3
  <1> USE DEF n
  <1> QED  BY <1>4 DEF TrueDeviation

LEMMA AppendFacts ==
    ASSUME NEW S, NEW seq \in Seq(S), NEW e \in S
    PROVE  \A i \in DOMAIN Append(seq, e) :
             \/ i = Len(seq) + 1 /\ Append(seq, e)[i] = e
             \/ /\ i \in DOMAIN seq /\ i \in Nat /\ i <= Len(seq)
                /\ Append(seq, e)[i] = seq[i]
  BY AppendProperties

-----------------------------------------------------------------------------
(* The invariants of the cached price, step by step.                        *)

(* A Cache leaves the cached price, or publishes a new one, unconfirmed.    *)
LEMMA CacheKinds ==
    ASSUME TypeOK, NEW t \in Threads, NEW quote \in Quote, Cache(t, quote)
    PROVE  /\ \A u \in Threads : u # t => /\ phase'[u] = phase[u] /\ val'[u] = val[u]
                                          /\ targets'[u] = targets[u]
           /\ okx' = okx /\ quoted' = quoted
           /\ \/ PricesStay /\ phase'[t] = "idle" /\ targets' = targets
              \/ /\ phase'[t] = "send" /\ val'[t] = quote /\ targets'[t] = subs
                 /\ cached' = quote /\ by' = t /\ confirmed' = FALSE
  BY CacheFacts DEF PricesStay

LEMMA ConfirmedStep == TypeOK /\ ConfirmedByOKX /\ [Next]_vars => ConfirmedByOKX'
  <1> SUFFICES ASSUME TypeOK, ConfirmedByOKX, [Next]_vars PROVE ConfirmedByOKX'
    OBVIOUS
  <1>1. ASSUME confirmed' = FALSE PROVE ConfirmedByOKX'
    BY <1>1 DEF ConfirmedByOKX
  <1>2. ASSUME PricesStay PROVE ConfirmedByOKX'
    BY <1>2 DEF PricesStay, ConfirmedByOKX
  <1>3. ASSUME NEW t \in Threads, NEW quote \in Quote, Cache(t, quote) PROVE ConfirmedByOKX'
    BY <1>1, <1>2, <1>3, CacheKinds
  <1>4. ASSUME NEW price \in OKXPrices, OKXPoll(price) PROVE ConfirmedByOKX'
    <2>0. /\ cached' = cached
          /\ quoted' = IF price > 0 THEN price ELSE quoted
          /\ confirmed' = IF cached # NoQuote /\ price > 0
                          THEN computeDeviationBps(cached.price, price) <= MaxDeviation
                          ELSE confirmed
      BY <1>4, OKXPollFacts
    <2> SUFFICES ASSUME confirmed' PROVE ConfirmedByOKX'
      BY DEF ConfirmedByOKX
    <2>a. CASE ~(cached # NoQuote /\ price > 0)
      <3>0. confirmed' = confirmed
        BY <2>0, <2>a
      <3>a. confirmed
        BY <3>0
      <3>1. confirmed /\ cached # NoQuote
        BY <3>a DEF ConfirmedByOKX
      <3>2. quoted' = quoted
        BY <2>0, <2>a, <3>1
      <3> QED  BY <2>0, <3>1, <3>2 DEF ConfirmedByOKX
    <2> SUFFICES ASSUME cached # NoQuote, price > 0 PROVE ConfirmedByOKX'
      BY <2>a
    <2>1. cached' = cached /\ quoted' = price
      BY <2>0
    <2>2. /\ cached # NoQuote /\ cached \in Quote
          /\ computeDeviationBps(cached.price, price) <= MaxDeviation
      BY <2>0 DEF TypeOK
    <2> DEFINE d == TrueDeviation(cached.price, price)
    <2>3. cached.price \in Nat /\ cached.price > 0 /\ price \in Nat /\ price > 0
      BY <2>2, QuoteFacts, DualFeedAssumption
    <2>4. d \in Nat
      BY <2>3, DeviationNatural
    <2>5. d % 65536 <= MaxDeviation /\ MaxDeviation \in Nat
      BY <2>2, DualFeedAssumption DEF computeDeviationBps
    <2> HIDE DEF d
    <2>6. d <= MaxDeviation \/ d > 65535
      BY <2>4, <2>5
    <2> USE DEF d
    <2>7. price # 0
      BY <2>3
    <2> QED  BY <2>1, <2>2, <2>6, <2>7 DEF ConfirmedByOKX
  <1>5. ASSUME NEW s \in Subscribers, Subscribe(s) PROVE ConfirmedByOKX'
    BY <1>1, <1>2, <1>5, SubscribeFacts
  <1>6. ASSUME (\E s \in Subscribers : removeSub(s)) \/ Close PROVE ConfirmedByOKX'
    BY <1>2, <1>6, RemoveFacts
  <1>7. ASSUME NEW g \in Gens, QuietMove(g) \/ PollFallback(g) \/ ReadIfStale(g)
        PROVE  ConfirmedByOKX'
    BY <1>2, <1>7, MoveFacts, ReadFacts
  <1>8. ASSUME NEW g \in Gens, TakeLog(g) PROVE ConfirmedByOKX'
    BY <1>3, <1>8, TakeLogFacts, ThreadFacts
  <1>9. ASSUME NEW t \in Threads, Publish(t) \/ Send(t) PROVE ConfirmedByOKX'
    BY <1>2, <1>3, <1>9, PublishFacts, SendFacts
  <1>10. ASSUME Environment \/ UNCHANGED vars PROVE ConfirmedByOKX'
    BY <1>2, <1>10, EnvironmentFacts
  <1> QED  BY <1>4, <1>5, <1>6, <1>7, <1>8, <1>9, <1>10, StepKinds

LEMMA LogStep == TypeOK /\ LogInv /\ [Next]_vars => LogInv'
  <1> SUFFICES ASSUME TypeOK, LogInv, [Next]_vars PROVE LogInv'
    OBVIOUS
  <1> DEFINE Logs(g) == \A i \in DOMAIN logs[g] : logs[g][i].from = "pool"
  <1>0. \A g \in Gens : Logs(g)
    BY DEF LogInv
  <1>1. ASSUME logs' = logs PROVE LogInv'
    BY <1>0, <1>1 DEF LogInv
  <1>2. ASSUME \E s \in Subscribers : Subscribe(s) \/ removeSub(s) PROVE LogInv'
    BY <1>1, <1>2, SubscribeFacts, RemoveFacts
  <1>3. CASE Close
    BY <1>1, <1>3, RemoveFacts
  <1>4. ASSUME NEW g \in Gens, QuietMove(g) PROVE LogInv'
    <2>1. \A h \in Gens : logs'[h] \in {logs[h], <<>>}
      BY <1>4, MoveFacts
    <2> QED  BY <1>0, <2>1 DEF LogInv
  <1>5. ASSUME NEW g \in Gens, PollFallback(g) \/ ReadIfStale(g) PROVE LogInv'
    BY <1>1, <1>5, ReadFacts
  <1>6. ASSUME NEW g \in Gens, TakeLog(g) PROVE LogInv'
    <2>1. /\ \A h \in Gens : h # g => logs'[h] = logs[h]
          /\ \A i \in DOMAIN logs'[g] : i + 1 \in DOMAIN logs[g] /\ logs'[g][i] = logs[g][i + 1]
      BY <1>6, TakeLogFacts
    <2> QED  BY <1>0, <2>1 DEF LogInv
  <1>7. ASSUME NEW t \in Threads, Publish(t) \/ Send(t) PROVE LogInv'
    BY <1>1, <1>7, PublishFacts, SendFacts
  <1>8. ASSUME NEW price \in OKXPrices, OKXPoll(price) PROVE LogInv'
    BY <1>1, <1>8, OKXPollFacts
  <1>9. ASSUME Environment \/ UNCHANGED vars PROVE LogInv'
    <2>1. CASE logs' = logs
      BY <1>1, <2>1
    <2>2. ASSUME pool' \in Quote, pool'.from = "pool", NEW g \in Gens,
                 logs'[g] \in {logs[g], Append(logs[g], pool')}
          PROVE  Logs(g)'
      <3>1. logs[g] \in Seq(Quote)
        BY DEF TypeOK
      <3>2. \A i \in DOMAIN Append(logs[g], pool') :
              \/ Append(logs[g], pool')[i] = pool'
              \/ i \in DOMAIN logs[g] /\ Append(logs[g], pool')[i] = logs[g][i]
        BY <2>2, <3>1, AppendFacts
      <3> QED  BY <1>0, <2>2, <3>2
    <2> QED  BY <1>9, <2>1, <2>2, EnvironmentFacts DEF LogInv
  <1> QED  BY <1>2, <1>3, <1>4, <1>5, <1>6, <1>7, <1>8, <1>9, StepKinds

LEMMA DeliveryInit == Init => DeliveryInv
  <1> SUFFICES ASSUME Init PROVE DeliveryInv
    OBVIOUS
  <1>1. by \notin Threads
    BY ThreadFacts DEF Init
  <1> QED  BY <1>1 DEF Init, DeliveryInv

LEMMA DeliveryStep == TypeOK /\ GenInv /\ DeliveryInv /\ [Next]_vars => DeliveryInv'
  <1> SUFFICES ASSUME TypeOK, GenInv, DeliveryInv, [Next]_vars PROVE DeliveryInv'
    OBVIOUS
  <1> DEFINE Unused(s) == chan[s] = "none" => last[s] = 0
             Own == by \in Threads => cached \in Quote /\ (phase[by] = "send" => val[by] = cached)
             Served(s) == \/ last[s] = cached.price
                          \/ s \in missed \cup overtaken
                          \/ by \in Threads /\ phase[by] = "send" /\ s \in targets[by]
  <1>0. (\A s \in Subscribers : Unused(s)) /\ Own /\ (\A s \in subs : Served(s))
    BY DEF DeliveryInv
  <1>a. \A s \in subs : s \in Subscribers
    BY DEF TypeOK
  <1>1. ASSUME \A s \in Subscribers : Unused(s)', Own', \A s \in subs' : Served(s)'
        PROVE  DeliveryInv'
    BY <1>1 DEF DeliveryInv
  <1>2. ASSUME ChansStay PROVE \A s \in Subscribers : Unused(s)'
    BY <1>0, <1>2 DEF ChansStay
  <1>3. ASSUME PricesStay, QuotesStay PROVE Own'
    BY <1>0, <1>3 DEF PricesStay, QuotesStay
  <1>4. ASSUME UNCHANGED <<cached, by>>, QuotesStay, NEW s \in subs, last'[s] = last[s],
               s \in missed \cup overtaken => s \in missed' \cup overtaken'
        PROVE  Served(s)'
    BY <1>0, <1>4 DEF QuotesStay
  <1>5. ASSUME UNCHANGED <<cached, by>>, QuotesStay, ChansStay PROVE DeliveryInv'
    <2>1. Own'
      BY <1>0, <1>5 DEF QuotesStay
    <2>2. \A s \in subs' : Served(s)'
      BY <1>4, <1>5 DEF ChansStay
    <2> QED  BY <1>1, <1>2, <1>5, <2>1, <2>2
  <1>6. ASSUME NEW t \in Threads, phase[t] # "send", NEW quote \in Quote, Cache(t, quote),
               ChansStay
        PROVE  DeliveryInv'
    <2>1. \A u \in Threads : u # t => /\ phase'[u] = phase[u] /\ val'[u] = val[u]
                                      /\ targets'[u] = targets[u]
      BY <1>6, CacheKinds
    <2>2. CASE PricesStay /\ phase'[t] = "idle" /\ targets' = targets
      <3>1. Own'
        BY <1>0, <2>1, <2>2 DEF PricesStay
      <3>2. \A s \in subs' : Served(s)'
        BY <1>0, <1>6, <2>1, <2>2 DEF PricesStay, ChansStay
      <3> QED  BY <1>1, <1>2, <1>6, <3>1, <3>2
    <2>3. CASE /\ phase'[t] = "send" /\ val'[t] = quote /\ targets'[t] = subs
               /\ cached' = quote /\ by' = t
      <3>1. Own'
        BY <2>3
      <3>2. \A s \in subs' : Served(s)'
        BY <1>6, <2>3 DEF ChansStay
      <3> QED  BY <1>1, <1>2, <1>6, <3>1, <3>2
    <2> QED  BY <1>6, <2>2, <2>3, CacheKinds
  <1>7. ASSUME NEW s \in Subscribers, Subscribe(s) PROVE DeliveryInv'
    <2>1. /\ chan[s] = "none" /\ chan' = [chan EXCEPT ![s] = "open"] /\ subs' = subs \cup {s}
          /\ QuotesStay /\ UNCHANGED <<last, overtaken, pool>>
          /\ missed' = IF cached' = NoQuote THEN missed ELSE missed \cup {s}
      BY <1>7, SubscribeFacts
    <2>2. \A x \in Subscribers : Unused(x)'
      BY <1>0, <2>1 DEF TypeOK
    <2>3. last[s] = 0
      BY <1>0, <2>1
    <2>4. Served(s)'
      <3>1. cached' = NoQuote => cached'.price = 0
        BY QuoteFacts
      <3> QED  BY <2>1, <2>3, <3>1
    <2>5. CASE PricesStay
      <3>1. \A x \in subs : Served(x)'
        BY <1>4, <2>1, <2>5 DEF PricesStay
      <3> QED  BY <1>1, <1>3, <2>1, <2>2, <2>4, <2>5, <3>1
    <2>6. CASE active = NoGen /\ by' = NoThread
      <3>1. subs' = {s}
        BY <2>1, <2>6 DEF GenInv
      <3>2. Own'
        BY <2>6, ThreadFacts
      <3> QED  BY <1>1, <2>2, <2>4, <3>1, <3>2
    <2> QED  BY <1>7, <2>5, <2>6, SubscribeFacts
  <1>8. ASSUME (\E s \in Subscribers : removeSub(s)) \/ Close PROVE DeliveryInv'
    <2>1. /\ PricesStay /\ QuotesStay /\ subs' \subseteq subs
          /\ \A s \in subs' : /\ last'[s] = last[s]
                              /\ s \in missed \cup overtaken => s \in missed' \cup overtaken'
          /\ \A s \in Subscribers : /\ chan'[s] = "none" => chan[s] = "none"
                                    /\ last'[s] \in {last[s], 0}
      BY <1>8, RemoveFacts
    <2>2. \A s \in Subscribers : Unused(s)'
      BY <1>0, <2>1
    <2>3. \A s \in subs' : Served(s)'
      BY <1>4, <2>1 DEF PricesStay
    <2> QED  BY <1>1, <1>3, <2>1, <2>2, <2>3
  <1>9. ASSUME NEW g \in Gens, QuietMove(g) PROVE DeliveryInv'
    BY <1>5, <1>9, MoveFacts DEF PricesStay
  <1>10. ASSUME NEW g \in Gens, PollFallback(g) \/ ReadIfStale(g) PROVE DeliveryInv'
    <2>1. PricesStay /\ ChansStay /\ targets' = targets
      BY <1>10, ReadFacts
    <2>2. PICK t \in Threads :
            /\ phase[t] = "idle" /\ phase'[t] = "read"
            /\ \A u \in Threads : u # t => phase'[u] = phase[u] /\ val'[u] = val[u]
      BY <1>10, ReadFacts
    <2>3. Own'
      BY <1>0, <2>1, <2>2 DEF PricesStay
    <2>4. \A s \in subs' : Served(s)'
      BY <1>0, <2>1, <2>2 DEF PricesStay, ChansStay
    <2> QED  BY <1>1, <1>2, <2>1, <2>3, <2>4
  <1>11. ASSUME NEW g \in Gens, TakeLog(g) PROVE DeliveryInv'
    <2>1. /\ phase[Swaps(g)] = "idle" /\ Head(logs[g]) \in Quote
          /\ Cache(Swaps(g), Head(logs[g])) /\ ChansStay
      BY <1>11, TakeLogFacts
    <2> QED  BY <1>6, <2>1, ThreadFacts
  <1>12. ASSUME NEW t \in Threads, Publish(t) PROVE DeliveryInv'
    <2>1. phase[t] = "read" /\ val[t] \in Quote /\ Cache(t, val[t]) /\ ChansStay
      BY <1>12, PublishFacts
    <2> QED  BY <1>6, <2>1
  <1>13. ASSUME NEW t \in Threads, Send(t) PROVE DeliveryInv'
    <2>1. PricesStay /\ phase[t] = "send" /\ UNCHANGED <<subs, chan>>
      BY <1>13, SendFacts
    <2>2. CASE QuotesStay /\ UNCHANGED <<last, missed, overtaken>>
      BY <1>5, <2>1, <2>2 DEF PricesStay, ChansStay
    <2>3. CASE /\ phase'[t] = "idle"
               /\ \A u \in Threads : u # t => /\ phase'[u] = phase[u] /\ val'[u] = val[u]
                                              /\ targets'[u] = targets[u]
               /\ \A s \in targets[t] : /\ chan[s] = "open"
                                        /\ \/ last'[s] = val[t].price
                                           \/ t = by /\ s \in missed'
                                           \/ t # by /\ last'[s] = last[s]
                                        /\ t # by => \/ s \in overtaken'
                                                     \/ /\ last'[s] = last[s]
                                                        /\ s \in missed => s \in missed'
                                                        /\ s \in overtaken => s \in overtaken'
               /\ \A s \in Subscribers \ targets[t] :
                    /\ last'[s] = last[s]
                    /\ s \in missed \cup overtaken => s \in missed' \cup overtaken'
      <3>1. Own'
        BY <1>0, <2>1, <2>3 DEF PricesStay
      <3>2. \A s \in Subscribers : Unused(s)'
        BY <1>0, <2>1, <2>3
      <3>3. ASSUME NEW s \in subs PROVE Served(s)'
        <4>1. CASE s \notin targets[t]
          BY <1>0, <1>a, <2>1, <2>3, <4>1 DEF PricesStay
        <4>2. CASE s \in targets[t] /\ t = by
          <5>1. val[t] = cached
            BY <1>0, <2>1, <4>2
          <5> QED  BY <2>1, <2>3, <4>2, <5>1 DEF PricesStay
        <4>3. CASE s \in targets[t] /\ t # by
          BY <1>0, <2>1, <2>3, <4>3 DEF PricesStay
        <4> QED  BY <4>1, <4>2, <4>3
      <3> QED  BY <1>1, <2>1, <3>1, <3>2, <3>3
    <2> QED  BY <1>13, <2>2, <2>3, SendFacts
  <1>14. ASSUME NEW price \in OKXPrices, OKXPoll(price) PROVE DeliveryInv'
    BY <1>5, <1>14, OKXPollFacts
  <1>15. ASSUME Environment \/ UNCHANGED vars PROVE DeliveryInv'
    BY <1>5, <1>15, EnvironmentFacts DEF PricesStay
  <1> QED  BY <1>7, <1>8, <1>9, <1>10, <1>11, <1>12, <1>13, <1>14, <1>15, StepKinds

-----------------------------------------------------------------------------
(* The order of the prices of one goroutine.                                *)

(* What a goroutine has read is not older than what it published last.      *)
ReadLater(t) ==
    phase[t] = "read" =>
        /\ NotAhead(val[t])
        /\ by = t /\ OfPool(cached) /\ OfPool(val[t]) =>
             val[t].move > cached.move \/ val[t] = cached

(* Logs wait in their order.                                                *)
LogsInOrder(g) ==
    \A i, j \in DOMAIN logs[g] :
        NotAhead(logs[g][i]) /\ (i < j => logs[g][i].move < logs[g][j].move)

(* They are younger than what the goroutine that takes them published last. *)
LogsLater(g) ==
    at[Swaps(g)] = "listen" =>
        /\ phase[Swaps(g)] # "read"
        /\ by = Swaps(g) /\ OfPool(cached) =>
             \A i \in DOMAIN logs[g] : logs[g][i].move > cached.move

LEMMA OrderParts ==
    OrderInv <=> /\ NotAhead(cached)
                 /\ \A t \in Threads : ReadLater(t)
                 /\ \A g \in Gens : LogsInOrder(g)
                 /\ \A g \in Gens : LogsLater(g)
  BY DEF OrderInv, ReadLater, LogsInOrder, LogsLater

LEMMA OrderPartsNext ==
    ASSUME NotAhead(cached)', \A t \in Threads : ReadLater(t)',
           \A g \in Gens : LogsInOrder(g)', \A g \in Gens : LogsLater(g)'
    PROVE  OrderInv'
  BY DEF OrderInv, ReadLater, LogsInOrder, LogsLater

LEMMA OrderInit == Init => OrderInv
  <1> SUFFICES ASSUME Init PROVE OrderInv
    OBVIOUS
  <1>1. NotAhead(cached)
    BY DEF Init, NotAhead, OfPool, NoQuote
  <1>2. ASSUME NEW t \in Threads PROVE ReadLater(t)
    BY <1>2 DEF Init, ReadLater
  <1>3. ASSUME NEW g \in Gens PROVE LogsInOrder(g) /\ LogsLater(g)
    <2>1. logs[g] = <<>> /\ at[Swaps(g)] = "none"
      BY <1>3, ThreadFacts DEF Init
    <2> QED  BY <2>1 DEF LogsInOrder, LogsLater
  <1> QED  BY <1>1, <1>2, <1>3, OrderParts

(* A new cached price of the goroutine that also published the last one.    *)
LEMMA CacheOrder ==
    ASSUME TypeOK, OrderInv, UNCHANGED pool,
           NEW t \in Threads, NEW quote \in Quote, Cache(t, quote), NotAhead(quote)
    PROVE  NotAhead(cached)' /\ \A u \in Threads : ReadLater(u)'
  <1>1. \A u \in Threads : u # t => phase'[u] = phase[u] /\ val'[u] = val[u]
    BY CacheKinds
  <1>2. NotAhead(cached) /\ \A u \in Threads : ReadLater(u)
    BY OrderParts
  <1>3. CASE PricesStay /\ phase'[t] = "idle"
    BY <1>1, <1>2, <1>3 DEF PricesStay, NotAhead, ReadLater
  <1>4. CASE phase'[t] = "send" /\ cached' = quote /\ by' = t
    BY <1>1, <1>2, <1>4 DEF NotAhead, ReadLater
  <1> QED  BY <1>3, <1>4, CacheKinds

LEMMA OrderStep == TypeOK /\ LogInv /\ OrderInv /\ [Next]_vars => OrderInv'
  <1> SUFFICES ASSUME TypeOK, LogInv, OrderInv, [Next]_vars PROVE OrderInv'
    OBVIOUS
  <1>0. /\ NotAhead(cached)
        /\ \A t \in Threads : ReadLater(t)
        /\ \A g \in Gens : LogsInOrder(g)
        /\ \A g \in Gens : LogsLater(g)
    BY OrderParts
  <1>1. ASSUME UNCHANGED <<cached, pool>> PROVE NotAhead(cached)'
    BY <1>0, <1>1 DEF NotAhead
  <1>2. ASSUME UNCHANGED <<cached, pool, by>>, NEW t \in Threads,
               UNCHANGED <<phase[t], val[t]>>
        PROVE  ReadLater(t)'
    BY <1>0, <1>2 DEF ReadLater, NotAhead
  <1>3. ASSUME UNCHANGED pool, NEW g \in Gens, logs'[g] \in {logs[g], <<>>}
        PROVE  LogsInOrder(g)'
    BY <1>0, <1>3 DEF LogsInOrder, NotAhead
  <1>4. ASSUME UNCHANGED <<cached, by>>, NEW g \in Gens,
               at'[Swaps(g)] = "listen" =>
                 /\ phase'[Swaps(g)] # "read"
                 /\ \/ logs'[g] = <<>>
                    \/ at[Swaps(g)] = "listen" /\ logs'[g] = logs[g]
        PROVE  LogsLater(g)'
    BY <1>0, <1>4 DEF LogsLater
  <1>5. ASSUME UNCHANGED <<cached, by, pool, logs, at>>, QuotesStay PROVE OrderInv'
    BY <1>5 DEF QuotesStay, OrderInv, NotAhead
  <1>6. ASSUME NEW s \in Subscribers, Subscribe(s) PROVE OrderInv'
    <2>1. /\ QuotesStay /\ UNCHANGED <<logs, pool>>
          /\ \A g \in Gens : at'[Swaps(g)] = "listen" => at[Swaps(g)] = "listen"
      BY <1>6, SubscribeFacts, ThreadFacts
    <2>2. \A g \in Gens : LogsInOrder(g)'
      BY <1>3, <2>1
    <2>3. CASE PricesStay
      <3>1. \A t \in Threads : ReadLater(t)'
        BY <1>2, <2>1, <2>3 DEF PricesStay, QuotesStay
      <3>2. \A g \in Gens : LogsLater(g)'
        BY <1>0, <2>1, <2>3 DEF PricesStay, QuotesStay, LogsLater
      <3> QED  BY <1>1, <2>1, <2>2, <2>3, <3>1, <3>2, OrderPartsNext DEF PricesStay
    <2>4. CASE cached' = pool /\ by' = NoThread
      <3>1. \A t \in Threads : ReadLater(t)'
        BY <1>0, <2>1, <2>4, ThreadFacts DEF QuotesStay, ReadLater, NotAhead
      <3>2. \A g \in Gens : LogsLater(g)'
        BY <1>0, <2>1, <2>4, ThreadFacts DEF QuotesStay, LogsLater
      <3>3. NotAhead(cached)'
        BY <2>1, <2>4 DEF NotAhead
      <3> QED  BY <2>2, <3>1, <3>2, <3>3, OrderPartsNext
    <2> QED  BY <1>6, <2>3, <2>4, SubscribeFacts
  <1>7. ASSUME (\E s \in Subscribers : removeSub(s)) \/ Close PROVE OrderInv'
    BY <1>5, <1>7, RemoveFacts DEF PricesStay
  <1>8. ASSUME NEW g \in Gens, QuietMove(g) PROVE OrderInv'
    <2>1. /\ UNCHANGED <<cached, by, pool>> /\ QuotesStay
          /\ \A h \in Gens : logs'[h] \in {logs[h], <<>>}
          /\ \A h \in Gens : at'[Swaps(h)] = "listen" =>
               \/ at[Swaps(h)] = "listen" /\ logs'[h] = logs[h]
               \/ phase[Swaps(h)] = "idle" /\ logs'[h] = <<>>
      BY <1>8, MoveFacts DEF PricesStay
    <2>2. \A t \in Threads : ReadLater(t)'
      BY <1>2, <2>1 DEF QuotesStay
    <2>3. \A h \in Gens : LogsInOrder(h)'
      BY <1>3, <2>1
    <2>4. \A h \in Gens : LogsLater(h)'
      <3>1. \A h \in Gens : at[Swaps(h)] = "listen" => phase[Swaps(h)] # "read"
        BY <1>0 DEF LogsLater
      <3> QED  BY <1>4, <2>1, <3>1 DEF QuotesStay
    <2> QED  BY <1>1, <2>1, <2>2, <2>3, <2>4, OrderPartsNext
  <1>9. ASSUME NEW g \in Gens, PollFallback(g) \/ ReadIfStale(g) PROVE OrderInv'
    <2>1. /\ UNCHANGED <<cached, by, pool, logs>>
          /\ \A h \in Gens : at'[Swaps(h)] = "listen" =>
               at[Swaps(h)] = "listen" /\ phase'[Swaps(h)] = phase[Swaps(h)]
      BY <1>9, ReadFacts DEF PricesStay
    <2>2. PICK t \in Threads :
            /\ \/ val'[t] = pool
               \/ val'[t].from = "okx"
            /\ \A u \in Threads : u # t => phase'[u] = phase[u] /\ val'[u] = val[u]
      BY <1>9, ReadFacts
    <2>3. ReadLater(t)'
      BY <1>0, <2>1, <2>2 DEF ReadLater, NotAhead, OfPool
    <2>4. \A u \in Threads : ReadLater(u)'
      BY <1>2, <2>1, <2>2, <2>3
    <2>5. \A h \in Gens : LogsLater(h)'
      BY <1>0, <2>1 DEF LogsLater
    <2>6. \A h \in Gens : LogsInOrder(h)'
      BY <1>3, <2>1
    <2> QED  BY <1>1, <2>1, <2>4, <2>5, <2>6, OrderPartsNext
  <1>10. ASSUME NEW g \in Gens, TakeLog(g) PROVE OrderInv'
    <2> DEFINE t     == Swaps(g)
               quote == Head(logs[g])
    <2>1. /\ at[t] = "listen" /\ phase[t] = "idle"
          /\ quote \in Quote /\ quote = logs[g][1] /\ 1 \in DOMAIN logs[g]
          /\ \A h \in Gens : h # g => logs'[h] = logs[h]
          /\ \A i \in DOMAIN logs'[g] : i + 1 \in DOMAIN logs[g] /\ i \in Nat
                                          /\ i >= 1 /\ logs'[g][i] = logs[g][i + 1]
          /\ Cache(t, quote) /\ UNCHANGED <<pool, at>>
      BY <1>10, TakeLogFacts
    <2>2. t \in Threads /\ \A h \in Gens : Swaps(h) \in Threads /\ (h # g => Swaps(h) # t)
      BY ThreadFacts
    <2>3. LogsInOrder(g) /\ NotAhead(quote)
      BY <1>0, <2>1 DEF LogsInOrder
    <2> HIDE DEF t, quote
    <2>4. NotAhead(cached)' /\ \A u \in Threads : ReadLater(u)'
      BY <2>1, <2>2, <2>3, CacheOrder
    <2>5. \A h \in Gens : LogsInOrder(h)'
      <3>1. ASSUME NEW i \in DOMAIN logs'[g], NEW j \in DOMAIN logs'[g]
            PROVE  NotAhead(logs[g][i])' /\ (i < j => logs'[g][i].move < logs'[g][j].move)
        <4>1. /\ i + 1 \in DOMAIN logs[g] /\ j + 1 \in DOMAIN logs[g]
              /\ i \in Nat /\ j \in Nat
              /\ logs'[g][i] = logs[g][i + 1] /\ logs'[g][j] = logs[g][j + 1]
          BY <2>1
        <4>2. /\ NotAhead(logs[g][i + 1])
              /\ i + 1 < j + 1 => logs[g][i + 1].move < logs[g][j + 1].move
          BY <2>3, <4>1 DEF LogsInOrder
        <4> QED  BY <2>1, <4>1, <4>2 DEF NotAhead
      <3>2. LogsInOrder(g)'
        BY <3>1 DEF LogsInOrder
      <3> QED  BY <1>3, <2>1, <3>2
    <2>6. \A h \in Gens : h # g => LogsLater(h)'
      <3>1. \A h \in Gens : h # g => /\ phase'[Swaps(h)] = phase[Swaps(h)]
                                     /\ UNCHANGED <<at[Swaps(h)], logs[h]>>
        BY <2>1, <2>2, CacheKinds
      <3>2. CASE PricesStay
        BY <1>0, <3>1, <3>2 DEF PricesStay, LogsLater
      <3>3. CASE by' = t
        BY <1>0, <2>2, <3>1, <3>3 DEF LogsLater
      <3> QED  BY <2>1, <2>2, <3>2, <3>3, CacheKinds
    <2>7. LogsLater(g)'
      <3>1. phase'[t] # "read" /\ t = Swaps(g)
        BY <2>1, <2>2, CacheKinds DEF t
      <3>2. CASE PricesStay
        <4>1. ASSUME by = t, OfPool(cached), NEW i \in DOMAIN logs'[g]
              PROVE  logs'[g][i].move > cached.move
          <5>1. \A j \in DOMAIN logs[g] : logs[g][j].move > cached.move
            BY <1>0, <2>1, <3>1, <4>1 DEF LogsLater
          <5> QED  BY <2>1, <4>1, <5>1
        <4> QED  BY <3>1, <3>2, <4>1 DEF PricesStay, LogsLater, OfPool
      <3>3. CASE cached' = quote
        <4>1. ASSUME NEW i \in DOMAIN logs'[g] PROVE logs'[g][i].move > quote.move
          <5>1. i + 1 \in DOMAIN logs[g] /\ 1 < i + 1 /\ logs'[g][i] = logs[g][i + 1]
            BY <2>1
          <5>2. logs[g][1].move < logs[g][i + 1].move
            BY <2>1, <2>3, <5>1 DEF LogsInOrder
          <5>3. \A k \in DOMAIN logs[g] : logs[g][k].move \in Nat
            BY QuoteFacts DEF TypeOK
          <5> QED  BY <2>1, <5>1, <5>2, <5>3
        <4> QED  BY <3>1, <3>3, <4>1 DEF LogsLater
      <3> QED  BY <2>1, <2>2, <3>2, <3>3, CacheKinds
    <2> QED  BY <2>4, <2>5, <2>6, <2>7, OrderPartsNext
  <1>11. ASSUME NEW t \in Threads, Publish(t) PROVE OrderInv'
    <2>1. /\ phase[t] = "read" /\ val[t] \in Quote /\ Cache(t, val[t])
          /\ UNCHANGED <<logs, pool, at>>
      BY <1>11, PublishFacts
    <2>2. NotAhead(val[t])
      BY <1>0, <2>1 DEF ReadLater
    <2>3. NotAhead(cached)' /\ \A u \in Threads : ReadLater(u)'
      BY <2>1, <2>2, CacheOrder
    <2>4. \A g \in Gens : LogsInOrder(g)'
      BY <1>3, <2>1
    <2>5. ASSUME NEW g \in Gens PROVE LogsLater(g)'
      <3>1. Swaps(g) \in Threads
        BY ThreadFacts
      <3>2. CASE Swaps(g) = t
        BY <1>0, <2>1, <3>2 DEF LogsLater
      <3>3. CASE Swaps(g) # t
        <4>1. phase'[Swaps(g)] = phase[Swaps(g)] /\ (PricesStay \/ by' = t)
          BY <2>1, <3>1, <3>3, CacheKinds
        <4> QED  BY <1>0, <2>1, <3>3, <4>1 DEF PricesStay, LogsLater
      <3> QED  BY <3>2, <3>3
    <2> QED  BY <2>3, <2>4, <2>5, OrderPartsNext
  <1>12. ASSUME NEW t \in Threads, Send(t) PROVE OrderInv'
    <2>1. UNCHANGED <<cached, by, logs, pool, at>>
      BY <1>12, SendFacts DEF PricesStay
    <2>2. \/ QuotesStay
          \/ /\ phase'[t] = "idle"
             /\ \A u \in Threads : u # t => phase'[u] = phase[u] /\ val'[u] = val[u]
      BY <1>12, SendFacts
    <2>3. CASE QuotesStay
      BY <1>5, <2>1, <2>3
    <2>4. CASE /\ phase'[t] = "idle"
               /\ \A u \in Threads : u # t => phase'[u] = phase[u] /\ val'[u] = val[u]
      <3>1. ReadLater(t)'
        BY <2>4 DEF ReadLater
      <3>2. \A u \in Threads : ReadLater(u)'
        BY <1>2, <2>1, <2>4, <3>1
      <3>3. \A g \in Gens : LogsInOrder(g)'
        BY <1>3, <2>1
      <3>4. \A g \in Gens : LogsLater(g)'
        <4>1. \A g \in Gens : Swaps(g) \in Threads
          BY ThreadFacts
        <4>2. \A g \in Gens : phase'[Swaps(g)] \in {"idle", phase[Swaps(g)]}
          BY <2>4, <4>1
        <4> QED  BY <1>0, <2>1, <4>2 DEF LogsLater
      <3> QED  BY <1>1, <2>1, <3>2, <3>3, <3>4, OrderPartsNext
    <2> QED  BY <2>2, <2>3, <2>4
  <1>13. ASSUME NEW price \in OKXPrices, OKXPoll(price) PROVE OrderInv'
    BY <1>5, <1>13, OKXPollFacts
  <1>14. ASSUME Environment \/ UNCHANGED vars PROVE OrderInv'
    <2>1. QuotesStay /\ UNCHANGED <<cached, by, at>>
      BY <1>14, EnvironmentFacts DEF PricesStay
    <2>2. CASE UNCHANGED <<pool, logs>>
      BY <1>5, <2>1, <2>2
    <2>3. CASE /\ pool' \in Quote /\ pool'.from = "pool" /\ pool'.move = pool.move + 1
               /\ \A g \in Gens : logs'[g] \in {logs[g], Append(logs[g], pool')}
      <3>1. pool.move \in Nat /\ pool'.move \in Nat
        BY <2>3, QuoteFacts DEF TypeOK
      <3>2. ASSUME NEW q \in Quote \cup {NoQuote}, NotAhead(q)
            PROVE  /\ OfPool(q) => q.move \in Nat /\ q.move < pool'.move
        <4>1. OfPool(q) => q \in Quote
          BY QuoteFacts DEF OfPool
        <4>2. q \in Quote => q.move \in Nat
          BY QuoteFacts
        <4> QED  BY <2>3, <3>1, <3>2, <4>1, <4>2 DEF NotAhead
      <3>3. NotAhead(cached)'
        BY <1>0, <2>1, <3>2 DEF NotAhead, TypeOK
      <3>4. ASSUME NEW t \in Threads PROVE ReadLater(t)'
        <4>1. phase[t] = "read" => val[t] \in Quote
          BY DEF TypeOK
        <4> QED  BY <1>0, <2>1, <3>2, <4>1 DEF QuotesStay, ReadLater, NotAhead
      <3>5. ASSUME NEW g \in Gens PROVE LogsInOrder(g)' /\ LogsLater(g)'
        <4>1. logs[g] \in Seq(Quote) /\ DOMAIN logs[g] = 1..Len(logs[g]) /\ Len(logs[g]) \in Nat
          BY DEF TypeOK
        <4>2. ASSUME NEW i \in DOMAIN logs[g]
              PROVE  /\ logs[g][i] \in Quote /\ logs[g][i].move \in Nat
                     /\ logs[g][i].move < pool'.move
          <5>1. logs[g][i] \in Quote
            BY <4>1
          <5>2. NotAhead(logs[g][i]) /\ OfPool(logs[g][i])
            BY <1>0, <5>1, QuoteFacts DEF LogsInOrder, LogInv, OfPool
          <5> QED  BY <3>2, <5>1, <5>2
        <4>3. CASE logs'[g] = logs[g]
          <5>1. LogsInOrder(g)'
            BY <1>0, <3>2, <4>2, <4>3 DEF LogsInOrder, NotAhead
          <5>2. LogsLater(g)'
            BY <1>0, <2>1, <4>3 DEF QuotesStay, LogsLater
          <5> QED  BY <5>1, <5>2
        <4>4. CASE logs'[g] = Append(logs[g], pool')
          <5>1. \A i \in DOMAIN logs'[g] :
                  \/ i = Len(logs[g]) + 1 /\ logs'[g][i] = pool'
                  \/ /\ i \in DOMAIN logs[g] /\ i \in Nat /\ i <= Len(logs[g])
                     /\ logs'[g][i] = logs[g][i]
            BY <2>3, <4>1, <4>4, AppendFacts
          <5>2. ASSUME NEW i \in DOMAIN logs'[g] PROVE NotAhead(logs[g][i])'
            BY <4>2, <5>1 DEF NotAhead
          <5>3. ASSUME NEW i \in DOMAIN logs'[g], NEW j \in DOMAIN logs'[g], i < j
                PROVE  logs'[g][i].move < logs'[g][j].move
            <6>1. i \in DOMAIN logs[g] /\ i \in Nat /\ logs'[g][i] = logs[g][i]
              BY <4>1, <5>1, <5>3
            <6>2. CASE j \in DOMAIN logs[g] /\ logs'[g][j] = logs[g][j]
              <7>1. LogsInOrder(g)
                BY <1>0
              <7>2. logs[g][i].move < logs[g][j].move
                BY <5>3, <6>1, <6>2, <7>1 DEF LogsInOrder
              <7> QED  BY <6>1, <6>2, <7>2
            <6>3. CASE logs'[g][j] = pool'
              BY <4>2, <6>1, <6>3
            <6> QED  BY <5>1, <6>2, <6>3
          <5>4. LogsInOrder(g)'
            BY <5>2, <5>3 DEF LogsInOrder
          <5>5. LogsLater(g)'
            <6>1. OfPool(cached) => cached.move \in Nat /\ cached.move < pool'.move
              BY <1>0, <3>2 DEF TypeOK
            <6>2. ASSUME at[Swaps(g)] = "listen", by = Swaps(g), OfPool(cached),
                         NEW i \in DOMAIN logs'[g]
                  PROVE  logs'[g][i].move > cached.move
              <7>1. CASE logs'[g][i] = pool'
                BY <3>1, <6>1, <6>2, <7>1
              <7>2. CASE i \in DOMAIN logs[g] /\ logs'[g][i] = logs[g][i]
                BY <1>0, <6>2, <7>2 DEF LogsLater
              <7> QED  BY <5>1, <6>2, <7>1, <7>2
            <6> QED  BY <1>0, <2>1, <6>2 DEF QuotesStay, LogsLater, OfPool
          <5> QED  BY <5>4, <5>5
        <4> QED  BY <2>3, <4>3, <4>4
      <3> QED  BY <3>3, <3>4, <3>5, OrderPartsNext
    <2> QED  BY <1>14, <2>2, <2>3, EnvironmentFacts
  <1> QED  BY <1>6, <1>7, <1>8, <1>9, <1>10, <1>11, <1>12, <1>13, <1>14, StepKinds

-----------------------------------------------------------------------------
(* The theorems.                                                            *)

(* The feed keeps its types.                                                *)
THEOREM TypeCorrect == Spec => []TypeOK
  <1> QED  BY TypeInit, TypeStep, PTL DEF Spec

(* subs, active and the goroutines: only the generation that active names   *)
(* goes on, both its goroutines run, and it is there exactly when           *)
(* somebody subscribes.                                                     *)
THEOREM ListenersFollowSubscribers == Spec => []WatchedIffSubscribed
  <1>1. TypeOK /\ GenInv => WatchedIffSubscribed
    <2> SUFFICES ASSUME TypeOK, GenInv PROVE WatchedIffSubscribed
      OBVIOUS
    <2>1. ASSUME NEW t \in Threads
          PROVE  Running(t) /\ t[1] \notin cancelled <=> t[1] = active
      <3>1. t[1] \in Gens /\ t[1] # NoGen /\ t[1] \in Nat
        BY ThreadFacts
      <3>2. t[1] \in cancelled <=> t[1] <= made /\ t[1] # active
        BY <3>1 DEF GenInv
      <3>3. made \in Nat /\ (active # NoGen => active = made)
        BY DualFeedAssumption DEF TypeOK, GenInv
      <3>4. (at[t] = "none" <=> t[1] > made) /\ (at[t] = "ended" => t[1] \in cancelled)
        BY DEF GenInv
      <3>5. CASE t[1] = active
        BY <3>1, <3>2, <3>3, <3>4, <3>5 DEF Running
      <3>6. CASE t[1] # active
        BY <3>1, <3>2, <3>3, <3>4, <3>6 DEF Running
      <3> QED  BY <3>5, <3>6
    <2> QED  BY <2>1 DEF GenInv, WatchedIffSubscribed
  <1> QED  BY TypeInit, TypeStep, GenInit, GenStep, <1>1, PTL DEF Spec

(* publishPrice brings each subscriber the cached price, but for the        *)
(* reasons UpToDate lists; the two goroutines that publish may overlap.     *)
THEOREM SubscribersAreUpToDate == Spec => []UpToDate
  <1>1. DeliveryInv => UpToDate
    BY DEF DeliveryInv, UpToDate
  <1> QED  BY TypeInit, TypeStep, GenInit, GenStep, DeliveryInit, DeliveryStep, <1>1, PTL
           DEF Spec

(* What "onchain+okx" says of the cached price is true of OKX's last        *)
(* positive quote, up to the 16 bits of computeDeviationBps.                *)
THEOREM ConfirmationIsTrue == Spec => []ConfirmedByOKX
  <1>1. Init => ConfirmedByOKX
    BY DEF Init, ConfirmedByOKX
  <1> QED  BY <1>1, TypeInit, TypeStep, ConfirmedStep, PTL DEF Spec

LEMMA LogInit == Init => LogInv
  BY DEF Init, LogInv

LEMMA CachedOrder ==
    ASSUME TypeOK, DeliveryInv, OrderInv, [Next]_vars,
           cached' # cached, by' = by, cached.from = "pool", cached'.from = "pool"
    PROVE  cached'.move > cached.move \/ by = NoThread
  <1>1. CASE by \notin Threads
    BY <1>1 DEF TypeOK
  <1>2. CASE by \in Threads
    <2>1. OfPool(cached)
      BY <1>2, QuoteFacts DEF DeliveryInv, OfPool
    <2>2. ~PricesStay
      BY DEF PricesStay
    <2>3. ASSUME NEW g \in Gens, TakeLog(g) PROVE cached'.move > cached.move
      <3>1. /\ at[Swaps(g)] = "listen" /\ Head(logs[g]) \in Quote
            /\ Head(logs[g]) = logs[g][1] /\ 1 \in DOMAIN logs[g]
            /\ Cache(Swaps(g), Head(logs[g]))
        BY <2>3, TakeLogFacts
      <3>2. cached' = Head(logs[g]) /\ by' = Swaps(g)
        BY <2>2, <3>1, CacheKinds, ThreadFacts
      <3>3. LogsLater(g)
        BY OrderParts
      <3> QED  BY <2>1, <3>1, <3>2, <3>3 DEF LogsLater
    <2>4. ASSUME NEW t \in Threads, Publish(t) PROVE cached'.move > cached.move
      <3>1. phase[t] = "read" /\ val[t] \in Quote /\ Cache(t, val[t])
        BY <2>4, PublishFacts
      <3>2. cached' = val[t] /\ by' = t
        BY <2>2, <3>1, CacheKinds
      <3>3. ReadLater(t) /\ OfPool(val[t])
        BY <3>1, <3>2, QuoteFacts, OrderParts DEF OfPool
      <3> QED  BY <2>1, <3>1, <3>2, <3>3 DEF ReadLater
    <2>5. ASSUME NEW s \in Subscribers, Subscribe(s) PROVE FALSE
      BY <1>2, <2>2, <2>5, SubscribeFacts, ThreadFacts
    <2>6. ASSUME NEW g \in Gens, QuietMove(g) \/ PollFallback(g) \/ ReadIfStale(g) PROVE FALSE
      BY <2>2, <2>6, MoveFacts, ReadFacts
    <2>7. ASSUME (\E s \in Subscribers : removeSub(s)) \/ Close PROVE FALSE
      BY <2>2, <2>7, RemoveFacts
    <2>8. ASSUME NEW t \in Threads, Send(t) PROVE FALSE
      BY <2>2, <2>8, SendFacts
    <2>9. ASSUME NEW price \in OKXPrices, OKXPoll(price) PROVE FALSE
      BY <2>9, OKXPollFacts
    <2>10. ASSUME Environment \/ UNCHANGED vars PROVE FALSE
      BY <2>2, <2>10, EnvironmentFacts
    <2> QED  BY <2>3, <2>4, <2>5, <2>6, <2>7, <2>8, <2>9, <2>10, StepKinds
  <1> QED  BY <1>1, <1>2

(* Over any loss of the event subscription, reorganization and delay, one   *)
(* goroutine never replaces a price of the pool it published by an older.   *)
THEOREM OneGoroutineStaysInOrder == Spec => OlderOnlyFromAnother
  <1> DEFINE Forward ==
               cached' # cached /\ by' = by /\ cached.from = "pool" /\ cached'.from = "pool"
                 => cached'.move > cached.move \/ by = NoThread
  <1>1. TypeOK /\ DeliveryInv /\ OrderInv /\ [Next]_vars => [Forward]_vars
    BY CachedOrder
  <1> HIDE DEF Forward
  <1>2. Spec => [][Forward]_vars
    BY <1>1, TypeInit, TypeStep, GenInit, GenStep, DeliveryInit, DeliveryStep, LogInit,
       LogStep, OrderInit, OrderStep, PTL DEF Spec
  <1> USE DEF Forward
  <1> QED  BY <1>2 DEF OlderOnlyFromAnother
=============================================================================
