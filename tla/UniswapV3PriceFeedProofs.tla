---------------------- MODULE UniswapV3PriceFeedProofs ----------------------
(****************************************************************************)
(* The safety properties of UniswapV3PriceFeed, for any number of           *)
(* subscribers, prices, loops and buffer slots.                             *)
(****************************************************************************)
EXTENDS UniswapV3PriceFeed, SequenceTheorems, TLAPS

LEMMA TypeInit == Init => TypeOK
<1> SUFFICES ASSUME Init PROVE TypeOK
  OBVIOUS
<1>1. 0 \in 0..MaxMoves /\ 0 \in 0..MaxLoops /\ 0 <= Cap
  BY FeedAssumption
<1>2. pool \in Quote
  BY <1>1 DEF Init, Quote
<1>3. buf \in [Subscribers -> Seq(Prices)] /\ \A s \in Subscribers : Len(buf[s]) <= Cap
  BY <1>1 DEF Init
<1> QED BY <1>1, <1>2, <1>3 DEF Init, TypeOK, NoLoop

LEMMA TypeStep == TypeOK /\ [Next]_vars => TypeOK'
<1> SUFFICES ASSUME TypeOK, [Next]_vars PROVE TypeOK'
  OBVIOUS
<1> USE DEF TypeOK, Loops, NoLoop
<1>1. ASSUME NEW s \in Subscribers, Subscribe(s) PROVE TypeOK'
  <2>1. CASE alreadyPolling
    BY <1>1, <2>1 DEF Subscribe
  <2>2. CASE ~alreadyPolling
    <3>1. made' \in 0..MaxLoops /\ made' \in Loops
      BY <1>1, <2>2, FeedAssumption DEF Subscribe
    <3> QED BY <1>1, <2>2, <3>1 DEF Subscribe
  <2> QED BY <2>1, <2>2
<1>2. ASSUME NEW s \in Subscribers, removeSub(s) PROVE TypeOK'
  BY <1>2 DEF removeSub, Unlisted, CancelLoop, loopVars
<1>3. ASSUME NEW s \in Subscribers, Receive(s) PROVE TypeOK'
  <2>1. buf[s] \in Seq(Prices) /\ buf[s] # <<>> /\ Len(buf[s]) <= Cap
    BY <1>3 DEF Receive
  <2>2. /\ Head(buf[s]) \in Prices /\ Tail(buf[s]) \in Seq(Prices)
        /\ Len(Tail(buf[s])) <= Cap
    BY <2>1, FeedAssumption
  <2>3. seen' \in [Subscribers -> Prices \cup {0}]
    BY <1>3, <2>2 DEF Receive
  <2>4. buf' \in [Subscribers -> Seq(Prices)]
    BY <1>3, <2>2 DEF Receive
  <2>5. \A t \in Subscribers : Len(buf'[t]) <= Cap
    BY <1>3, <2>2 DEF Receive
  <2>6. /\ UNCHANGED <<pool, cached, subs, polling, made, cancelled, loopVars, chan>>
        /\ UNCHANGED <<ctxDone, closer, panicked, missed, raced>>
    BY <1>3 DEF Receive
  <2> QED BY <2>3, <2>4, <2>5, <2>6 DEF loopVars
<1>4. ASSUME NEW g \in Loops, Poll(g) PROVE TypeOK'
  BY <1>4 DEF Poll
<1>5. ASSUME NEW g \in Loops, Publish(g) PROVE TypeOK'
  BY <1>5 DEF Publish, CopySubs
<1>6. ASSUME NEW g \in Loops, SendingEnds(g) PROVE TypeOK'
  BY <1>6 DEF SendingEnds
<1>7. ASSUME NEW g \in Loops, LoopEnds(g) PROVE TypeOK'
  BY <1>7 DEF LoopEnds
<1>8. ASSUME NEW g \in Loops, NEW s \in Subscribers, Send(g, s) PROVE TypeOK'
  <2>1. CASE UNCHANGED buf
    BY <1>8, <2>1 DEF Send
  <2>2. CASE HasRoom(s) /\ buf' = [buf EXCEPT ![s] = Append(@, read[g].price)]
    <3>1. read[g].price \in Prices
      BY <1>8 DEF Send, Quote
    <3>2. buf' \in [Subscribers -> Seq(Prices)]
      BY <2>2, <3>1
    <3>3. \A t \in Subscribers : Len(buf'[t]) <= Cap
      BY <2>2, <3>1, FeedAssumption DEF HasRoom
    <3> QED BY <1>8, <3>2, <3>3 DEF Send
  <2> QED BY <1>8, <2>1, <2>2 DEF Send
<1>9. ASSUME Close PROVE TypeOK'
  BY <1>9 DEF Close, CancelLoop, loopVars
<1>10. ASSUME CloseReturns PROVE TypeOK'
  BY <1>10 DEF CloseReturns, loopVars
<1>11. ASSUME NEW price \in Prices, PoolMoves(price) PROVE TypeOK'
  <2>1. pool' \in Quote
    BY <1>11, FeedAssumption DEF PoolMoves, Quote
  <2> QED BY <1>11, <2>1 DEF PoolMoves, loopVars
<1>12. CASE UNCHANGED vars
  BY <1>12 DEF vars
<1> QED BY <1>1, <1>2, <1>3, <1>4, <1>5, <1>6, <1>7, <1>8, <1>9, <1>10, <1>11, <1>12 DEF Next

(* The loops and the subscribers keep to PolledIffSubscribed and LoopInv.   *)
LEMMA LoopStep ==
    TypeOK /\ PolledIffSubscribed /\ LoopInv /\ [Next]_vars
        => PolledIffSubscribed' /\ LoopInv'
<1> SUFFICES ASSUME TypeOK, PolledIffSubscribed, LoopInv, [Next]_vars
             PROVE  PolledIffSubscribed' /\ LoopInv'
  OBVIOUS
<1> USE DEF TypeOK, PolledIffSubscribed, LoopInv, Running, Loops, NoLoop
<1>1. ASSUME NEW s \in Subscribers, Subscribe(s) PROVE PolledIffSubscribed' /\ LoopInv'
  <2>1. CASE alreadyPolling
    <3>1. UNCHANGED <<made, polling, loopAt, raced, cancelled>> /\ subs' # {}
      BY <1>1, <2>1 DEF Subscribe
    <3>2. subs # {}
      BY <2>1 DEF alreadyPolling
    <3> QED BY <3>1, <3>2, <2>1 DEF alreadyPolling
  <2>2. CASE ~alreadyPolling
    <3>1. /\ made' = made + 1 /\ made' \in Loops /\ made \in Nat
          /\ polling' = made' /\ polling = NoLoop
          /\ loopAt' = [loopAt EXCEPT ![made'] = "select"]
          /\ raced' = (raced \/ \E g \in cancelled : Running(g))
          /\ cancelled' = cancelled /\ subs' # {}
      BY <1>1, <2>2, FeedAssumption DEF Subscribe, alreadyPolling
    <3>2. \A g \in Loops : loopAt'[g] = IF g = made + 1 THEN "select" ELSE loopAt[g]
      BY <3>1
    <3>3. \A g \in Loops : Running(g)' <=> (g = made + 1 \/ Running(g))
      BY <3>2
    <3>4. \A g \in Loops : Running(g) => g \in cancelled
      BY <3>1
    <3>5. made + 1 \notin cancelled
      BY <3>1
    <3>6. PolledIffSubscribed'
      BY <3>1, <3>3, <3>4, <3>5
    <3>7. ~raced' => \A g \in Loops : ~Running(g)
      BY <3>1, <3>4
    <3>8. LoopInv'
      BY <3>1, <3>2, <3>3, <3>7
    <3> QED BY <3>6, <3>8
  <2> QED BY <2>1, <2>2
<1>2. ASSUME NEW s \in Subscribers, removeSub(s) PROVE PolledIffSubscribed' /\ LoopInv'
  <2>1. UNCHANGED <<made, loopAt, raced>>
    BY <1>2 DEF removeSub, Unlisted, loopVars
  <2>2. CASE subs' = {}
    <3>1. polling' = NoLoop /\ cancelled' = cancelled \cup ({polling} \ {NoLoop})
      BY <1>2, <2>2 DEF removeSub, Unlisted, CancelLoop, NoneLeft
    <3> QED BY <2>1, <2>2, <3>1, FeedAssumption
  <2>3. CASE subs' # {}
    <3>1. UNCHANGED <<polling, cancelled>> /\ subs # {}
      BY <1>2, <2>3 DEF removeSub, Unlisted, NoneLeft
    <3> QED BY <2>1, <2>3, <3>1
  <2> QED BY <2>2, <2>3
<1>3. ASSUME NEW g \in Loops, Poll(g) \/ Publish(g) \/ SendingEnds(g)
      PROVE  PolledIffSubscribed' /\ LoopInv'
  <2>1. UNCHANGED <<made, raced, polling, cancelled, subs>>
    BY <1>3 DEF Poll, Publish, SendingEnds
  <2>2. \E place \in {"select", "read", "send"} : loopAt' = [loopAt EXCEPT ![g] = place]
    BY <1>3 DEF Poll, Publish, SendingEnds
  <2>3. Running(g) /\ Running(g)' /\ \A h \in Loops \ {g} : loopAt'[h] = loopAt[h]
    <3>1. Running(g)
      BY <1>3 DEF Poll, Publish, SendingEnds
    <3> QED BY <2>2, <3>1
  <2>4. \A h \in Loops : (Running(h)' <=> Running(h))
                          /\ ((loopAt'[h] = "none") <=> (loopAt[h] = "none"))
    BY <2>3
  <2> HIDE DEF Running
  <2> QED BY <2>1, <2>4
<1>4. ASSUME NEW g \in Loops, LoopEnds(g) PROVE PolledIffSubscribed' /\ LoopInv'
  BY <1>4 DEF LoopEnds
<1>5. ASSUME NEW g \in Loops, NEW s \in Subscribers, Send(g, s)
      PROVE  PolledIffSubscribed' /\ LoopInv'
  BY <1>5 DEF Send
<1>6. ASSUME Close PROVE PolledIffSubscribed' /\ LoopInv'
  <2>1. /\ UNCHANGED <<made, loopAt, raced>> /\ subs' = {}
        /\ polling' = NoLoop /\ cancelled' = cancelled \cup ({polling} \ {NoLoop})
    BY <1>6 DEF Close, CancelLoop, loopVars
  <2> QED BY <2>1, FeedAssumption
<1>7. ASSUME \/ CloseReturns
             \/ \E s \in Subscribers : Receive(s)
             \/ \E price \in Prices : PoolMoves(price)
      PROVE  PolledIffSubscribed' /\ LoopInv'
  <2>1. UNCHANGED <<made, raced, polling, cancelled, subs, loopAt>>
    BY <1>7 DEF CloseReturns, Receive, PoolMoves, loopVars
  <2> QED BY <2>1
<1>8. CASE UNCHANGED vars
  BY <1>8 DEF vars
<1> QED BY <1>1, <1>2, <1>3, <1>4, <1>5, <1>6, <1>7, <1>8 DEF Next

LEMMA ChanStep == TypeOK /\ ChanInv /\ [Next]_vars => ChanInv'
<1> SUFFICES ASSUME TypeOK, ChanInv, [Next]_vars PROVE ChanInv'
  OBVIOUS
<1> USE DEF TypeOK, ChanInv
<1>1. ASSUME NEW s \in Subscribers, Subscribe(s) PROVE ChanInv'
  BY <1>1 DEF Subscribe
<1>2. ASSUME NEW s \in Subscribers, removeSub(s) PROVE ChanInv'
  BY <1>2 DEF removeSub, Unlisted
<1>3. ASSUME NEW s \in Subscribers, Receive(s) PROVE ChanInv'
  BY <1>3 DEF Receive
<1>4. ASSUME NEW g \in Loops, NEW s \in Subscribers, Send(g, s) PROVE ChanInv'
  BY <1>4 DEF Send
<1>5. ASSUME Close PROVE ChanInv'
  BY <1>5 DEF Close
<1>6. ASSUME \/ CloseReturns
             \/ \E g \in Loops : Poll(g) \/ Publish(g) \/ SendingEnds(g) \/ LoopEnds(g)
             \/ \E price \in Prices : PoolMoves(price)
      PROVE  ChanInv'
  BY <1>6 DEF CloseReturns, Poll, Publish, SendingEnds, LoopEnds, PoolMoves
<1>7. CASE UNCHANGED vars
  BY <1>7 DEF vars
<1> QED BY <1>1, <1>2, <1>3, <1>4, <1>5, <1>6, <1>7 DEF Next

(* A price replaces an older one as long as loops do not overlap.           *)
LEMMA QuoteStep ==
    TypeOK /\ LoopInv /\ LoopInv' /\ QuoteInv /\ [Next]_vars => QuoteInv'
<1> SUFFICES ASSUME TypeOK, LoopInv, LoopInv', QuoteInv, [Next]_vars PROVE QuoteInv'
  OBVIOUS
<1> USE DEF TypeOK, QuoteInv, Past
<1>1. ASSUME NEW s \in Subscribers, Subscribe(s) PROVE QuoteInv'
  BY <1>1 DEF Subscribe
<1>2. ASSUME NEW g \in Loops, Poll(g) PROVE QuoteInv'
  <2>1. pool \in Quote /\ pool.move \in Nat
    BY DEF Quote
  <2>2. \A h \in Loops : /\ read'[h] = IF h = g THEN pool ELSE read[h]
                         /\ loopAt'[h] = IF h = g THEN "read" ELSE loopAt[h]
    BY <1>2 DEF Poll
  <2>3. cached' = cached /\ pool' = pool /\ raced' = raced
    BY <1>2 DEF Poll
  <2>4. cached = NoQuote \/ cached.move < pool.move \/ cached = pool
    BY <2>1 DEF Quote
  <2> QED BY <2>1, <2>2, <2>3, <2>4
<1>3. ASSUME NEW g \in Loops, Publish(g) PROVE QuoteInv'
  <2>1. \A h \in Loops : h # g => loopAt'[h] = loopAt[h]
    BY <1>3 DEF Publish
  <2>2. read' = read /\ pool' = pool /\ raced' = raced
    BY <1>3 DEF Publish
  <2>3. CASE cached.price = read[g].price
    BY <1>3, <2>1, <2>2, <2>3 DEF Publish
  <2>4. CASE cached.price # read[g].price
    <3>1. cached' = read[g] /\ loopAt'[g] = "send" /\ loopAt[g] = "read"
      BY <1>3, <2>4 DEF Publish
    <3>2. ~raced => \A h \in Loops \ {g} : ~Running(h)
      BY <3>1 DEF LoopInv, Running
    <3>3. Past(cached)'
      BY <2>2, <3>1
    <3>4. \A h \in Loops : loopAt'[h] \in {"read", "send"} => Past(read[h])
      BY <2>1, <3>1
    <3> QED BY <2>1, <2>2, <3>1, <3>2, <3>3, <3>4 DEF Running
  <2> QED BY <2>3, <2>4
<1>4. ASSUME NEW g \in Loops, SendingEnds(g) \/ LoopEnds(g) PROVE QuoteInv'
  BY <1>4 DEF SendingEnds, LoopEnds
<1>5. ASSUME NEW price \in Prices, PoolMoves(price) PROVE QuoteInv'
  <2>1. /\ pool'.move = pool.move + 1 /\ pool.move \in Nat
        /\ UNCHANGED <<cached, loopAt, read, raced>>
    BY <1>5 DEF PoolMoves, loopVars, Quote
  <2>2. \A q \in Quote : q.move \in Nat
    BY DEF Quote
  <2>3. \A q : Past(q) => Past(q)'
    BY <2>1, <2>2
  <2> QED BY <2>1, <2>3
<1>6. ASSUME \/ CloseReturns \/ Close
             \/ \E s \in Subscribers : removeSub(s) \/ Receive(s)
             \/ \E g \in Loops, s \in Subscribers : Send(g, s)
      PROVE  QuoteInv'
  BY <1>6 DEF CloseReturns, Close, removeSub, Receive, Send, loopVars
<1>7. CASE UNCHANGED vars
  BY <1>7 DEF vars
<1> QED BY <1>1, <1>2, <1>3, <1>4, <1>5, <1>6, <1>7 DEF Next

(* The end of a channel is what was sent last, and receiving leaves it.     *)
LEMMA NewestOfSend ==
    ASSUME NEW q \in Seq(Prices), NEW x \in Prices
    PROVE  /\ Append(q, x) # <<>>
           /\ Append(q, x)[Len(Append(q, x))] = x
  OBVIOUS

LEMMA NewestOfTail ==
    ASSUME NEW q \in Seq(Prices), q # <<>>
    PROVE  IF Tail(q) = <<>> THEN Head(q) = q[Len(q)]
                             ELSE Tail(q)[Len(Tail(q))] = q[Len(q)]
<1>1. Len(q) \in Nat \ {0} /\ Head(q) = q[1]
  BY EmptySeq
<1>2. /\ Tail(q) \in Seq(Prices) /\ Len(Tail(q)) = Len(q) - 1
      /\ \A i \in 1..Len(Tail(q)) : Tail(q)[i] = q[i + 1]
  BY HeadTailProperties
<1>3. CASE Tail(q) = <<>>
  <2>1. Len(Tail(q)) = 0
    BY <1>3, EmptySeq
  <2>2. Len(q) = 1
    <3>1. 0 = Len(q) - 1
      BY <1>2, <2>1, Zenon
    <3> QED BY <1>1, <3>1
  <2>3. Head(q) = q[Len(q)]
    BY <1>1, <2>2, Zenon
  <2> QED BY <1>3, <2>3, Zenon
<1>4. CASE Tail(q) # <<>>
  <2>1. Len(Tail(q)) \in Nat \ {0}
    BY <1>2, <1>4, EmptySeq
  <2>2. Len(Tail(q)) \in 1..Len(Tail(q)) /\ Len(Tail(q)) + 1 = Len(q)
    BY <1>1, <1>2, <2>1
  <2> QED BY <1>2, <1>4, <2>2
<1> QED BY <1>3, <1>4

LEMMA NewestOfReceive ==
    ASSUME TypeOK, NEW s \in Subscribers, Receive(s)
    PROVE  \A t \in Subscribers : Newest(t)' = Newest(t)
<1>1. buf[s] \in Seq(Prices) /\ buf[s] # <<>>
  BY DEF TypeOK, Receive
<1>2. buf'[s] = Tail(buf[s]) /\ seen'[s] = Head(buf[s])
  BY DEF TypeOK, Receive
<1>3. \A t \in Subscribers \ {s} : buf'[t] = buf[t] /\ seen'[t] = seen[t]
  BY DEF TypeOK, Receive
<1>4. Newest(s)' = Newest(s)
  BY <1>1, <1>2, NewestOfTail DEF Newest
<1> QED BY <1>3, <1>4 DEF Newest

(* A step leaves a subscriber the newest price or a reason not to have it.  *)
LEMMA UpToDateStep ==
    TypeOK /\ LoopInv /\ ChanInv /\ QuoteInv /\ UpToDate /\ [Next]_vars => UpToDate'
<1> SUFFICES ASSUME TypeOK, LoopInv, ChanInv, QuoteInv, UpToDate, [Next]_vars
             PROVE  UpToDate'
  OBVIOUS
<1> DEFINE Sending(t) == \E g \in Loops : loopAt[g] = "send" /\ t \in targets[g]
<1>0. subs \subseteq Subscribers
  BY DEF TypeOK
<1>1. ASSUME NEW s \in Subscribers, Subscribe(s) PROVE UpToDate'
  <2>1. /\ subs' = subs \cup {s} /\ buf' = buf /\ seen' = seen /\ cached' = cached
        /\ targets' = targets /\ chan[s] = "none" /\ missed \subseteq missed'
        /\ cached # NoQuote => s \in missed'
    BY <1>1 DEF Subscribe
  <2>2. raced => raced'
    BY <1>1 DEF Subscribe
  <2>3. \A g \in Loops : loopAt[g] = "send" => loopAt'[g] = "send"
    <3>1. CASE alreadyPolling
      BY <1>1, <3>1 DEF Subscribe
    <3>2. CASE ~alreadyPolling
      <4>1. made + 1 > made /\ made' = made + 1
        BY <1>1, <3>2 DEF Subscribe, TypeOK
      <4>2. loopAt' = [loopAt EXCEPT ![made + 1] = "select"]
        BY <1>1, <3>2 DEF Subscribe
      <4>3. \A g \in Loops : g = made + 1 => loopAt[g] = "none"
        BY <4>1 DEF LoopInv
      <4> QED BY <4>2, <4>3 DEF TypeOK
    <3> QED BY <3>1, <3>2
  <2>4. Newest(s)' = 0
    BY <2>1 DEF ChanInv, Newest
  <2>5. cached = NoQuote => Newest(s)' = cached'.price
    BY <2>1, <2>4 DEF NoQuote
  <2>6. \A t \in subs : Newest(t)' = Newest(t)
    BY <2>1 DEF Newest
  <2>7. \A t \in subs : Sending(t) => Sending(t)'
    BY <2>1, <2>3
  <2> HIDE DEF Newest
  <2> QED BY <2>1, <2>2, <2>5, <2>6, <2>7 DEF UpToDate
<1>2. ASSUME NEW s \in Subscribers, removeSub(s) PROVE UpToDate'
  <2>1. /\ subs' \subseteq subs
        /\ UNCHANGED <<buf, seen, cached, missed, raced, loopAt, targets>>
    BY <1>2 DEF removeSub, Unlisted, loopVars
  <2> QED BY <2>1 DEF UpToDate, Newest
<1>3. ASSUME NEW s \in Subscribers, Receive(s) PROVE UpToDate'
  <2>1. \A t \in Subscribers : Newest(t)' = Newest(t)
    BY <1>3, NewestOfReceive
  <2>2. UNCHANGED <<subs, cached, missed, raced, loopAt, targets>>
    BY <1>3 DEF Receive, loopVars
  <2> HIDE DEF Newest
  <2> QED BY <1>0, <2>1, <2>2 DEF UpToDate
<1>4. ASSUME NEW g \in Loops, Poll(g) \/ SendingEnds(g) \/ LoopEnds(g) PROVE UpToDate'
  <2>1. UNCHANGED <<subs, buf, seen, cached, missed, raced, targets>>
    BY <1>4 DEF Poll, SendingEnds, LoopEnds
  <2>2. \A h \in Loops \ {g} : loopAt'[h] = loopAt[h]
    BY <1>4 DEF Poll, SendingEnds, LoopEnds, TypeOK
  <2>3. loopAt[g] # "send" \/ targets[g] = {}
    BY <1>4 DEF Poll, SendingEnds, LoopEnds
  <2>4. \A t : Sending(t) => Sending(t)'
    BY <2>1, <2>2, <2>3
  <2> QED BY <2>1, <2>4 DEF UpToDate, Newest
<1>5. ASSUME NEW g \in Loops, Publish(g) PROVE UpToDate'
  <2>1. UNCHANGED <<subs, buf, seen, missed, raced>> /\ loopAt[g] = "read"
    BY <1>5 DEF Publish
  <2>2. CASE cached.price = read[g].price
    <3>1. UNCHANGED <<cached, targets>> /\ \A h \in Loops \ {g} : loopAt'[h] = loopAt[h]
      BY <1>5, <2>2 DEF Publish, TypeOK
    <3>2. \A t : Sending(t) => Sending(t)'
      BY <2>1, <3>1
    <3> QED BY <2>1, <3>1, <3>2 DEF UpToDate, Newest
  <2>3. CASE cached.price # read[g].price
    <3>1. loopAt'[g] = "send" /\ targets'[g] = subs
      BY <1>5, <2>3 DEF Publish, TypeOK, CopySubs
    <3> QED BY <2>1, <3>1 DEF UpToDate
  <2> QED BY <2>2, <2>3
<1>6. ASSUME NEW g \in Loops, NEW s \in Subscribers, Send(g, s) PROVE UpToDate'
  <2>1. /\ UNCHANGED <<subs, cached, loopAt, read, seen, raced, chan>>
        /\ loopAt[g] = "send"
    BY <1>6 DEF Send
  <2>2. /\ \A h \in Loops \ {g} : targets'[h] = targets[h]
        /\ targets'[g] = targets[g] \ {s}
    BY <1>6 DEF Send, TypeOK
  <2>3. \A t \in Subscribers \ {s} : (t \in missed) => (t \in missed')
    BY <1>6 DEF Send
  <2>4. \A t \in Subscribers \ {s} : buf'[t] = buf[t]
    BY <1>6 DEF Send, TypeOK
  <2>5. \A t \in Subscribers \ {s} : Newest(t)' = Newest(t)
    BY <2>1, <2>4 DEF Newest
  <2>6. \A t \in Subscribers \ {s} : Sending(t) => Sending(t)'
    BY <2>1, <2>2
  <2>7. s \in subs => Newest(s)' = cached'.price \/ s \in missed' \/ raced'
    <3>1. CASE chan[s] = "closed"
      BY <3>1 DEF ChanInv
    <3>2. CASE chan[s] = "open" /\ HasRoom(s)
      <4>1. buf'[s] = Append(buf[s], read[g].price)
        BY <1>6, <3>2 DEF Send, TypeOK
      <4>2. buf[s] \in Seq(Prices) /\ read[g].price \in Prices
        BY <2>1 DEF TypeOK, Quote
      <4>3. Newest(s)' = read[g].price
        BY <4>1, <4>2, NewestOfSend DEF Newest
      <4>4. raced \/ read[g] = cached
        BY <2>1 DEF QuoteInv
      <4> QED BY <2>1, <4>3, <4>4
    <3>3. CASE chan[s] = "open" /\ ~HasRoom(s)
      BY <1>6, <3>3 DEF Send
    <3>4. chan[s] = "closed" \/ chan[s] = "open"
      BY <1>6 DEF Send
    <3> QED BY <3>1, <3>2, <3>3, <3>4
  <2> HIDE DEF Newest
  <2> QED BY <1>0, <2>1, <2>3, <2>5, <2>6, <2>7 DEF UpToDate
<1>7. ASSUME CloseReturns \/ \E price \in Prices : PoolMoves(price) PROVE UpToDate'
  <2>1. UNCHANGED <<subs, buf, seen, cached, missed, raced, loopAt, targets>>
    BY <1>7 DEF CloseReturns, PoolMoves, loopVars
  <2> QED BY <2>1 DEF UpToDate, Newest
<1>8. ASSUME Close PROVE UpToDate'
  BY <1>8 DEF Close, UpToDate
<1>9. CASE UNCHANGED vars
  BY <1>9 DEF vars, UpToDate, Newest
<1> QED BY <1>1, <1>2, <1>3, <1>4, <1>5, <1>6, <1>7, <1>8, <1>9 DEF Next

(* A step that replaces the cached price puts a newer one, unless loops     *)
(* overlapped.                                                              *)
LEMMA NewerStep ==
    ASSUME TypeOK, QuoteInv, [Next]_vars, cached' # cached
    PROVE  cached = NoQuote \/ cached'.move > cached.move \/ raced
<1>1. PICK g \in Loops : Publish(g)
  BY DEF Next, vars, Subscribe, removeSub, Receive, Poll, SendingEnds, LoopEnds, Send,
         Close, CloseReturns, PoolMoves
<1>2. cached.price # read[g].price /\ cached' = read[g] /\ loopAt[g] = "read"
  BY <1>1 DEF Publish
<1>3. \/ raced \/ cached = NoQuote
      \/ cached.move < read[g].move \/ cached = read[g]
  BY <1>2 DEF QuoteInv
<1>4. cached # NoQuote => cached.move \in Nat
  BY DEF TypeOK, Quote
<1>5. read[g].move \in Nat
  BY <1>2 DEF TypeOK, Quote
<1> QED BY <1>2, <1>3, <1>4, <1>5

LEMMA IInvInit == Init => IInv
<1> SUFFICES ASSUME Init PROVE IInv
  OBVIOUS
<1>1. TypeOK
  BY TypeInit
<1>2. PolledIffSubscribed /\ LoopInv
  BY FeedAssumption DEF Init, PolledIffSubscribed, LoopInv, Running, Loops, NoLoop
<1>3. ChanInv
  BY DEF Init, ChanInv
<1>4. QuoteInv
  BY DEF Init, QuoteInv
<1>5. UpToDate
  BY DEF Init, UpToDate
<1> QED BY <1>1, <1>2, <1>3, <1>4, <1>5 DEF IInv

LEMMA IInvStep == IInv /\ [Next]_vars => IInv'
  BY TypeStep, LoopStep, ChanStep, QuoteStep, UpToDateStep DEF IInv

-----------------------------------------------------------------------------
(* The invariant behind the three theorems below holds in every state of    *)
(* the price feed: types, the loops that run, the state of the channels,    *)
(* and how old the prices are that the loops hold.                          *)
THEOREM Invariant == Spec => []IInv
  BY IInvInit, IInvStep, PTL DEF Spec

(* Subscribe, removeSub and Close keep exactly one loop polling while there *)
(* are subscribers, and none that was not told to stop when there are none. *)
THEOREM PollingSafety == Spec => []PolledIffSubscribed
<1>1. IInv => PolledIffSubscribed
  BY DEF IInv
<1> QED BY Invariant, <1>1, PTL

(* pollLoop leaves every subscriber the cached price at the end of its      *)
(* channel, or one of the reasons UpToDate names.                           *)
THEOREM DeliverySafety == Spec => []UpToDate
<1>1. IInv => UpToDate
  BY DEF IInv
<1> QED BY Invariant, <1>1, PTL

(* The price Latest returns is never replaced by an older one as long as no *)
(* loop was started before its predecessor had ended.                       *)
THEOREM NewestWinsSafety == Spec => NewestWins
<1>1. IInv /\ [Next]_vars =>
        [cached' # cached => (cached = NoQuote \/ cached'.move > cached.move \/ raced)]_vars
  BY NewerStep DEF IInv
<1> QED BY Invariant, <1>1, PTL DEF Spec, NewestWins
(* A loop never takes a closed channel into its copy of the subscribers.    *)
THEOREM CopySafety == Spec => CopiesOnlyOpen
<1> DEFINE Open == \A g \in Loops : \A s \in targets'[g] \ targets[g] : chan[s] = "open"
<1>1. IInv /\ [Next]_vars => [Open]_vars
  <2> SUFFICES ASSUME TypeOK, ChanInv, Next PROVE Open
    BY DEF IInv
  <2>1. ASSUME NEW g \in Loops, Publish(g) PROVE Open
    <3>1. targets' = targets \/ targets' = [targets EXCEPT ![g] = subs]
      BY <2>1 DEF Publish, CopySubs
    <3> QED BY <3>1 DEF TypeOK, ChanInv
  <2>2. ASSUME NEW g \in Loops, NEW s \in Subscribers, Send(g, s) PROVE Open
    BY <2>2 DEF Send, TypeOK
  <2>3. ASSUME targets' = targets PROVE Open
    BY <2>3
  <2> QED BY <2>1, <2>2, <2>3 DEF Next, Subscribe, removeSub, Receive, Poll, SendingEnds,
               LoopEnds, Close, CloseReturns, PoolMoves, loopVars
<1> QED BY <1>1, Invariant, PTL DEF Spec, CopiesOnlyOpen

(* Every variable keeps its type; no buffer exceeds its capacity.           *)
THEOREM TypeSafety == Spec => []TypeOK
<1>1. IInv => TypeOK
  BY DEF IInv
<1> QED BY Invariant, <1>1, PTL
=============================================================================
