------------------------- MODULE UniswapV3PriceFeed -------------------------
(****************************************************************************)
(* The price feed of pricefeed_uniswapv3.go for one token pair: subscribers *)
(* come and go, a poll loop runs while there are any, and publishes a price *)
(* that differs from the cached one to the subscribers it copied under mu,  *)
(* without mu and without waiting for a slow one.                           *)
(*                                                                          *)
(* A step is a critical section of mu, one non-blocking send, or one call   *)
(* of the chain.  The order of the subscriber slice is left open.           *)
(****************************************************************************)
EXTENDS Integers, Sequences

CONSTANTS
    Subscribers,  \* calls of Subscribe; each makes a channel of its own
    Prices,       \* prices the pool may have
    Cap,          \* capacity of a subscriber's channel (16 in the code)
    MaxLoops,     \* bound: poll loops started
    MaxMoves      \* bound: moves of the pool's price

ASSUME FeedAssumption ==
    /\ Prices \subseteq Nat \ {0} /\ Prices # {}
    /\ Cap \in Nat \ {0}
    /\ MaxLoops \in Nat /\ MaxMoves \in Nat

Loops  == 1..MaxLoops
NoLoop == 0

(* A price the pool had; move is how many moves the pool made before.       *)
Quote   == [price : Prices, move : 0..MaxMoves]
NoQuote == [price |-> 0, move |-> 0]

VARIABLES
    pool,       \* the pool's price
    cached,     \* prices[pair]
    subs,       \* subs[pair]
    polling,    \* the loop whose cancel func polling[pair] is, or NoLoop
    made,       \* loops started so far
    loopAt, cancelled, read, targets,
                \* per loop: place, its context, the price it read, and the
                \* subscribers of its copy it has not sent to yet
    chan, buf,  \* per subscriber: "none", "open" or "closed", and the buffer
    seen,       \* per subscriber: the price it received last, or 0
    ctxDone,    \* subscribers whose context was cancelled
    closer,     \* the goroutine that calls Close: "idle", "waiting", "done"
    panicked,   \* a send on a closed channel
    missed,     \* history: subscribers that the latest price was not sent to
    raced       \* history: a loop started before its predecessor had ended

vars == <<pool, cached, subs, polling, made, loopAt, cancelled, read, targets, chan,
          buf, seen, ctxDone, closer, panicked, missed, raced>>

loopVars == <<loopAt, read, targets>>

TypeOK ==
    /\ pool \in Quote /\ cached \in Quote \cup {NoQuote}
    /\ subs \subseteq Subscribers
    /\ polling \in Loops \cup {NoLoop} /\ made \in 0..MaxLoops
    /\ loopAt \in [Loops -> {"none", "select", "read", "send", "ended"}]
    /\ cancelled \subseteq Loops
    /\ read \in [Loops -> Quote \cup {NoQuote}]
    /\ \A g \in Loops : loopAt[g] \in {"read", "send"} => read[g] \in Quote
    /\ targets \in [Loops -> SUBSET Subscribers]
    /\ chan \in [Subscribers -> {"none", "open", "closed"}]
    /\ buf \in [Subscribers -> Seq(Prices)]
    /\ \A s \in Subscribers : Len(buf[s]) <= Cap
    /\ seen \in [Subscribers -> Prices \cup {0}]
    /\ ctxDone \subseteq Subscribers
    /\ closer \in {"idle", "waiting", "done"}
    /\ panicked \in BOOLEAN /\ raced \in BOOLEAN
    /\ missed \subseteq Subscribers

Init ==
    /\ pool \in [price : Prices, move : {0}]
    /\ cached = NoQuote
    /\ subs = {} /\ polling = NoLoop /\ made = 0
    /\ loopAt = [g \in Loops |-> "none"]
    /\ cancelled = {}
    /\ read = [g \in Loops |-> NoQuote]
    /\ targets = [g \in Loops |-> {}]
    /\ chan = [s \in Subscribers |-> "none"]
    /\ buf = [s \in Subscribers |-> <<>>]
    /\ seen = [s \in Subscribers |-> 0]
    /\ ctxDone = {} /\ closer = "idle"
    /\ panicked = FALSE /\ missed = {} /\ raced = FALSE

-----------------------------------------------------------------------------
Running(g) == loopAt[g] \in {"select", "read", "send"}

(* Subscribe: the pair has a loop.  The mutant looks at the loops made.     *)
NeverPolling == FALSE
alreadyPolling == polling # NoLoop

(* cancel() and delete(f.polling, pair).  The mutant forgets cancel().      *)
ForgetLoop == polling' = NoLoop /\ UNCHANGED cancelled
CancelLoop == polling' = NoLoop /\ cancelled' = cancelled \cup ({polling} \ {NoLoop})

(* removeSub: no subscriber is left.  The mutant is off by one.             *)
OneLeft(S) == \A s, t \in S : s = t
NoneLeft(S) == S = {}

(* removeSub takes the channel out of the slice before it closes it.  The   *)
(* mutant leaves it there.                                                  *)
StillListed(s) == subs
Unlisted(s) == subs \ {s}

(* The copy of the subscriber slice.  The mutant skips those that have not  *)
(* received a price yet.                                                    *)
OldSubs == {s \in subs : seen[s] # 0}
CopySubs == subs

Subscribe(s) ==
    /\ ~panicked
    /\ chan[s] = "none"
    /\ chan' = [chan EXCEPT ![s] = "open"]
    /\ subs' = subs \cup {s}
    /\ IF alreadyPolling
       THEN UNCHANGED <<made, polling, loopAt, raced>>
       ELSE /\ made < MaxLoops
            /\ made' = made + 1
            /\ polling' = made'
            /\ loopAt' = [loopAt EXCEPT ![made'] = "select"]
            /\ raced' = (raced \/ \E g \in cancelled : Running(g))
    /\ missed' = IF cached = NoQuote THEN missed ELSE missed \cup {s}
    /\ UNCHANGED <<pool, cached, cancelled, read, targets, buf, seen, ctxDone, closer,
                   panicked>>

(* The host cancels the subscriber's context, and the goroutine that waits  *)
(* for it removes the channel, unless Close did.                            *)
removeSub(s) ==
    /\ ~panicked
    /\ chan[s] # "none" /\ s \notin ctxDone
    /\ ctxDone' = ctxDone \cup {s}
    /\ subs' = Unlisted(s)
    /\ chan' = [chan EXCEPT ![s] = "closed"]
    /\ IF NoneLeft(subs') THEN CancelLoop ELSE UNCHANGED <<polling, cancelled>>
    /\ UNCHANGED <<pool, cached, made, loopVars, buf, seen, closer, panicked, missed,
                   raced>>

(* Close, and Shutdown, which differs only in that it may stop waiting.     *)
Close ==
    /\ ~panicked
    /\ closer = "idle"
    /\ closer' = "waiting"
    /\ CancelLoop
    /\ chan' = [s \in Subscribers |-> IF s \in subs THEN "closed" ELSE chan[s]]
    /\ subs' = {}
    /\ UNCHANGED <<pool, cached, made, loopVars, buf, seen, ctxDone, panicked, missed,
                   raced>>

(* pollWg.Wait returns.                                                     *)
CloseReturns ==
    /\ ~panicked
    /\ closer = "waiting"
    /\ \A g \in Loops : ~Running(g)
    /\ closer' = "done"
    /\ UNCHANGED <<pool, cached, subs, polling, made, cancelled, loopVars, chan, buf,
                   seen, ctxDone, panicked, missed, raced>>

-----------------------------------------------------------------------------
(* pollLoop.                                                                *)

(* The ticker fires and the price is read.  A read that fails changes       *)
(* nothing and is not a step; select may prefer the ticker to a cancelled   *)
(* context, and a call under way when the context is cancelled may succeed. *)
Poll(g) ==
    /\ ~panicked
    /\ loopAt[g] = "select"
    /\ read' = [read EXCEPT ![g] = pool]
    /\ loopAt' = [loopAt EXCEPT ![g] = "read"]
    /\ UNCHANGED <<pool, cached, subs, polling, made, cancelled, targets, chan, buf, seen,
                   ctxDone, closer, panicked, missed, raced>>

(* Under mu: skip an unchanged price, or cache it and copy the subscribers. *)
Publish(g) ==
    /\ ~panicked
    /\ loopAt[g] = "read"
    /\ IF cached.price = read[g].price
       THEN /\ loopAt' = [loopAt EXCEPT ![g] = "select"]
            /\ UNCHANGED <<cached, targets>>
       ELSE /\ loopAt' = [loopAt EXCEPT ![g] = "send"]
            /\ cached' = read[g]
            /\ targets' = [targets EXCEPT ![g] = CopySubs]
    /\ UNCHANGED <<pool, subs, polling, made, cancelled, read, chan, buf, seen, ctxDone, closer,
                   panicked, missed, raced>>

HasRoom(s) == Len(buf[s]) < Cap

(* A send to one of the copied subscribers: a full buffer drops the price,  *)
(* a channel closed since panics.                                           *)
Send(g, s) ==
    /\ ~panicked
    /\ loopAt[g] = "send" /\ s \in targets[g]
    /\ targets' = [targets EXCEPT ![g] = @ \ {s}]
    /\ \/ chan[s] = "closed" /\ panicked' = TRUE /\ UNCHANGED <<buf, missed>>
       \/ /\ chan[s] = "open" /\ HasRoom(s)
          /\ buf' = [buf EXCEPT ![s] = Append(@, read[g].price)]
          /\ missed' = missed \ {s}
          /\ UNCHANGED panicked
       \/ /\ chan[s] = "open" /\ ~HasRoom(s)
          /\ missed' = missed \cup {s}
          /\ UNCHANGED <<buf, panicked>>
    /\ UNCHANGED <<pool, cached, subs, polling, made, cancelled, loopAt, read, chan, seen,
                   ctxDone, closer, raced>>

SendingEnds(g) ==
    /\ ~panicked
    /\ loopAt[g] = "send" /\ targets[g] = {}
    /\ loopAt' = [loopAt EXCEPT ![g] = "select"]
    /\ UNCHANGED <<pool, cached, subs, polling, made, cancelled, read, targets, chan, buf,
                   seen, ctxDone, closer, panicked, missed, raced>>

LoopEnds(g) ==
    /\ ~panicked
    /\ loopAt[g] = "select" /\ g \in cancelled
    /\ loopAt' = [loopAt EXCEPT ![g] = "ended"]
    /\ UNCHANGED <<pool, cached, subs, polling, made, cancelled, read, targets, chan, buf,
                   seen, ctxDone, closer, panicked, missed, raced>>

-----------------------------------------------------------------------------
(* A subscriber takes an update, and the pool moves.                        *)

Receive(s) ==
    /\ ~panicked
    /\ buf[s] # <<>>
    /\ seen' = [seen EXCEPT ![s] = Head(buf[s])]
    /\ buf' = [buf EXCEPT ![s] = Tail(@)]
    /\ UNCHANGED <<pool, cached, subs, polling, made, cancelled, loopVars, chan, ctxDone,
                   closer, panicked, missed, raced>>

PoolMoves(price) ==
    /\ ~panicked
    /\ pool.move < MaxMoves /\ price # pool.price
    /\ pool' = [price |-> price, move |-> pool.move + 1]
    /\ UNCHANGED <<cached, subs, polling, made, cancelled, loopVars, chan, buf, seen, ctxDone,
                   closer, panicked, missed, raced>>

Next ==
    \/ \E s \in Subscribers :
         Subscribe(s) \/ removeSub(s) \/ Receive(s)
    \/ \E g \in Loops :
         \/ Poll(g) \/ Publish(g) \/ SendingEnds(g) \/ LoopEnds(g)
         \/ \E s \in Subscribers : Send(g, s)
    \/ Close \/ CloseReturns
    \/ \E price \in Prices : PoolMoves(price)

Spec == Init /\ [][Next]_vars

(* The goroutines run; select takes a cancelled context sooner or later     *)
(* although the ticker may be ready whenever it looks.  Nothing makes the   *)
(* pool move, a read succeed, a subscriber receive or a context end.        *)
Fairness ==
    /\ \A g \in Loops :
         /\ WF_vars(Publish(g)) /\ WF_vars(SendingEnds(g)) /\ SF_vars(LoopEnds(g))
         /\ \A s \in Subscribers : WF_vars(Send(g, s))
    /\ WF_vars(CloseReturns)

FairSpec == Spec /\ Fairness

-----------------------------------------------------------------------------
(* The loop that polling names is the only one that was not told to stop,   *)
(* and there is one exactly when there are subscribers: nobody waits for a  *)
(* price that is not polled, and no loop polls for nobody.                  *)
PolledIffSubscribed ==
    /\ polling = NoLoop <=> subs = {}
    /\ \A g \in Loops : Running(g) /\ g \notin cancelled <=> g = polling

(* The price that subscriber s will have received when it has read its      *)
(* channel to the end.                                                      *)
Newest(s) == IF buf[s] = <<>> THEN seen[s] ELSE buf[s][Len(buf[s])]

(* A subscriber holds the cached price at the end of its channel, but for   *)
(* the reasons the code has: the price was dropped at a full buffer, it     *)
(* subscribed after the price was published, a loop has yet to send it, or  *)
(* two loops overlapped.                                                    *)
UpToDate ==
    \A s \in subs :
        \/ Newest(s) = cached.price
        \/ s \in missed \/ raced
        \/ \E g \in Loops : loopAt[g] = "send" /\ s \in targets[g]

(* Latest returns the most recent price: a price is never replaced by one   *)
(* the pool had before it, unless two loops overlapped.                     *)
NewestWins ==
    [][cached' # cached => (cached = NoQuote \/ cached'.move > cached.move \/ raced)]_vars

(* A loop copies open channels only: a send panics just when the channel    *)
(* was closed after the copy, in the gap the code leaves without mu.        *)
CopiesOnlyOpen ==
    [][\A g \in Loops : \A s \in targets'[g] \ targets[g] : chan[s] = "open"]_vars

(* Close returns once it is called, unless a send panicked or someone       *)
(* subscribed in the meantime.                                              *)
CloseWillReturn == closer = "waiting" ~> (closer = "done" \/ panicked \/ subs # {})

-----------------------------------------------------------------------------
(* The inductive invariant behind PolledIffSubscribed, UpToDate and         *)
(* NewestWins.                                                              *)

LoopInv ==
    /\ \A g \in Loops : loopAt[g] = "none" <=> g > made
    /\ polling <= made
    /\ \A g \in cancelled : g <= made
    /\ ~raced => \A g, h \in Loops : Running(g) /\ Running(h) => g = h

ChanInv ==
    \A s \in Subscribers :
        /\ s \in subs => chan[s] = "open"
        /\ chan[s] = "none" => buf[s] = <<>> /\ seen[s] = 0

(* The pool had quote q at its latest move or before.                       *)
Past(q) == q \in Quote /\ q.move <= pool.move /\ (q.move = pool.move => q = pool)

QuoteInv ==
    /\ cached = NoQuote \/ Past(cached)
    /\ \A g \in Loops : loopAt[g] \in {"read", "send"} => Past(read[g])
    /\ ~raced => \A g \in Loops :
         /\ loopAt[g] = "send" => read[g] = cached
         /\ loopAt[g] = "read" =>
              cached = NoQuote \/ cached.move < read[g].move \/ cached = read[g]

IInv == TypeOK /\ PolledIffSubscribed /\ LoopInv /\ ChanInv /\ QuoteInv /\ UpToDate
=============================================================================
