---------------------------- MODULE NonceManager ----------------------------
(****************************************************************************)
(* The keeper's nonce on one chain (executor.go): the goroutines that send  *)
(* transactions from the keeper's key (the workers in executeSwap and       *)
(* activatePermit, the host in MarketSwap) take nonces from a shared        *)
(* counter, which a failed send sets back and a "nonce" error reloads from  *)
(* the chain.  nonceMu protects each access to the counter, not the time    *)
(* between taking a nonce and sending with it.                              *)
(*                                                                          *)
(* The chain is external: a node accepts a transaction whose nonce is not   *)
(* mined yet, queues it behind a gap, mines nonces in order, and on a       *)
(* second transaction with a pending nonce refuses it or replaces the first.*)
(****************************************************************************)
EXTENDS Integers, FiniteSets

CONSTANTS
    Senders,     \* goroutines that send from the keeper's key
    MaxNonce,    \* bound: nonces handed out
    SendFails,   \* whether signing or SendTransaction may fail with nothing sent
    SendUnsure,  \* whether SendTransaction may fail after the node took the transaction
    Restarts     \* whether the process may restart

ASSUME NonceAssumption ==
    /\ MaxNonce \in Nat
    /\ {SendFails, SendUnsure, Restarts} \subseteq BOOLEAN

VARIABLES
    nextNonce, nonceInit,   \* the executor's counter
    pc, held,   \* per sender: where it is, and the nonce it was given
    mined,      \* the account's nonce: those below are mined
    pool,       \* nonces of the transactions the node holds
    raced       \* history: the counter was set while someone else relied on it

vars == <<nextNonce, nonceInit, pc, held, mined, pool, raced>>

Nonces == 0..MaxNonce

(* "stranded": waits for the receipt of a transaction that was replaced.    *)
Place == {"idle", "send", "waiting", "nonceError", "stranded"}

TypeOK ==
    /\ nextNonce \in Nonces /\ nonceInit \in BOOLEAN
    /\ pc \in [Senders -> Place] /\ held \in [Senders -> Nonces]
    /\ mined \in Nonces /\ pool \subseteq Nonces \ {MaxNonce}
    /\ \A s \in Senders : pc[s] = "send" => held[s] # MaxNonce
    /\ raced \in BOOLEAN

Init ==
    /\ nextNonce = 0 /\ nonceInit = FALSE
    /\ pc = [s \in Senders |-> "idle"] /\ held = [s \in Senders |-> 0]
    /\ mined = 0 /\ pool = {}
    /\ raced = FALSE

-----------------------------------------------------------------------------
(* PendingNonceAt: the first nonce the node holds no transaction for.       *)
PendingNonce ==
    CHOOSE n \in mined..MaxNonce :
        n \notin pool /\ \A m \in mined..(n - 1) : m \in pool

NowIs(s, place) == pc[s] = place
Goto(s, place)  == pc' = [pc EXCEPT ![s] = place]

(* The mutant does not move the counter.                                    *)
TakeOnly(s, n) ==
    /\ n < MaxNonce
    /\ held' = [held EXCEPT ![s] = n]
    /\ nextNonce' = n
    /\ Goto(s, "send")

Take(s, n) ==
    /\ n < MaxNonce
    /\ held' = [held EXCEPT ![s] = n]
    /\ nextNonce' = n + 1
    /\ Goto(s, "send")

acquireNonce(s) ==
    /\ NowIs(s, "idle")
    /\ Take(s, IF nonceInit THEN nextNonce ELSE PendingNonce)
    /\ nonceInit' = TRUE
    /\ UNCHANGED <<mined, pool, raced>>

(* The first PendingNonceAt fails; the error's text has "nonce" in it.      *)
AcquireFails(s) ==
    /\ NowIs(s, "idle") /\ ~nonceInit
    /\ Goto(s, "nonceError")
    /\ UNCHANGED <<nextNonce, nonceInit, held, mined, pool, raced>>

(* The mutant leaves the counter.                                           *)
keepNonce(s) ==
    /\ UNCHANGED nextNonce
    /\ raced' = (raced \/ nextNonce # held[s] + 1)

rollbackNonce(s) ==
    /\ nextNonce' = held[s]
    /\ raced' = (raced \/ nextNonce # held[s] + 1)

(* SendTransaction and what the node makes of the nonce.                    *)
SendAccepted(s) ==
    /\ NowIs(s, "send")
    /\ held[s] >= mined /\ held[s] \notin pool
    /\ pool' = pool \cup {held[s]}
    /\ Goto(s, "waiting")
    /\ UNCHANGED <<nextNonce, nonceInit, held, mined, raced>>

SendReplaces(s) ==
    /\ NowIs(s, "send") /\ held[s] \in pool
    /\ pc' = [t \in Senders |->
                IF t = s THEN "waiting"
                ELSE IF pc[t] = "waiting" /\ held[t] = held[s] THEN "stranded" ELSE pc[t]]
    /\ UNCHANGED <<nextNonce, nonceInit, held, mined, pool, raced>>

(* Signing or sending fails, or the pending transaction is kept.            *)
SendRefused(s) ==
    /\ NowIs(s, "send") /\ held[s] >= mined
    /\ SendFails \/ held[s] \in pool
    /\ rollbackNonce(s)
    /\ Goto(s, "idle")
    /\ UNCHANGED <<nonceInit, held, mined, pool>>

SendTooLow(s) ==
    /\ NowIs(s, "send") /\ held[s] < mined
    /\ rollbackNonce(s)
    /\ Goto(s, "nonceError")
    /\ UNCHANGED <<nonceInit, held, mined, pool>>

(* The call fails but the node has the transaction.                         *)
SendLost(s) ==
    /\ SendUnsure
    /\ NowIs(s, "send")
    /\ held[s] >= mined /\ held[s] \notin pool
    /\ pool' = pool \cup {held[s]}
    /\ nextNonce' = held[s]
    /\ raced' = TRUE
    /\ Goto(s, "idle")
    /\ UNCHANGED <<nonceInit, held, mined>>

resyncNonce(s) ==
    /\ NowIs(s, "nonceError")
    /\ nextNonce' = PendingNonce
    /\ nonceInit' = TRUE
    /\ raced' = (raced \/ \E t \in Senders : pc[t] = "send")
    /\ Goto(s, "idle")
    /\ UNCHANGED <<held, mined, pool>>

(* activatePermit and MarketSwap do not resync; a resync may fail.          *)
GiveUp(s) ==
    /\ NowIs(s, "nonceError")
    /\ Goto(s, "idle")
    /\ UNCHANGED <<nextNonce, nonceInit, held, mined, pool, raced>>

Mine ==
    /\ mined \in pool
    /\ pool' = pool \ {mined}
    /\ mined' = mined + 1
    /\ UNCHANGED <<nextNonce, nonceInit, pc, held, raced>>

(* waitForReceipt returns.                                                  *)
Receipt(s) ==
    /\ NowIs(s, "waiting") /\ held[s] < mined
    /\ Goto(s, "idle")
    /\ UNCHANGED <<nextNonce, nonceInit, held, mined, pool, raced>>

Contiguous == \E n \in mined..MaxNonce : pool = mined..(n - 1)

(* The process ends, in-flight transactions stay with the node.             *)
Restart ==
    /\ Restarts
    /\ nonceInit' = FALSE /\ nextNonce' = 0
    /\ pc' = [s \in Senders |-> "idle"]
    /\ raced' = (raced \/ ~Contiguous)
    /\ UNCHANGED <<held, mined, pool>>

SendTransaction(s) ==
    SendAccepted(s) \/ SendReplaces(s) \/ SendRefused(s) \/ SendTooLow(s) \/ SendLost(s)

Next ==
    \/ \E s \in Senders :
         \/ acquireNonce(s) \/ AcquireFails(s) \/ SendTransaction(s)
         \/ resyncNonce(s) \/ GiveUp(s) \/ Receipt(s)
    \/ Mine \/ Restart

Spec == Init /\ [][Next]_vars

(* A goroutine that has a nonce goes on to send, a node mines what can be   *)
(* mined, and a receipt is polled for.                                      *)
Fairness ==
    /\ WF_vars(Mine)
    /\ \A s \in Senders :
         WF_vars(SendTransaction(s)) /\ WF_vars(Receipt(s)) /\ WF_vars(resyncNonce(s))

FairSpec == Spec /\ Fairness

-----------------------------------------------------------------------------
Holds(s, n) == pc[s] = "send" /\ held[s] = n

(* Every nonce below the counter is mined, with the node, or about to be    *)
(* sent: a failed nonce is reused, none is skipped, so no transaction waits *)
(* behind a gap for ever.                                                   *)
NoGap ==
    \A n \in mined..(nextNonce - 1) : n \in pool \/ \E s \in Senders : Holds(s, n)

(* A nonce in hand was not given to another sender and not sent before.     *)
NoReuse ==
    \A s \in Senders : pc[s] = "send" =>
        /\ held[s] >= mined /\ held[s] \notin pool
        /\ \A t \in Senders \ {s} : ~Holds(t, held[s])

(* The counter is sound for as long as it was never set back or reloaded    *)
(* while another sender held a later nonce.                                 *)
SoundUnlessRaced == ~raced => NoGap /\ NoReuse

(* A sender gets the receipt of its transaction.                            *)
ReceiptsArrive ==
    \A s \in Senders : pc[s] = "waiting" ~> (pc[s] # "waiting" \/ raced)

-----------------------------------------------------------------------------
(* The inductive invariant behind SoundUnlessRaced.                         *)

(* The counter is ahead of every nonce in use.                              *)
Ahead ==
    IF nonceInit
    THEN /\ mined <= nextNonce
         /\ \A n \in pool : mined <= n /\ n < nextNonce
         /\ \A s \in Senders : pc[s] = "send" => held[s] < nextNonce
    ELSE Contiguous /\ nextNonce = 0 /\ \A s \in Senders : pc[s] # "send"

NonceInv == TypeOK /\ (~raced => NoGap /\ NoReuse /\ Ahead)
=============================================================================
