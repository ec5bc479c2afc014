-------------------------- MODULE PermitExecution --------------------------
(****************************************************************************)
(* Positions of one owner that sell the same token under Permit2: the       *)
(* keeper (manager.go, executor.go), the contract SwapExecutorV2.sol and    *)
(* Permit2 itself.  OpenPosition validates a signed permit; the first       *)
(* execution activates it on chain; each swap draws on the allowance.  The  *)
(* allowance and its nonce belong to (owner, token, spender): all positions *)
(* here share them.                                                         *)
(*                                                                          *)
(* Executions of one position are serialized (posLocks), those of different *)
(* positions are not.  A transaction the keeper has given up on, because    *)
(* sending or waiting failed or the process died, may be mined later.       *)
(* The host's calls and the expiry monitor read the record, change it and   *)
(* write it back without the lock: any of them may write over what was      *)
(* written since it read.                                                   *)
(*                                                                          *)
(* Positions are long.  Levels are counted, each sells Portion; which fires *)
(* is PositionManager's subject.                                            *)
(****************************************************************************)
EXTENDS Integers, FiniteSets

CONSTANTS
    Positions,
    Nobody,
    Callers,      \* goroutines of the host that call, and the expiry monitor
    Size,         \* TotalSize of a position
    Levels,       \* number of levels it is opened with
    Portion,      \* PortionBps of a level
    Trigger,      \* its trigger price, in quote per base times PriceScale
    PriceScale,   \* 10^8
    UnitIn,       \* 10^decimals of the token sold
    UnitOut,      \* ... and of the token bought
    Prices,       \* prices the pool may pay
    Slippage,     \* SlippageBps of the chain
    FeeConfigs,   \* what GetFee may return; nil is a fee of zero
    Permits,      \* what a user may sign
    MinLifetime,  \* MinPermitLifetime
    MaxNonce,     \* bound: nonces a user may sign
    MaxNow,       \* bound: the clock
    MaxCalls,     \* bound: calls of the host and expired permits the monitor finds
    MaxFaults     \* bound: failures

FullBps   == 10000  \* basis points of the whole
MaxUint16 == 65535
Nonces    == 0..MaxNonce

ASSUME PermitAssumption ==
    /\ Nobody \notin Positions /\ Nobody \notin Callers
    /\ Size \in Nat \ {0} /\ Levels \in Nat \ {0}
    /\ Portion \in Nat \ {0} /\ Portion <= FullBps
    /\ Trigger \in Nat \ {0} /\ Prices \subseteq Nat
    /\ PriceScale \in Nat \ {0} /\ UnitIn \in Nat \ {0} /\ UnitOut \in Nat \ {0}
    /\ Slippage \in 0..MaxUint16
    /\ FeeConfigs \subseteq [bps : 0..MaxUint16, share : 0..MaxUint16, referrer : BOOLEAN]
    /\ Permits \subseteq [amount : Nat, nonce : Nonces, deadline : Nat, sound : BOOLEAN]
    /\ Permits # {} /\ MinLifetime \in Nat
    /\ MaxNonce \in Nat /\ MaxNow \in Nat /\ MaxCalls \in Nat /\ MaxFaults \in Nat

MAX_FEE_BPS == 500

(* sound says that a permit's signature is the owner's and is for just this *)
(* amount, nonce and deadline.                                              *)

(* "closed" stands for a cancelled position too; active and suspended count *)
(* its levels.                                                              *)
PositionRecord ==
    [state : {"none", "open", "closed"}, remaining : 0..Size, active : Nat, suspended : Nat,
     permit : Permits, activated : BOOLEAN]

NoPermit == CHOOSE permit \in Permits : TRUE
NoRecord ==
    [state |-> "none", remaining |-> 0, active |-> 0, suspended |-> 0,
     permit |-> NoPermit, activated |-> FALSE]

(* A call: its position, whether it is RenewPermit, and the record that it  *)
(* is about to write.                                                       *)
CallRecord == [pos : Positions \cup {Nobody}, renews : BOOLEAN, record : PositionRecord]
NoCall     == [pos |-> Nobody, renews |-> FALSE, record |-> NoRecord]

NoFee == [bps |-> 0, share |-> 0, referrer |-> FALSE]

VARIABLES
    now,
    allowance,  \* Permit2's [amount, expires, nonce] of the owner
    usedBy,     \* history: nonce -> position whose permit used it
    holder,     \* history: position whose permit the allowance is from, while
                \* no other position has drawn on it
    rec,        \* the Store
    at,         \* per position: where its execution is
    copy,       \* ... and its copy of the record
    fee,        \* ... and what GetFee returned
    call,       \* per caller: its call
    orphans,    \* transactions the keeper has given up on
    collected,  \* per position, and for MarketSwap under Nobody: fees the contract
                \* sent to feeCollector
    reported,   \* ... and the shares in the results the host was given
    calls, faults,  \* counters of the bounds
    spent,      \* history: positions with a permit that was activated without a
                \* record of it, whose record was written over with an older one,
                \* or renewed with a used nonce
    unrecorded, \* history: positions with a swap or an activation whose record was
                \* lost, never made, or written over with an older one
    unreported  \* history: positions with a swap whose report was lost

chainVars   == <<allowance, usedBy, holder, collected>>
procVars    == <<at, copy, fee>>
historyVars == <<spent, unrecorded, unreported>>
vars == <<now, chainVars, rec, procVars, call, orphans, reported, calls, faults, historyVars>>

Place == {"idle", "suspend", "activate", "activating", "activated", "swap", "swapping",
          "swapped", "persisted"}

Tx == [kind : {"permit", "swap"}, pos : Positions, permit : Permits, amount : 0..Size,
       fee : FeeConfigs \cup {NoFee}, id : 1..MaxFaults]

Payers == Positions \cup {Nobody}
Shares == [platform : Int, referral : Nat]

TypeOK ==
    /\ now \in 0..MaxNow
    /\ allowance \in [amount : Nat, expires : Nat, nonce : 0..MaxNonce + 1]
    /\ usedBy \in [Nonces -> Positions \cup {Nobody}]
    /\ holder \in Positions \cup {Nobody}
    /\ rec \in [Positions -> PositionRecord]
    /\ at \in [Positions -> Place]
    /\ copy \in [Positions -> PositionRecord]
    /\ fee \in [Positions -> FeeConfigs \cup {NoFee}]
    /\ call \in [Callers -> CallRecord]
    /\ orphans \subseteq Tx
    /\ collected \in [Payers -> Nat]
    /\ reported \in [Payers -> Shares]
    /\ calls \in 0..MaxCalls /\ faults \in 0..MaxFaults
    /\ spent \subseteq Positions /\ unrecorded \subseteq Positions /\ unreported \subseteq Payers

Init ==
    /\ now = 0
    /\ allowance = [amount |-> 0, expires |-> 0, nonce |-> 0]
    /\ usedBy = [n \in Nonces |-> Nobody] /\ holder = Nobody
    /\ rec = [p \in Positions |-> NoRecord]
    /\ at = [p \in Positions |-> "idle"]
    /\ copy = [p \in Positions |-> NoRecord]
    /\ fee = [p \in Positions |-> NoFee]
    /\ call = [c \in Callers |-> NoCall]
    /\ orphans = {}
    /\ collected = [p \in Payers |-> 0]
    /\ reported = [p \in Payers |-> [platform |-> 0, referral |-> 0]]
    /\ calls = 0 /\ faults = 0
    /\ spent = {} /\ unrecorded = {} /\ unreported = {}

-----------------------------------------------------------------------------
(* Amounts.                                                                 *)

mulBps(amount, bps) == (amount * bps) \div FullBps

(* An amount of the token sold at a price, in units of the token bought.    *)
Worth(amount, price) == (amount * price * UnitOut) \div (UnitIn * PriceScale)

(* The mutant adds the slippage.                                            *)
MinWithSlippage(amountIn) == (Worth(amountIn, Trigger) * (FullBps + Slippage)) \div FullBps

(* The difference is one of uint16 numbers, and wraps for a slippage above  *)
(* the whole.                                                               *)
computeMinAmountOut(amountIn) ==
    (Worth(amountIn, Trigger) * ((FullBps - Slippage) % (MaxUint16 + 1))) \div FullBps

(* The mutant computes the fee of what is left after it.                    *)
FeeOfRest(amount, bps) == mulBps(amount - mulBps(amount, bps), bps)
TotalFee(amount, bps) == mulBps(amount, bps)

computeFeeResult(amount, cfg) ==
    LET total    == TotalFee(amount, cfg.bps)
        referral == IF cfg.referrer THEN mulBps(total, cfg.share) ELSE 0
    IN  [platform |-> total - referral, referral |-> referral]

Report(p, amount, cfg) ==
    LET result == computeFeeResult(amount, cfg)
    IN  reported' = [reported EXCEPT ![p] = [platform |-> @.platform + result.platform,
                                             referral |-> @.referral + result.referral]]

(* _swapAndEmit: the fee is taken from amountIn, the rest goes to the pool. *)
feeAmount(amount, bps) == (amount * bps) \div FullBps
swapAmount(amount, bps) == amount - feeAmount(amount, bps)

-----------------------------------------------------------------------------
(* The chain.                                                               *)

(* Permit2.permit: the signature, sigDeadline, which is the expiration too, *)
(* and the nonce.                                                           *)
PermitAccepted(permit) ==
    permit.sound /\ now <= permit.deadline /\ permit.nonce = allowance.nonce

(* It replaces whatever allowance there was.                                *)
activatePermit(p, permit, amount) ==
    /\ allowance' = [amount |-> amount, expires |-> permit.deadline,
                     nonce |-> permit.nonce + 1]
    /\ usedBy' = [usedBy EXCEPT ![permit.nonce] = p]
    /\ holder' = p
    /\ UNCHANGED collected

(* executeSwapViaPermit2; the router refuses a price that gives less than   *)
(* minAmountOut.                                                            *)
RouterPays(amount, bps, price) ==
    Worth(swapAmount(amount, bps), price) >= computeMinAmountOut(amount)

SwapAccepted(amount, bps) ==
    /\ amount > 0 /\ bps <= MAX_FEE_BPS
    /\ now <= allowance.expires /\ amount <= allowance.amount
    /\ \E price \in Prices : RouterPays(amount, bps, price)

executeSwapViaPermit2(p, amount, bps) ==
    /\ allowance' = [allowance EXCEPT !.amount = @ - amount]
    /\ holder' = IF holder = p THEN p ELSE Nobody
    /\ collected' = [collected EXCEPT ![p] = @ + feeAmount(amount, bps)]
    /\ UNCHANGED usedBy

-----------------------------------------------------------------------------
(* OpenPosition, and the calls that write without the lock.                 *)

(* ValidatePermitForPosition; token, spender and sigDeadline are set by     *)
(* OpenPosition itself and always match.                                    *)
ValidatePermitForPosition(permit) ==
    /\ permit.sound
    /\ permit.amount >= Size
    /\ permit.deadline > now
    /\ permit.deadline - now >= MinLifetime

OpenPosition(p, permit) ==
    /\ rec[p].state = "none"
    /\ ValidatePermitForPosition(permit)
    /\ rec' = [rec EXCEPT ![p] =
                 [state |-> "open", remaining |-> Size, active |-> Levels, suspended |-> 0,
                  permit |-> permit, activated |-> FALSE]]
    /\ UNCHANGED <<now, chainVars, procVars, call, orphans, reported, calls, faults,
                   historyVars>>

(* A call reads the record and changes what it read, ...                    *)
ReadForUpdate(c, p, renews, record) ==
    /\ calls < MaxCalls /\ calls' = calls + 1
    /\ call[c].pos = Nobody /\ rec[p].state = "open"
    /\ call' = [call EXCEPT ![c] = [pos |-> p, renews |-> renews, record |-> record]]
    /\ UNCHANGED <<now, chainVars, rec, procVars, orphans, reported, faults, historyVars>>

(* The mutant forgets that the new permit needs an activation.              *)
RenewedOnly(r, permit) ==
    [r EXCEPT !.permit = permit, !.active = @ + r.suspended, !.suspended = 0]
Renewed(r, permit) ==
    [r EXCEPT !.permit = permit, !.active = @ + r.suspended, !.suspended = 0,
              !.activated = FALSE]

(* Nothing is validated; without an amount or a nonce the old one stays.    *)
RenewPermit(c, p, permit) == ReadForUpdate(c, p, TRUE, Renewed(rec[p], permit))

(* The new price matters to the trigger engine.                             *)
UpdateLevel(c, p) == rec[p].active >= 1 /\ ReadForUpdate(c, p, FALSE, rec[p])

AddLevel(c, p) == ReadForUpdate(c, p, FALSE, [rec[p] EXCEPT !.active = @ + 1])

(* The level may have any status.                                           *)
RemoveLevel(c, p) ==
    \/ rec[p].active >= 1 /\ ReadForUpdate(c, p, FALSE, [rec[p] EXCEPT !.active = @ - 1])
    \/ rec[p].suspended >= 1 /\ ReadForUpdate(c, p, FALSE, [rec[p] EXCEPT !.suspended = @ - 1])
    \/ ReadForUpdate(c, p, FALSE, rec[p])

CancelPosition(c, p) ==
    ReadForUpdate(c, p, FALSE, [rec[p] EXCEPT !.state = "closed", !.active = 0])

PermitExpired(r) == r.permit.deadline > 0 /\ r.permit.deadline <= now

(* suspendPositionLevels *)
SuspendedAll(r) == [r EXCEPT !.suspended = @ + r.active, !.active = 0]

(* checkPermitExpiry; the record is the one that ListActive returned.       *)
SuspendExpired(c, p) ==
    /\ PermitExpired(rec[p]) /\ rec[p].active >= 1
    /\ ReadForUpdate(c, p, FALSE, SuspendedAll(rec[p]))

(* What a write that brings no permit and no fill of its own takes back: an *)
(* activation, a renewal or a fill recorded since its record was read.      *)
Outdated(p, record) ==
    <<record.permit, record.activated, record.remaining>>
        # <<rec[p].permit, rec[p].activated, rec[p].remaining>>

Overwrite(p, record) ==
    /\ rec' = [rec EXCEPT ![p] = record]
    /\ spent' = IF Outdated(p, record) THEN spent \cup {p} ELSE spent
    /\ unrecorded' = IF Outdated(p, record) THEN unrecorded \cup {p} ELSE unrecorded
    /\ UNCHANGED unreported

(* ... and writes it, over whatever was written since.                      *)
SaveCall(c) ==
    LET p == call[c].pos
    IN  /\ p # Nobody /\ ~call[c].renews
        /\ Overwrite(p, call[c].record)
        /\ call' = [call EXCEPT ![c] = NoCall]
        /\ UNCHANGED <<now, chainVars, procVars, orphans, reported, calls, faults>>

SaveRenewal(c) ==
    LET p == call[c].pos
        r == call[c].record
    IN  /\ p # Nobody /\ call[c].renews
        /\ rec' = [rec EXCEPT ![p] = r]
        /\ spent' = IF r.permit.nonce < allowance.nonce THEN spent \cup {p} ELSE spent \ {p}
        /\ unrecorded' = IF r.remaining # rec[p].remaining THEN unrecorded \cup {p}
                                                           ELSE unrecorded
        /\ call' = [call EXCEPT ![c] = NoCall]
        /\ UNCHANGED <<now, chainVars, procVars, orphans, reported, calls, faults, unreported>>

Fault ==
    faults < MaxFaults /\ faults' = faults + 1

(* Store.Update fails.                                                      *)
CallFails(c) ==
    /\ call[c].pos # Nobody
    /\ Fault
    /\ call' = [call EXCEPT ![c] = NoCall]
    /\ UNCHANGED <<now, chainVars, rec, procVars, orphans, reported, calls, historyVars>>

-----------------------------------------------------------------------------
(* executeTrigger.                                                          *)

GoTo(p, place) == at' = [at EXCEPT ![p] = place]

(* A level fires: Store.Get and the check of the permit.  An expired one    *)
(* suspends the levels of the copy.                                         *)
Execute(p) ==
    /\ at[p] = "idle"
    /\ rec[p].state = "open" /\ rec[p].active >= 1
    /\ \/ /\ PermitExpired(rec[p])
          /\ copy' = [copy EXCEPT ![p] = SuspendedAll(rec[p])]
          /\ GoTo(p, "suspend")
       \/ /\ ~PermitExpired(rec[p])
          /\ copy' = [copy EXCEPT ![p] = rec[p]]
          /\ GoTo(p, IF rec[p].activated THEN "swap" ELSE "activate")
    /\ UNCHANGED <<now, chainVars, rec, fee, call, orphans, reported, calls, faults, historyVars>>

Forget(p) ==
    /\ copy' = [copy EXCEPT ![p] = NoRecord]
    /\ fee' = [fee EXCEPT ![p] = NoFee]

SaveSuspension(p) ==
    /\ at[p] = "suspend"
    /\ \/ Overwrite(p, copy[p]) /\ UNCHANGED faults
       \/ Fault /\ UNCHANGED <<rec, historyVars>>
    /\ GoTo(p, "idle") /\ Forget(p)
    /\ UNCHANGED <<now, chainVars, call, orphans, reported, calls>>

Amount(p) == mulBps(copy[p].remaining, Portion)

(* Before anything is sent a call of the chain fails, or EstimateGas finds  *)
(* that the transaction would revert: the trigger is registered again.      *)
GiveUp(p) ==
    /\ at[p] \in {"activate", "swap"}
    /\ GoTo(p, "idle") /\ Forget(p)
    /\ UNCHANGED <<now, chainVars, rec, call, orphans, reported, calls, faults, historyVars>>

SendActivation(p) ==
    /\ at[p] = "activate"
    /\ PermitAccepted(copy[p].permit)
    /\ GoTo(p, "activating")
    /\ UNCHANGED <<now, chainVars, rec, copy, fee, call, orphans, reported, calls, faults,
                   historyVars>>

(* The fee is what GetFee returned a little earlier.                        *)
SendSwap(p, cfg) ==
    /\ at[p] = "swap"
    /\ SwapAccepted(Amount(p), cfg.bps)
    /\ fee' = [fee EXCEPT ![p] = cfg]
    /\ GoTo(p, "swapping")
    /\ UNCHANGED <<now, chainVars, rec, copy, call, orphans, reported, calls, faults,
                   historyVars>>

(* The allowance asked for.  The mutant asks for what this level sells.     *)
LevelAmount(p) == Amount(p)
AskedAmount(p) == copy[p].permit.amount

ActivationMined(p) ==
    /\ at[p] = "activating"
    /\ PermitAccepted(copy[p].permit)
    /\ activatePermit(p, copy[p].permit, AskedAmount(p))
    /\ GoTo(p, "activated")
    /\ UNCHANGED <<now, rec, copy, fee, call, orphans, reported, calls, faults, historyVars>>

SwapMined(p) ==
    /\ at[p] = "swapping"
    /\ SwapAccepted(Amount(p), fee[p].bps)
    /\ executeSwapViaPermit2(p, Amount(p), fee[p].bps)
    /\ GoTo(p, "swapped")
    /\ UNCHANGED <<now, rec, copy, fee, call, orphans, reported, calls, faults, historyVars>>

(* Something has changed since the estimate, the price at least.            *)
Reverted(p) ==
    /\ \/ at[p] = "activating" /\ ~PermitAccepted(copy[p].permit)
       \/ at[p] = "swapping"
    /\ GoTo(p, "idle") /\ Forget(p)
    /\ UNCHANGED <<now, chainVars, rec, call, orphans, reported, calls, faults, historyVars>>

TxOf(p) ==
    [kind |-> IF at[p] = "activating" THEN "permit" ELSE "swap", pos |-> p,
     permit |-> copy[p].permit,
     amount |-> IF at[p] = "activating" THEN 0 ELSE Amount(p),
     fee |-> fee[p], id |-> faults + 1]

(* SendTransaction returns an error though the node has taken the           *)
(* transaction, or waitForReceipt is interrupted.                           *)
Orphan(p) ==
    /\ at[p] \in {"activating", "swapping"}
    /\ Fault
    /\ orphans' = orphans \cup {TxOf(p)}
    /\ GoTo(p, "idle") /\ Forget(p)
    /\ UNCHANGED <<now, chainVars, rec, call, reported, calls, historyVars>>

(* An activation is recorded before the swap.  The mutant records it after  *)
(* the swap, with that.                                                     *)
RecordLater(p) == rec
RecordActivation(p) == [rec EXCEPT ![p] = [copy[p] EXCEPT !.activated = TRUE]]

(* The flag is set in the copy, and a failed Store.Update is only logged.   *)
SaveActivation(p) ==
    /\ at[p] = "activated"
    /\ copy' = [copy EXCEPT ![p].activated = TRUE]
    /\ \/ /\ rec' = RecordActivation(p)
          /\ UNCHANGED <<faults, historyVars>>
       \/ /\ Fault
          /\ spent' = spent \cup {p}
          /\ UNCHANGED <<rec, unrecorded, unreported>>
    /\ GoTo(p, "swap")
    /\ UNCHANGED <<now, chainVars, fee, call, orphans, reported, calls>>

(* The record of a fill that leaves some levels active; a stop-loss leaves  *)
(* none, CancelOnFire cancels others, and the last fill closes the position.*)
Filled(r, amount, left) ==
    [r EXCEPT !.remaining = @ - amount, !.active = left,
              !.state = IF r.remaining = amount \/ left = 0 THEN "closed" ELSE "open"]

(* storeUpdateWithRetry *)
PersistSwap(p) ==
    /\ at[p] = "swapped"
    /\ \/ /\ \E left \in 0..(copy[p].active - 1) :
               rec' = [rec EXCEPT ![p] = Filled(copy[p], Amount(p), left)]
          /\ spent' = spent \ {p}
          /\ GoTo(p, "persisted")
          /\ UNCHANGED <<copy, fee, faults, unrecorded, unreported>>
       \/ /\ Fault
          /\ unrecorded' = unrecorded \cup {p} /\ unreported' = unreported \cup {p}
          /\ GoTo(p, "idle") /\ Forget(p)
          /\ UNCHANGED <<rec, spent>>
    /\ UNCHANGED <<now, chainVars, call, orphans, reported, calls>>

(* OnExecution *)
ReportSwap(p) ==
    /\ at[p] = "persisted"
    /\ Report(p, Amount(p), fee[p])
    /\ GoTo(p, "idle") /\ Forget(p)
    /\ UNCHANGED <<now, chainVars, rec, call, orphans, calls, faults, historyVars>>

-----------------------------------------------------------------------------
(* MarketSwap in the mode ExecModePermit2Signature: a swap under a          *)
(* single-use signature, which does not touch the allowance.  The host may  *)
(* not learn of it.                                                         *)
MarketSwap(cfg) ==
    /\ calls < MaxCalls /\ calls' = calls + 1
    /\ cfg.bps <= MAX_FEE_BPS
    /\ \E price \in Prices : RouterPays(Size, cfg.bps, price)
    /\ collected' = [collected EXCEPT ![Nobody] = @ + feeAmount(Size, cfg.bps)]
    /\ \/ Report(Nobody, Size, cfg) /\ UNCHANGED <<faults, historyVars>>
       \/ /\ Fault
          /\ unreported' = unreported \cup {Nobody}
          /\ UNCHANGED <<reported, spent, unrecorded>>
    /\ UNCHANGED <<now, allowance, usedBy, holder, rec, procVars, call, orphans>>

-----------------------------------------------------------------------------
(* The environment.                                                         *)

(* A transaction nobody waits for is mined, or dropped.                     *)
LateMined(tx) ==
    /\ orphans' = orphans \ {tx}
    /\ \/ /\ tx.kind = "permit" /\ PermitAccepted(tx.permit)
          /\ activatePermit(tx.pos, tx.permit, tx.permit.amount)
          /\ spent' = spent \cup {tx.pos} /\ UNCHANGED <<unrecorded, unreported>>
       \/ /\ tx.kind = "swap" /\ SwapAccepted(tx.amount, tx.fee.bps)
          /\ executeSwapViaPermit2(tx.pos, tx.amount, tx.fee.bps)
          /\ unrecorded' = unrecorded \cup {tx.pos}
          /\ unreported' = unreported \cup {tx.pos} /\ UNCHANGED spent
       \/ UNCHANGED <<chainVars, historyVars>>
    /\ UNCHANGED <<now, rec, procVars, call, reported, calls, faults>>

(* The process dies.                                                        *)
Crash ==
    LET In(places) == {p \in Positions : at[p] \in places}
    IN  /\ Fault
        /\ (\E p \in Positions : at[p] # "idle") \/ (\E c \in Callers : call[c].pos # Nobody)
        /\ orphans' = orphans \cup {TxOf(p) : p \in In({"activating", "swapping"})}
        /\ spent' = spent \cup In({"activated"})
        /\ unrecorded' = unrecorded \cup In({"swapped"})
        /\ unreported' = unreported \cup In({"swapped", "persisted"})
        /\ at' = [p \in Positions |-> "idle"]
        /\ copy' = [p \in Positions |-> NoRecord] /\ fee' = [p \in Positions |-> NoFee]
        /\ call' = [c \in Callers |-> NoCall]
        /\ UNCHANGED <<now, chainVars, rec, reported, calls>>

Tick ==
    /\ now < MaxNow /\ now' = now + 1
    /\ UNCHANGED <<chainVars, rec, procVars, call, orphans, reported, calls, faults,
                   historyVars>>

ExecuteStep(p) ==
    \/ Execute(p) \/ SaveSuspension(p) \/ GiveUp(p)
    \/ SendActivation(p) \/ ActivationMined(p) \/ SaveActivation(p)
    \/ \E cfg \in FeeConfigs : SendSwap(p, cfg)
    \/ SwapMined(p) \/ PersistSwap(p) \/ ReportSwap(p)
    \/ Reverted(p) \/ Orphan(p)

CallStep(c) ==
    \/ \E p \in Positions :
         \/ \E permit \in Permits : RenewPermit(c, p, permit)
         \/ UpdateLevel(c, p) \/ AddLevel(c, p) \/ RemoveLevel(c, p)
         \/ CancelPosition(c, p) \/ SuspendExpired(c, p)
    \/ SaveCall(c) \/ SaveRenewal(c) \/ CallFails(c)

Next ==
    \/ \E p \in Positions :
         \/ \E permit \in Permits : OpenPosition(p, permit)
         \/ ExecuteStep(p)
    \/ \E c \in Callers : CallStep(c)
    \/ \E cfg \in FeeConfigs : MarketSwap(cfg)
    \/ \E tx \in orphans : LateMined(tx)
    \/ Crash \/ Tick

Spec == Init /\ [][Next]_vars

-----------------------------------------------------------------------------
(* A record that says "activated" names a permit that was activated on      *)
(* chain, for this position, whatever calls, late transactions, overwritten *)
(* records and crashes do.                                                  *)
FlagMeansActivated ==
    \A p \in Positions :
        rec[p].activated => /\ rec[p].permit.nonce < allowance.nonce
                            /\ usedBy[rec[p].permit.nonce] = p

(* A permit that is yet to be activated though its nonce is used, so that   *)
(* every execution of the position fails until it is renewed, has a reason: *)
(* the activation is about to be recorded; another position of the owner    *)
(* signed the same nonce; the activation was never recorded (Store.Update   *)
(* failed, the process died, or the transaction was mined after the keeper  *)
(* had given it up); a write without the lock or a suspension, from an      *)
(* older record, took it or a renewal back; or RenewPermit was given, or    *)
(* met, a used nonce.  A fill that is recorded, or a renewal with a new     *)
(* nonce, ends it.                                                          *)
SpentOnlyIfLost ==
    \A p \in Positions :
        ~rec[p].activated /\ rec[p].permit.nonce < allowance.nonce
            => \/ at[p] = "activated"
               \/ usedBy[rec[p].permit.nonce] # p
               \/ p \in spent

(* One signature covers all levels of the position: the allowance is never  *)
(* less than what remains to be sold, as long as it comes from a permit for *)
(* the position's size, no other position has replaced or drawn on it, and  *)
(* the record is right: no swap went unrecorded, and no write from an older *)
(* record took a fill, a renewal or an activation back.                     *)
Unsaved(p) == IF at[p] = "swapped" THEN Amount(p) ELSE 0

AllowanceCoversPosition ==
    \A p \in Positions :
        (/\ holder = p /\ rec[p].activated
         /\ rec[p].permit.amount >= Size /\ p \notin unrecorded)
            => allowance.amount + Unsaved(p) >= rec[p].remaining

(* The keeper's minimum, the contract's fee and the pool fit together for a *)
(* long position, with the rounding of each of them in the units of the two *)
(* tokens: when the fee is within the slippage, and that is no more than    *)
(* the whole, the router never refuses the trigger price.                   *)
SellsAtTrigger ==
    \A p \in Positions, cfg \in FeeConfigs :
        at[p] = "swap" /\ cfg.bps <= Slippage /\ Slippage <= FullBps
            => RouterPays(Amount(p), cfg.bps, Trigger)

(* The fees the host was told of are the fees the contract collected, for   *)
(* every position and for MarketSwap, between executions, unless a report   *)
(* was lost: the process died before it, the fill could not be recorded, or *)
(* the keeper had given up on the swap.                                     *)
Unreported(p) ==
    IF p \in Positions /\ at[p] \in {"swapped", "persisted"}
    THEN feeAmount(Amount(p), fee[p].bps) ELSE 0

FeesMatch ==
    \A p \in Payers : p \notin unreported =>
        collected[p] = reported[p].platform + reported[p].referral + Unreported(p)

-----------------------------------------------------------------------------
(* The inductive invariant behind these properties.                         *)

Activating == {"activate", "activating", "activated"}
Swapping   == {"swap", "swapping", "swapped", "persisted"}

(* An execution works on an open position, whose permit is activated from   *)
(* the swap on; until then nobody else records it as activated.             *)
PhaseInv ==
    \A p \in Positions :
        /\ at[p] # "idle" => copy[p].state = "open"
        /\ at[p] \notin {"idle", "suspend"} => copy[p].active >= 1
        /\ at[p] \in Activating =>
             ~copy[p].activated /\ (p \notin unrecorded => ~rec[p].activated)
        /\ at[p] \in Swapping => copy[p].activated

CallInv ==
    \A c \in Callers :
        /\ call[c].renews => ~call[c].record.activated
        /\ call[c].pos # Nobody => call[c].record.state # "none"
        /\ call[c].pos = Nobody => ~call[c].record.activated

(* A position that was never opened has left no trace.                      *)
NoneInv ==
    \A p \in Positions : rec[p].state = "none" =>
        /\ at[p] = "idle" /\ ~rec[p].activated
        /\ \A c \in Callers : call[c].pos # p
        /\ \A n \in Nonces : usedBy[n] # p
        /\ \A tx \in orphans : tx.pos # p

Used(p, n) == n < allowance.nonce /\ usedBy[n] = p

UsedInv ==
    /\ \A p \in Positions :
         /\ rec[p].activated => Used(p, rec[p].permit.nonce)
         /\ copy[p].activated \/ at[p] = "activated" => Used(p, copy[p].permit.nonce)
    /\ \A c \in Callers :
         call[c].record.activated => Used(call[c].pos, call[c].record.permit.nonce)

(* An activation in flight has the next nonce or an older one; an older one *)
(* once the position has been activated.                                    *)
OrphanInv ==
    /\ \A p \in Positions : at[p] = "activating" => copy[p].permit.nonce <= allowance.nonce
    /\ \A tx \in orphans : tx.kind = "permit" =>
         /\ tx.permit.nonce <= allowance.nonce
         /\ /\ tx.pos \notin unrecorded
            /\ rec[tx.pos].activated \/ at[tx.pos] \in Swapping \cup {"activated"}
           => tx.permit.nonce < allowance.nonce

(* What AllowanceCoversPosition says of the record holds of the copy of an  *)
(* execution that has not yet recorded its swap.                            *)
CoverInv ==
    \A p \in Positions : holder = p /\ p \notin unrecorded =>
        /\ at[p] = "activated" => allowance.amount >= copy[p].permit.amount
        /\ at[p] \in {"swap", "swapping", "swapped"} /\ copy[p].permit.amount >= Size
             => allowance.amount + Unsaved(p) >= copy[p].remaining

IInv ==
    /\ TypeOK /\ PhaseInv /\ CallInv /\ NoneInv /\ UsedInv /\ OrphanInv
    /\ SpentOnlyIfLost /\ AllowanceCoversPosition /\ CoverInv /\ FeesMatch
=============================================================================
