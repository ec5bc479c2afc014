----------------------- MODULE PermitExecutionProofs -----------------------
(****************************************************************************)
(* The safety properties of PermitExecution, for any positions, permits,    *)
(* prices, fees and slippage.                                               *)
(****************************************************************************)
EXTENDS PermitExecution, TLAPS

-----------------------------------------------------------------------------
(* Amounts.                                                                 *)

(* The floor of a quotient.                                                 *)
LEMMA Quotient ==
    ASSUME NEW n \in Nat, NEW d \in Nat \ {0}
    PROVE  /\ n \div d \in Nat /\ d * (n \div d) <= n
           /\ \A m \in Nat : d * m <= n => m <= n \div d
<1>1. n \div d \in Int /\ d * (n \div d) <= n /\ n < d * (n \div d) + d
  BY Z3
<1> DEFINE quotient == n \div d
<1>2. quotient \in Int /\ d * quotient <= n /\ n < d * quotient + d
  BY <1>1
<1> HIDE DEF quotient
<1>3. quotient >= 0
  <2> SUFFICES ASSUME quotient <= -1 PROVE FALSE
    BY <1>2
  <2>1. d * quotient <= -d
    BY <1>2, Z3
  <2>2. d * quotient \in Int
    BY <1>2, Z3
  <2> DEFINE product == d * quotient
  <2> HIDE DEF product
  <2>3. product \in Int /\ product <= -d /\ n < product + d
    BY <1>2, <2>1, <2>2 DEF product
  <2> QED BY <2>3
<1>4. ASSUME NEW m \in Nat, d * m <= n PROVE m <= quotient
  <2> SUFFICES ASSUME quotient + 1 <= m PROVE FALSE
    BY <1>2
  <2>1. d * quotient + d <= d * m
    <3>1. d * (quotient + 1) <= d * m
      BY <1>2, Z3
    <3>2. d * (quotient + 1) = d * quotient + d
      BY <1>2, Z3
    <3> QED BY <3>1, <3>2
  <2>2. d * quotient \in Int /\ d * m \in Int
    BY <1>2, Z3
  <2> DEFINE low == d * quotient
             high == d * m
  <2> HIDE DEF low, high
  <2>3. low \in Int /\ high \in Int /\ n < low + d /\ low + d <= high /\ high <= n
    BY <1>2, <1>4, <2>1, <2>2 DEF low, high
  <2> QED BY <2>3
<1>5. quotient \in Nat /\ \A m \in Nat : d * m <= n => m <= quotient
  BY <1>2, <1>3, <1>4
<1> QED BY <1>2, <1>5 DEF quotient

(* A part in basis points is no more than the whole.                        *)
LEMMA PartOfWhole ==
    ASSUME NEW amount \in Nat, NEW bps \in Nat, bps <= FullBps
    PROVE  mulBps(amount, bps) \in 0..amount
<1>1. amount * bps \in Nat /\ amount * bps <= amount * 10000
  BY Z3 DEF FullBps
<1>2. (amount * bps) \div 10000 \in Nat /\ 10000 * ((amount * bps) \div 10000) <= amount * bps
  <2> DEFINE product == amount * bps
  <2>1. product \in Nat
    BY <1>1
  <2> HIDE DEF product
  <2>2. product \div 10000 \in Nat /\ 10000 * (product \div 10000) <= product
    BY <2>1, Z3
  <2> QED BY <2>2 DEF product
<1>3. (amount * bps) \div 10000 <= amount
  <2> DEFINE part    == (amount * bps) \div 10000
             product == amount * bps
  <2>1. part \in Nat /\ product \in Nat /\ 10000 * part <= product /\ product <= amount * 10000
    BY <1>1, <1>2
  <2> HIDE DEF part, product
  <2>2. part <= amount
    BY <2>1
  <2> QED BY <2>2 DEF part
<1> QED BY <1>2, <1>3 DEF mulBps, FullBps

(* Any rate in basis points gives a natural number.                         *)
LEMMA PartIsNat ==
    ASSUME NEW amount \in Nat, NEW bps \in Nat
    PROVE  /\ mulBps(amount, bps) \in Nat /\ feeAmount(amount, bps) \in Nat
           /\ feeAmount(amount, bps) = mulBps(amount, bps)
<1> DEFINE product == amount * bps
<1>1. product \in Nat
  BY Z3
<1> HIDE DEF product
<1>2. product \div 10000 \in Nat
  BY <1>1, Z3
<1> QED BY <1>2 DEF product, mulBps, feeAmount, FullBps

(* The shares that are reported add up to the fee.                          *)
LEMMA SharesOfFee ==
    ASSUME NEW amount \in Nat, NEW cfg, cfg.bps \in Nat, cfg.share \in Nat
    PROVE  LET result == computeFeeResult(amount, cfg)
           IN  /\ result.platform \in Int /\ result.referral \in Nat
               /\ result.platform + result.referral = feeAmount(amount, cfg.bps)
<1> DEFINE total    == TotalFee(amount, cfg.bps)
           referral == IF cfg.referrer THEN mulBps(total, cfg.share) ELSE 0
<1>1. total \in Nat /\ total = feeAmount(amount, cfg.bps)
  BY PartIsNat DEF TotalFee
<1> HIDE DEF total
<1>2. referral \in Nat
  BY <1>1, PartIsNat
<1>3. computeFeeResult(amount, cfg) = [platform |-> total - referral, referral |-> referral]
  BY DEF computeFeeResult, total
<1> HIDE DEF referral
<1> QED BY <1>1, <1>2, <1>3

(* What the router pays at the trigger price is at least the minimum, for a *)
(* fee within the slippage, though the minimum is rounded down twice.       *)
LEMMA TriggerPriceSuffices ==
    ASSUME NEW amount \in Nat, NEW bps \in Nat, bps <= Slippage, Slippage <= FullBps
    PROVE  RouterPays(amount, bps, Trigger)
<1> DEFINE rate  == Trigger * UnitOut
           unit  == UnitIn * PriceScale
           keep  == 10000 - Slippage
           gross == amount * rate
           worth == (amount * Trigger * UnitOut) \div unit
           least == (worth * keep) \div 10000
           tax   == (amount * bps) \div 10000
           net   == amount - tax
<1>1. Trigger \in Nat /\ UnitOut \in Nat /\ UnitIn \in Nat \ {0} /\ PriceScale \in Nat \ {0}
  BY PermitAssumption
<1>2. rate \in Nat /\ unit \in Nat \ {0} /\ gross \in Nat /\ amount * Trigger * UnitOut = gross
  <2>1. rate \in Nat
    BY <1>1, Z3
  <2>2. unit \in Nat /\ unit # 0
    BY <1>1, Z3
  <2>3. amount * Trigger * UnitOut = gross
    BY <1>1, Z3
  <2>4. gross \in Nat
    <3> HIDE DEF rate
    <3> QED BY <2>1, Z3
  <2> QED BY <2>1, <2>2, <2>3, <2>4
<1>3. Slippage \in Nat /\ keep \in Nat /\ keep <= 10000 - bps /\ keep % 65536 = keep
  BY PermitAssumption DEF FullBps
<1>4. worth \in Nat /\ unit * worth <= gross
  <2> HIDE DEF unit, gross
  <2> QED BY <1>2, Quotient
<1>5. least \in Nat /\ 10000 * least <= worth * keep
  <2> HIDE DEF worth, keep
  <2>1. worth * keep \in Nat
    BY <1>3, <1>4, Z3
  <2>2. 10000 \in Nat \ {0}
    OBVIOUS
  <2> QED BY <2>1, <2>2, Quotient
<1>6. tax \in Nat /\ 10000 * tax <= amount * bps /\ tax <= amount
  <2>0. bps <= 10000
    BY <1>3
  <2>1. amount * bps \in Nat /\ amount * bps <= amount * 10000
    BY <2>0, Z3
  <2>2. 10000 \in Nat \ {0}
    OBVIOUS
  <2>3. tax \in Nat /\ 10000 * tax <= amount * bps
    BY <2>1, <2>2, Quotient
  <2> DEFINE product == amount * bps
  <2> HIDE DEF tax, product
  <2>4. product \in Nat /\ product <= amount * 10000 /\ 10000 * tax <= product
    BY <2>1, <2>3 DEF product
  <2> QED BY <2>3, <2>4
<1>7. net \in Nat /\ net * Trigger * UnitOut = net * rate
  <2>1. net \in Nat
    BY <1>6
  <2> HIDE DEF net
  <2> QED BY <1>1, <2>1, Z3
<1> HIDE DEF rate, unit, keep, worth, least, tax
\* Ten thousand times both sides.
<1>8. unit * least <= net * rate
  <2> DEFINE floor == unit * least
             cut   == tax * rate
             fees  == gross * bps
             part  == unit * (worth * keep)
  <2>1. floor \in Nat /\ cut \in Nat /\ fees \in Nat
    <3> HIDE DEF gross
    <3> QED BY <1>2, <1>5, <1>6, Z3
  <2>2. 10000 * floor <= part
    <3>1. unit * (10000 * least) <= unit * (worth * keep)
      BY <1>2, <1>3, <1>4, <1>5, Z3
    <3>2. unit * (10000 * least) = 10000 * (unit * least)
      BY <1>2, <1>5, Z3
    <3> QED BY <3>1, <3>2
  <2>3. part <= gross * keep
    <3>1. part = (unit * worth) * keep
      BY <1>2, <1>3, <1>4, Z3
    <3>2. (unit * worth) * keep <= gross * keep
      <4> HIDE DEF gross
      <4>1. unit * worth \in Nat
        BY <1>2, <1>4, Z3
      <4> QED BY <1>2, <1>3, <1>4, <4>1, Z3
    <3> QED BY <3>1, <3>2
  <2>4. gross * keep <= 10000 * gross - fees
    <3> HIDE DEF gross
    <3>1. gross * keep <= gross * (10000 - bps)
      BY <1>2, <1>3, Z3
    <3>2. gross * (10000 - bps) = 10000 * gross - gross * bps
      BY <1>2, Z3
    <3> QED BY <3>1, <3>2
  <2>5. 10000 * cut <= fees
    <3>1. (10000 * tax) * rate <= (amount * bps) * rate
      <4>1. amount * bps \in Nat
        BY Z3
      <4> QED BY <1>2, <1>6, <4>1, Z3
    <3>2. (10000 * tax) * rate = 10000 * (tax * rate)
      BY <1>2, <1>6, Z3
    <3>3. (amount * bps) * rate = (amount * rate) * bps
      BY <1>2, Z3
    <3> QED BY <3>1, <3>2, <3>3
  <2>6. net * rate = gross - cut
    BY <1>2, <1>6, Z3
  <2>7. part \in Int /\ gross * keep \in Int
    <3> HIDE DEF gross
    <3>1. worth * keep \in Nat
      BY <1>3, <1>4, Z3
    <3> QED BY <1>2, <1>3, <3>1, Z3
  <2> DEFINE kept == gross * keep
             paid == net * rate
  <2> HIDE DEF gross, floor, cut, fees, part, kept, paid
  <2>8. /\ part \in Int /\ kept \in Int /\ gross \in Nat
        /\ 10000 * floor <= part /\ part <= kept /\ kept <= 10000 * gross - fees
        /\ 10000 * cut <= fees /\ paid = gross - cut
    BY <1>2, <2>2, <2>3, <2>4, <2>5, <2>6, <2>7 DEF kept, paid
  <2>9. floor <= paid
    BY <2>1, <2>8
  <2> QED BY <2>9 DEF floor, paid
<1>9. least <= (net * rate) \div unit
  <2>1. net * rate \in Nat
    <3> HIDE DEF net
    <3> QED BY <1>2, <1>7, Z3
  <2> DEFINE paid == net * rate
  <2> HIDE DEF paid
  <2>2. paid \in Nat /\ unit * least <= paid
    BY <1>8, <2>1 DEF paid
  <2>3. least <= paid \div unit
    BY <1>2, <1>5, <2>2, Quotient
  <2> QED BY <2>3 DEF paid
<1>10. Worth(swapAmount(amount, bps), Trigger) = (net * rate) \div unit
  BY <1>7 DEF Worth, swapAmount, feeAmount, FullBps, net, tax, unit
<1>11. computeMinAmountOut(amount) = least
  BY <1>3 DEF computeMinAmountOut, Worth, FullBps, MaxUint16, least, worth, keep, unit
<1> QED BY <1>9, <1>10, <1>11 DEF RouterPays
-----------------------------------------------------------------------------
(* Types.                                                                   *)

LEMMA FeeTypes ==
    /\ NoFee.bps \in Nat /\ NoFee.share \in Nat
    /\ \A cfg \in FeeConfigs \cup {NoFee} : cfg.bps \in Nat /\ cfg.share \in Nat
<1>1. NoFee.bps \in Nat /\ NoFee.share \in Nat
  BY DEF NoFee
<1>2. ASSUME NEW cfg \in FeeConfigs PROVE cfg.bps \in Nat /\ cfg.share \in Nat
  <2>1. cfg \in [bps : 0..MaxUint16, share : 0..MaxUint16, referrer : BOOLEAN]
    BY PermitAssumption
  <2>2. cfg.bps \in 0..MaxUint16 /\ cfg.share \in 0..MaxUint16
    BY <2>1
  <2>3. \A n \in 0..MaxUint16 : n \in Nat
    BY DEF MaxUint16
  <2> QED BY <2>2, <2>3
<1> QED BY <1>1, <1>2

LEMMA AmountType ==
    ASSUME TypeOK, NEW p \in Positions
    PROVE  /\ Amount(p) \in Nat /\ Amount(p) \in 0..Size /\ Amount(p) <= copy[p].remaining
           /\ fee[p].bps \in Nat /\ fee[p].share \in Nat
           /\ feeAmount(Amount(p), fee[p].bps) \in Nat
<1>1. copy[p].remaining \in Nat /\ copy[p].remaining <= Size
  <2>1. copy[p] \in PositionRecord
    BY DEF TypeOK
  <2>2. copy[p].remaining \in 0..Size
    BY <2>1 DEF PositionRecord
  <2> QED BY <2>2, PermitAssumption
<1>2. fee[p].bps \in Nat /\ fee[p].share \in Nat
  BY FeeTypes DEF TypeOK
<1>3. Amount(p) \in 0..copy[p].remaining
  BY <1>1, PartOfWhole, PermitAssumption DEF Amount
<1>4. Amount(p) \in Nat /\ Amount(p) \in 0..Size /\ Amount(p) <= copy[p].remaining
  BY <1>1, <1>3, PermitAssumption
<1> QED BY <1>2, <1>4, PartIsNat

LEMMA RecordTypes ==
    /\ NoRecord \in PositionRecord /\ NoCall \in CallRecord
    /\ \A permit \in Permits : /\ permit.nonce \in Nonces /\ permit.nonce \in Nat
                               /\ permit.amount \in Nat /\ permit.deadline \in Nat
    /\ \A r \in PositionRecord : [r EXCEPT !.activated = TRUE] \in PositionRecord
<1>1. ASSUME NEW permit \in Permits
      PROVE  /\ permit.nonce \in Nonces /\ permit.nonce \in Nat
             /\ permit.amount \in Nat /\ permit.deadline \in Nat
  <2>1. permit \in [amount : Nat, nonce : Nonces, deadline : Nat, sound : BOOLEAN]
    BY PermitAssumption
  <2>2. permit.nonce \in Nat
    BY <2>1, PermitAssumption DEF Nonces
  <2> QED BY <2>1, <2>2
<1>2. NoPermit \in Permits
  BY PermitAssumption DEF NoPermit
<1>3. NoRecord \in PositionRecord
  BY <1>2, PermitAssumption DEF NoRecord, PositionRecord
<1>4. NoCall \in CallRecord
  BY <1>3 DEF NoCall, CallRecord
<1>5. ASSUME NEW r \in PositionRecord PROVE [r EXCEPT !.activated = TRUE] \in PositionRecord
  BY DEF PositionRecord
<1> QED BY <1>1, <1>3, <1>4, <1>5

LEMMA MarkedFields ==
    ASSUME NEW r \in PositionRecord, NEW marked, marked = [r EXCEPT !.activated = TRUE]
    PROVE  /\ marked.state = r.state /\ marked.active = r.active
           /\ marked.remaining = r.remaining /\ marked.permit = r.permit
           /\ marked.activated = TRUE
<1>1. /\ marked.state = r.state /\ marked.active = r.active
      /\ marked.remaining = r.remaining /\ marked.permit = r.permit
  BY DEF PositionRecord
<1>2. marked.activated = TRUE
  BY DEF PositionRecord
<1> QED BY <1>1, <1>2

LEMMA SuspendedFields ==
    ASSUME NEW r \in PositionRecord
    PROVE  /\ SuspendedAll(r) \in PositionRecord
           /\ SuspendedAll(r).state = r.state /\ SuspendedAll(r).remaining = r.remaining
           /\ SuspendedAll(r).permit = r.permit /\ SuspendedAll(r).activated = r.activated
<1>1. r.suspended + r.active \in Nat
  BY DEF PositionRecord
<1>2. SuspendedAll(r) \in PositionRecord
  BY <1>1 DEF SuspendedAll, PositionRecord
<1>3. /\ SuspendedAll(r).state = r.state /\ SuspendedAll(r).remaining = r.remaining
      /\ SuspendedAll(r).permit = r.permit
  BY DEF SuspendedAll, PositionRecord
<1>4. SuspendedAll(r).activated = r.activated
  BY DEF SuspendedAll, PositionRecord
<1> QED BY <1>2, <1>3, <1>4

LEMMA FilledFields ==
    ASSUME NEW r \in PositionRecord, r.active >= 1, NEW amount \in Nat, amount <= r.remaining,
           NEW left \in 0..(r.active - 1)
    PROVE  /\ Filled(r, amount, left) \in PositionRecord
           /\ Filled(r, amount, left).state # "none"
           /\ Filled(r, amount, left).permit = r.permit
           /\ Filled(r, amount, left).remaining = r.remaining - amount
           /\ Filled(r, amount, left).activated = r.activated
<1>1. r.remaining - amount \in 0..Size /\ left \in Nat
  BY PermitAssumption DEF PositionRecord
<1>2. Filled(r, amount, left) \in PositionRecord
  BY <1>1 DEF Filled, PositionRecord
<1>3. /\ Filled(r, amount, left).state # "none"
      /\ Filled(r, amount, left).permit = r.permit
      /\ Filled(r, amount, left).remaining = r.remaining - amount
  BY DEF Filled, PositionRecord
<1>4. Filled(r, amount, left).activated = r.activated
  BY DEF Filled, PositionRecord
<1> QED BY <1>2, <1>3, <1>4

LEMMA TxType ==
    ASSUME TypeOK, NEW p \in Positions, faults < MaxFaults
    PROVE  TxOf(p) \in Tx
<1>1. faults + 1 \in 1..MaxFaults /\ 0 \in 0..Size
  BY PermitAssumption DEF TypeOK
<1>2. copy[p].permit \in Permits /\ fee[p] \in FeeConfigs \cup {NoFee}
  BY DEF TypeOK, PositionRecord
<1> QED BY <1>1, <1>2, AmountType DEF TxOf, Tx

LEMMA ReportType ==
    ASSUME TypeOK, NEW p \in Payers, NEW amount \in Nat, NEW cfg, cfg.bps \in Nat,
           cfg.share \in Nat, Report(p, amount, cfg)
    PROVE  /\ reported' \in [Payers -> Shares]
           /\ reported'[p].platform + reported'[p].referral
                = reported[p].platform + reported[p].referral + feeAmount(amount, cfg.bps)
           /\ \A q \in Payers \ {p} : reported'[q] = reported[q]
<1> DEFINE result == computeFeeResult(amount, cfg)
<1>1. /\ result.platform \in Int /\ result.referral \in Nat
      /\ result.platform + result.referral = feeAmount(amount, cfg.bps)
  BY SharesOfFee
<1>2. reported' = [reported EXCEPT ![p] = [platform |-> @.platform + result.platform,
                                           referral |-> @.referral + result.referral]]
  BY DEF Report
<1> HIDE DEF result
<1>3. reported \in [Payers -> Shares] /\ reported[p] \in Shares
  BY DEF TypeOK
<1>4. reported[p].platform \in Int /\ reported[p].referral \in Nat
  BY <1>3 DEF Shares
<1>5. reported'[p] = [platform |-> reported[p].platform + result.platform,
                      referral |-> reported[p].referral + result.referral]
  BY <1>2, <1>3
<1>6. reported'[p] \in Shares
  BY <1>1, <1>4, <1>5 DEF Shares
<1>7. \A q \in Payers \ {p} : reported'[q] = reported[q]
  BY <1>2, <1>3
<1>8. reported' \in [Payers -> Shares]
  BY <1>2, <1>3, <1>6, <1>7
<1>9. reported'[p].platform + reported'[p].referral
        = reported[p].platform + reported[p].referral + feeAmount(amount, cfg.bps)
  <2>1. /\ reported'[p].platform = reported[p].platform + result.platform
        /\ reported'[p].referral = reported[p].referral + result.referral
    BY <1>5
  <2> QED BY <1>1, <1>4, <2>1
<1> QED BY <1>7, <1>8, <1>9

-----------------------------------------------------------------------------
(* The calls.                                                               *)

CallTypes(c) ==
    /\ call[c].pos \in Positions \cup {Nobody} /\ call[c].renews \in BOOLEAN
    /\ call[c].record \in PositionRecord

LEMMA CallType == ASSUME TypeOK, NEW c \in Callers PROVE CallTypes(c)
<1>1. call[c] \in CallRecord
  BY DEF TypeOK
<1>2. call[c].pos \in Positions \cup {Nobody} /\ call[c].record \in PositionRecord
  BY <1>1 DEF CallRecord
<1>3. call[c].renews \in BOOLEAN
  BY <1>1 DEF CallRecord
<1> QED BY <1>2, <1>3 DEF CallTypes

(* The first half of a call.                                                *)
Reads(c, p, renews, record) ==
    /\ ReadForUpdate(c, p, renews, record)
    /\ renews \in BOOLEAN /\ record \in PositionRecord /\ record.state # "none"
    /\ renews => ~record.activated
    /\ record.activated => rec[p].activated /\ record.permit = rec[p].permit

ReadStep(c, p) ==
    \/ \E permit \in Permits : RenewPermit(c, p, permit)
    \/ UpdateLevel(c, p) \/ AddLevel(c, p) \/ RemoveLevel(c, p)
    \/ CancelPosition(c, p) \/ SuspendExpired(c, p)

LEMMA CallReads ==
    ASSUME TypeOK, NEW c \in Callers, NEW p \in Positions, ReadStep(c, p)
    PROVE  \E renews, record : Reads(c, p, renews, record)
<1>0. rec[p] \in PositionRecord /\ rec[p].active \in Nat /\ rec[p].suspended \in Nat
  BY DEF TypeOK, PositionRecord
<1> DEFINE Changed(record) ==
             /\ ReadForUpdate(c, p, FALSE, record)
             /\ record \in PositionRecord /\ record.state # "none"
             /\ record.activated = rec[p].activated /\ record.permit = rec[p].permit
<1>a. ASSUME NEW record, Changed(record) PROVE Reads(c, p, FALSE, record)
  <2>1. record.activated => rec[p].activated /\ record.permit = rec[p].permit
    BY <1>a
  <2> QED BY <1>a, <2>1 DEF Reads
<1>b. ASSUME NEW record, ReadForUpdate(c, p, FALSE, record), record \in PositionRecord,
             record.state # "none", record.permit = rec[p].permit,
             record.activated = rec[p].activated
      PROVE  \E renews, r : Reads(c, p, renews, r)
  <2>1. Changed(record)
    BY <1>b
  <2> HIDE DEF Changed
  <2>2. Reads(c, p, FALSE, record)
    BY <1>a, <2>1
  <2> QED BY <2>2
<1> HIDE DEF Changed
<1>1. ASSUME NEW permit \in Permits, RenewPermit(c, p, permit)
      PROVE  \E renews, record : Reads(c, p, renews, record)
  <2> DEFINE record == Renewed(rec[p], permit)
  <2>1. rec[p].active + rec[p].suspended \in Nat
    BY <1>0
  <2>2. record \in PositionRecord
    BY <1>0, <2>1 DEF Renewed, PositionRecord
  <2>3. record.state = rec[p].state /\ ~record.activated
    BY <1>0 DEF Renewed, PositionRecord
  <2>4. ReadForUpdate(c, p, TRUE, record)
    BY <1>1 DEF RenewPermit
  <2>5. rec[p].state = "open"
    BY <2>4 DEF ReadForUpdate
  <2> HIDE DEF record
  <2>6. Reads(c, p, TRUE, record)
    BY <2>2, <2>3, <2>4, <2>5 DEF Reads
  <2> QED BY <2>6
<1>2. ASSUME NEW count \in Nat, NEW record,
             \/ record = rec[p] \/ record = [rec[p] EXCEPT !.active = count]
             \/ record = [rec[p] EXCEPT !.suspended = count],
             ReadForUpdate(c, p, FALSE, record)
      PROVE  \E renews, r : Reads(c, p, renews, r)
  <2>1. record \in PositionRecord
    BY <1>0, <1>2 DEF PositionRecord
  <2>2. record.state = rec[p].state /\ record.permit = rec[p].permit
    BY <1>0, <1>2 DEF PositionRecord
  <2>3. record.activated = rec[p].activated
    BY <1>0, <1>2 DEF PositionRecord
  <2>4. rec[p].state = "open"
    BY <1>2 DEF ReadForUpdate
  <2>5. record.state # "none"
    BY <2>2, <2>4
  <2> QED BY <1>2, <1>b, <2>1, <2>2, <2>3, <2>5
<1>3. ASSUME UpdateLevel(c, p) PROVE \E renews, record : Reads(c, p, renews, record)
  BY <1>2, <1>3 DEF UpdateLevel
<1>4. ASSUME AddLevel(c, p) PROVE \E renews, record : Reads(c, p, renews, record)
  <2>1. rec[p].active + 1 \in Nat
    BY <1>0
  <2> QED BY <1>2, <1>4, <2>1 DEF AddLevel
<1>5. ASSUME RemoveLevel(c, p) PROVE \E renews, record : Reads(c, p, renews, record)
  <2>1. CASE rec[p].active >= 1 /\ ReadForUpdate(c, p, FALSE, [rec[p] EXCEPT !.active = @ - 1])
    <3>1. rec[p].active - 1 \in Nat
      BY <1>0, <2>1
    <3> QED BY <1>2, <2>1, <3>1
  <2>2. CASE /\ rec[p].suspended >= 1
             /\ ReadForUpdate(c, p, FALSE, [rec[p] EXCEPT !.suspended = @ - 1])
    <3>1. rec[p].suspended - 1 \in Nat
      BY <1>0, <2>2
    <3> QED BY <1>2, <2>2, <3>1
  <2>3. CASE ReadForUpdate(c, p, FALSE, rec[p])
    BY <1>2, <2>3
  <2> QED BY <1>5, <2>1, <2>2, <2>3 DEF RemoveLevel
<1>6. ASSUME CancelPosition(c, p) PROVE \E renews, record : Reads(c, p, renews, record)
  <2> DEFINE record == [rec[p] EXCEPT !.state = "closed", !.active = 0]
  <2>1. record \in PositionRecord
    BY <1>0 DEF PositionRecord
  <2>2. record.state = "closed" /\ record.permit = rec[p].permit
    BY <1>0 DEF PositionRecord
  <2>3. record.activated = rec[p].activated
    BY <1>0 DEF PositionRecord
  <2>4. ReadForUpdate(c, p, FALSE, record)
    BY <1>6 DEF CancelPosition
  <2> HIDE DEF record
  <2> QED BY <1>b, <2>1, <2>2, <2>3, <2>4
<1>7. ASSUME SuspendExpired(c, p) PROVE \E renews, record : Reads(c, p, renews, record)
  <2>1. ReadForUpdate(c, p, FALSE, SuspendedAll(rec[p])) /\ rec[p].state = "open"
    BY <1>7 DEF SuspendExpired, ReadForUpdate
  <2>2. /\ SuspendedAll(rec[p]) \in PositionRecord
        /\ SuspendedAll(rec[p]).state = rec[p].state
        /\ SuspendedAll(rec[p]).permit = rec[p].permit
        /\ SuspendedAll(rec[p]).activated = rec[p].activated
    BY <1>0, SuspendedFields
  <2>3. SuspendedAll(rec[p]).state # "none"
    BY <2>1, <2>2
  <2> QED BY <1>b, <2>1, <2>2, <2>3
<1> QED BY <1>1, <1>3, <1>4, <1>5, <1>6, <1>7 DEF ReadStep

(* The second half: what is written differs in nothing that matters from    *)
(* what it is written over, or the histories say so.                        *)
LEMMA Overwritten ==
    ASSUME TypeOK, NEW p \in Positions, NEW record \in PositionRecord, Overwrite(p, record)
    PROVE  /\ rec' \in [Positions -> PositionRecord] /\ rec'[p] = record
           /\ \A q \in Positions : q # p => rec'[q] = rec[q]
           /\ spent \subseteq spent' /\ spent' \subseteq Positions
           /\ unrecorded \subseteq unrecorded' /\ unrecorded' \subseteq Positions
           /\ unreported' = unreported
           /\ \/ p \in spent' /\ p \in unrecorded'
              \/ /\ record.permit = rec[p].permit /\ record.activated = rec[p].activated
                 /\ record.remaining = rec[p].remaining
<1>1. rec' = [rec EXCEPT ![p] = record] /\ rec \in [Positions -> PositionRecord]
  BY DEF Overwrite, TypeOK
<1>2. /\ rec' \in [Positions -> PositionRecord] /\ rec'[p] = record
      /\ \A q \in Positions : q # p => rec'[q] = rec[q]
  BY <1>1
<1>3. /\ spent \subseteq spent' /\ spent' \subseteq Positions
      /\ unrecorded \subseteq unrecorded' /\ unrecorded' \subseteq Positions
      /\ unreported' = unreported
  BY DEF Overwrite, TypeOK
<1>4. CASE Outdated(p, record)
  BY <1>2, <1>3, <1>4 DEF Overwrite
<1>5. CASE ~Outdated(p, record)
  <2>1. <<record.permit, record.activated, record.remaining>>
          = <<rec[p].permit, rec[p].activated, rec[p].remaining>>
    BY <1>5 DEF Outdated
  <2>2. record.permit = rec[p].permit /\ record.remaining = rec[p].remaining
    BY <2>1
  <2>3. record.activated = rec[p].activated
    BY <2>1
  <2> QED BY <1>2, <1>3, <2>2, <2>3
<1> QED BY <1>4, <1>5

LEMMA TypeInit == Init => TypeOK
BY RecordTypes, PermitAssumption DEF Init, TypeOK, Nonces, Payers, Shares, Place

LEMMA TypeStep == TypeOK /\ PhaseInv /\ [Next]_vars => TypeOK'
<1> SUFFICES ASSUME TypeOK, PhaseInv, [Next]_vars PROVE TypeOK'
  OBVIOUS
<1> USE DEF chainVars, procVars, historyVars, GoTo, Forget, Place
<1>1. ASSUME NEW p \in Positions, NEW permit \in Permits, OpenPosition(p, permit) PROVE TypeOK'
  <2>1. Size \in 0..Size /\ Levels \in Nat
    BY PermitAssumption
  <2>2. [state |-> "open", remaining |-> Size, active |-> Levels, suspended |-> 0,
         permit |-> permit, activated |-> FALSE] \in PositionRecord
    BY <2>1 DEF PositionRecord
  <2> QED BY <1>1, <2>2 DEF OpenPosition, TypeOK
<1>2. ASSUME NEW c \in Callers, NEW p \in Positions, NEW renews, NEW record,
             Reads(c, p, renews, record)
      PROVE  TypeOK'
  <2>1. [pos |-> p, renews |-> renews, record |-> record] \in CallRecord
    BY <1>2 DEF Reads, CallRecord
  <2>2. calls' \in 0..MaxCalls
    BY <1>2, PermitAssumption DEF Reads, ReadForUpdate, TypeOK
  <2> QED BY <1>2, <2>1, <2>2 DEF Reads, ReadForUpdate, TypeOK
<1>3. ASSUME NEW c \in Callers, SaveCall(c) PROVE TypeOK'
  <2>1. call[c].pos \in Positions /\ call[c].record \in PositionRecord
    BY <1>3, CallType DEF SaveCall, CallTypes
  <2>2. Overwrite(call[c].pos, call[c].record)
    BY <1>3 DEF SaveCall
  <2>3. /\ rec' \in [Positions -> PositionRecord]
        /\ spent' \subseteq Positions /\ unrecorded' \subseteq Positions
        /\ unreported' = unreported
    BY <2>1, <2>2, Overwritten
  <2> QED BY <1>3, <2>3, RecordTypes DEF SaveCall, TypeOK
<1>4. ASSUME NEW c \in Callers, SaveRenewal(c) PROVE TypeOK'
  <2>1. call[c].pos \in Positions /\ call[c].record \in PositionRecord
    BY <1>4, CallType DEF SaveRenewal, CallTypes
  <2> QED BY <1>4, <2>1, RecordTypes DEF SaveRenewal, TypeOK
<1>5. ASSUME NEW c \in Callers, CallFails(c) PROVE TypeOK'
  <2>1. faults' \in 0..MaxFaults
    BY <1>5, PermitAssumption DEF CallFails, Fault, TypeOK
  <2> QED BY <1>5, <2>1, RecordTypes DEF CallFails, TypeOK
<1>6. ASSUME NEW p \in Positions, Execute(p) PROVE TypeOK'
  <2>1. rec[p] \in PositionRecord /\ SuspendedAll(rec[p]) \in PositionRecord
    BY SuspendedFields DEF TypeOK
  <2> QED BY <1>6, <2>1 DEF Execute, TypeOK
<1>7. ASSUME NEW p \in Positions, SaveSuspension(p) PROVE TypeOK'
  <2>1. copy[p] \in PositionRecord /\ faults' \in 0..MaxFaults
    BY <1>7, PermitAssumption DEF SaveSuspension, Fault, TypeOK
  <2>2. /\ rec' \in [Positions -> PositionRecord]
        /\ spent' \subseteq Positions /\ unrecorded' \subseteq Positions
        /\ unreported' = unreported
    <3>1. CASE Overwrite(p, copy[p])
      BY <2>1, <3>1, Overwritten
    <3>2. CASE UNCHANGED <<rec, historyVars>>
      BY <3>2 DEF TypeOK
    <3> QED BY <1>7, <3>1, <3>2 DEF SaveSuspension
  <2> QED BY <1>7, <2>1, <2>2, RecordTypes DEF SaveSuspension, TypeOK
<1>8. ASSUME NEW p \in Positions, GiveUp(p) PROVE TypeOK'
  BY <1>8, RecordTypes DEF GiveUp, TypeOK
<1>9. ASSUME NEW p \in Positions, SendActivation(p) PROVE TypeOK'
  BY <1>9 DEF SendActivation, TypeOK
<1>10. ASSUME NEW p \in Positions, NEW cfg \in FeeConfigs, SendSwap(p, cfg) PROVE TypeOK'
  BY <1>10 DEF SendSwap, TypeOK
<1>11. ASSUME NEW p \in Positions, ActivationMined(p) PROVE TypeOK'
  <2>1. copy[p].permit \in Permits
    BY DEF TypeOK, PositionRecord
  <2>2. allowance' \in [amount : Nat, expires : Nat, nonce : 0..MaxNonce + 1]
    <3>1. copy[p].permit.nonce + 1 \in 0..MaxNonce + 1
      BY <2>1, RecordTypes, PermitAssumption DEF Nonces
    <3> QED BY <1>11, <2>1, <3>1, RecordTypes DEF ActivationMined, activatePermit, AskedAmount
  <2> QED BY <1>11, <2>1, <2>2, RecordTypes DEF ActivationMined, activatePermit, TypeOK
<1>12. ASSUME NEW p \in Positions, SwapMined(p) PROVE TypeOK'
  <2>1. allowance' \in [amount : Nat, expires : Nat, nonce : 0..MaxNonce + 1]
    <3>1. Amount(p) \in Nat /\ Amount(p) <= allowance.amount
      BY <1>12, AmountType DEF SwapMined, SwapAccepted
    <3>2. allowance.amount - Amount(p) \in Nat
      BY <3>1 DEF TypeOK
    <3> QED BY <1>12, <3>2 DEF SwapMined, executeSwapViaPermit2, TypeOK
  <2>2. collected' \in [Payers -> Nat]
    <3>1. p \in Payers /\ collected[p] + feeAmount(Amount(p), fee[p].bps) \in Nat
      BY AmountType DEF TypeOK, Payers
    <3> QED BY <1>12, <3>1 DEF SwapMined, executeSwapViaPermit2, TypeOK
  <2> QED BY <1>12, <2>1, <2>2 DEF SwapMined, executeSwapViaPermit2, TypeOK
<1>13. ASSUME NEW p \in Positions, Reverted(p) PROVE TypeOK'
  BY <1>13, RecordTypes DEF Reverted, TypeOK
<1>14. ASSUME NEW p \in Positions, Orphan(p) PROVE TypeOK'
  <2>1. TxOf(p) \in Tx /\ faults' \in 0..MaxFaults
    BY <1>14, TxType, PermitAssumption DEF Orphan, Fault, TypeOK
  <2> QED BY <1>14, <2>1, RecordTypes DEF Orphan, TypeOK
<1>15. ASSUME NEW p \in Positions, SaveActivation(p) PROVE TypeOK'
  <2>1. [copy[p] EXCEPT !.activated = TRUE] \in PositionRecord
    BY RecordTypes DEF TypeOK
  <2>2. /\ copy' = [copy EXCEPT ![p] = [copy[p] EXCEPT !.activated = TRUE]]
        /\ rec' \in {rec, [rec EXCEPT ![p] = [copy[p] EXCEPT !.activated = TRUE]]}
    BY <1>15 DEF SaveActivation, RecordActivation, TypeOK
  <2>3. faults' \in 0..MaxFaults
    BY <1>15, PermitAssumption DEF SaveActivation, Fault, TypeOK
  <2> QED BY <1>15, <2>1, <2>2, <2>3 DEF SaveActivation, TypeOK
<1>16. ASSUME NEW p \in Positions, PersistSwap(p) PROVE TypeOK'
  <2>1. copy[p] \in PositionRecord /\ copy[p].active >= 1
    BY <1>16 DEF PersistSwap, PhaseInv, TypeOK
  <2>2. rec' \in [Positions -> PositionRecord]
    <3>1. ASSUME NEW left \in 0..(copy[p].active - 1),
                 rec' = [rec EXCEPT ![p] = Filled(copy[p], Amount(p), left)]
          PROVE  rec' \in [Positions -> PositionRecord]
      <4>1. Filled(copy[p], Amount(p), left) \in PositionRecord
        BY <2>1, AmountType, FilledFields
      <4> QED BY <3>1, <4>1 DEF TypeOK
    <3> QED BY <1>16, <3>1 DEF PersistSwap, TypeOK
  <2>3. faults' \in 0..MaxFaults
    BY <1>16, PermitAssumption DEF PersistSwap, Fault, TypeOK
  <2>4. /\ spent' \subseteq Positions /\ unrecorded' \subseteq Positions
        /\ unreported' \subseteq Payers
    BY <1>16 DEF PersistSwap, TypeOK, Payers
  <2> QED BY <1>16, <2>2, <2>3, <2>4, RecordTypes DEF PersistSwap, TypeOK
<1>17. ASSUME NEW p \in Positions, ReportSwap(p) PROVE TypeOK'
  <2>1. reported' \in [Payers -> Shares]
    BY <1>17, AmountType, ReportType DEF ReportSwap, Payers
  <2> QED BY <1>17, <2>1, RecordTypes DEF ReportSwap, TypeOK
<1>18. ASSUME NEW cfg \in FeeConfigs, MarketSwap(cfg) PROVE TypeOK'
  <2>1. Size \in Nat /\ cfg.bps \in Nat /\ cfg.share \in Nat /\ Nobody \in Payers
    BY FeeTypes, PermitAssumption DEF Payers
  <2>2. reported' \in [Payers -> Shares]
    <3>1. CASE Report(Nobody, Size, cfg)
      BY <2>1, <3>1, ReportType
    <3>2. CASE UNCHANGED reported
      BY <3>2 DEF TypeOK
    <3> QED BY <1>18, <3>1, <3>2 DEF MarketSwap
  <2>3. collected' \in [Payers -> Nat]
    <3>1. collected[Nobody] \in Nat /\ feeAmount(Size, cfg.bps) \in Nat
      BY <2>1, PartIsNat DEF TypeOK
    <3>2. collected[Nobody] + feeAmount(Size, cfg.bps) \in Nat
      BY <3>1
    <3> QED BY <1>18, <2>1, <3>2 DEF MarketSwap, TypeOK
  <2>4. calls' \in 0..MaxCalls /\ faults' \in 0..MaxFaults
    BY <1>18, PermitAssumption DEF MarketSwap, Fault, TypeOK
  <2>5. /\ spent' \subseteq Positions /\ unrecorded' \subseteq Positions
        /\ unreported' \subseteq Payers
    BY <1>18, <2>1 DEF MarketSwap, TypeOK
  <2> QED BY <1>18, <2>2, <2>3, <2>4, <2>5 DEF MarketSwap, TypeOK
<1>19. ASSUME NEW tx \in orphans, LateMined(tx) PROVE TypeOK'
  <2>1. /\ tx.pos \in Positions /\ tx.permit \in Permits /\ tx.amount \in Nat
        /\ tx.fee.bps \in Nat
    <3>1. tx \in Tx
      BY DEF TypeOK
    <3>2. tx.pos \in Positions /\ tx.permit \in Permits /\ tx.amount \in 0..Size
          /\ tx.fee \in FeeConfigs \cup {NoFee}
      BY <3>1 DEF Tx
    <3>3. tx.amount \in Nat
      BY <3>2, PermitAssumption
    <3> QED BY <3>2, <3>3, FeeTypes
  <2>2. /\ orphans' \subseteq Tx
        /\ UNCHANGED <<now, rec, procVars, call, reported, calls, faults>>
    BY <1>19 DEF LateMined, TypeOK
  <2>3. /\ spent' \subseteq Positions /\ unrecorded' \subseteq Positions
        /\ unreported' \subseteq Payers
    BY <1>19, <2>1 DEF LateMined, TypeOK, Payers
  <2>4. CASE activatePermit(tx.pos, tx.permit, tx.permit.amount)
    <3>1. tx.permit.nonce + 1 \in 0..MaxNonce + 1
      BY <2>1, RecordTypes, PermitAssumption DEF Nonces
    <3>2. allowance' \in [amount : Nat, expires : Nat, nonce : 0..MaxNonce + 1]
      BY <2>1, <2>4, <3>1, RecordTypes DEF activatePermit
    <3> QED BY <2>1, <2>2, <2>3, <2>4, <3>2, RecordTypes DEF activatePermit, TypeOK
  <2>5. CASE /\ SwapAccepted(tx.amount, tx.fee.bps)
             /\ executeSwapViaPermit2(tx.pos, tx.amount, tx.fee.bps)
    <3>1. allowance.amount - tx.amount \in Nat
      BY <2>1, <2>5 DEF SwapAccepted, TypeOK
    <3>2. allowance' \in [amount : Nat, expires : Nat, nonce : 0..MaxNonce + 1]
      BY <2>5, <3>1 DEF executeSwapViaPermit2, TypeOK
    <3>3. tx.pos \in Payers /\ collected[tx.pos] \in Nat /\ feeAmount(tx.amount, tx.fee.bps) \in Nat
      BY <2>1, PartIsNat DEF TypeOK, Payers
    <3>4. collected' \in [Payers -> Nat]
      BY <2>5, <3>3 DEF executeSwapViaPermit2, TypeOK
    <3> QED BY <2>1, <2>2, <2>3, <2>5, <3>2, <3>4 DEF executeSwapViaPermit2, TypeOK
  <2>6. CASE UNCHANGED <<chainVars, historyVars>>
    BY <2>2, <2>6 DEF TypeOK
  <2> QED BY <1>19, <2>4, <2>5, <2>6 DEF LateMined
<1>20. ASSUME Crash PROVE TypeOK'
  <2>1. faults < MaxFaults /\ faults' \in 0..MaxFaults
    BY <1>20, PermitAssumption DEF Crash, Fault, TypeOK
  <2>2. \A p \in Positions : TxOf(p) \in Tx
    BY <2>1, TxType
  <2>3. orphans' \subseteq Tx
    BY <1>20, <2>2 DEF Crash, TypeOK
  <2>4. /\ spent' \subseteq Positions /\ unrecorded' \subseteq Positions
        /\ unreported' \subseteq Payers
    BY <1>20 DEF Crash, TypeOK, Payers
  <2> QED BY <1>20, <2>1, <2>3, <2>4, RecordTypes DEF Crash, TypeOK
<1>21. ASSUME Tick PROVE TypeOK'
  <2>1. now' \in 0..MaxNow
    BY <1>21, PermitAssumption DEF Tick, TypeOK
  <2> QED BY <1>21, <2>1 DEF Tick, TypeOK
<1>22. CASE UNCHANGED vars
  BY <1>22 DEF vars, TypeOK
<1> QED BY <1>1, <1>2, <1>3, <1>4, <1>5, <1>6, <1>7, <1>8, <1>9, <1>10, <1>11, <1>12, <1>13,
           <1>14, <1>15, <1>16, <1>17, <1>18, <1>19, <1>20, <1>21, <1>22, CallReads
        DEF Next, ExecuteStep, CallStep, ReadStep

-----------------------------------------------------------------------------
(* Where an execution is, and what it holds.                                *)

LEMMA PhaseStep == TypeOK /\ PhaseInv /\ CallInv /\ [Next]_vars => PhaseInv'
<1> SUFFICES ASSUME TypeOK, PhaseInv, CallInv, [Next]_vars PROVE PhaseInv'
  OBVIOUS
<1> USE DEF chainVars, procVars, historyVars, GoTo, Forget, Activating, Swapping
<1>1. ASSUME NEW p \in Positions, NEW permit \in Permits, OpenPosition(p, permit) PROVE PhaseInv'
  BY <1>1 DEF OpenPosition, PhaseInv, TypeOK
<1>2. ASSUME NEW c \in Callers, NEW p \in Positions, NEW renews, NEW record,
             Reads(c, p, renews, record)
      PROVE  PhaseInv'
  BY <1>2 DEF Reads, ReadForUpdate, PhaseInv
<1>3. ASSUME NEW c \in Callers, SaveCall(c) PROVE PhaseInv'
  <2> DEFINE p == call[c].pos
             r == call[c].record
  <2>1. p \in Positions /\ r \in PositionRecord /\ Overwrite(p, r) /\ UNCHANGED <<at, copy>>
    BY <1>3, CallType DEF SaveCall, CallTypes
  <2> HIDE DEF p, r
  <2>2. /\ unrecorded \subseteq unrecorded'
        /\ \A q \in Positions : q # p => rec'[q] = rec[q]
        /\ p \in unrecorded' \/ rec'[p].activated = rec[p].activated
    BY <2>1, Overwritten
  <2> QED BY <2>1, <2>2 DEF PhaseInv
<1>4. ASSUME NEW c \in Callers, SaveRenewal(c) PROVE PhaseInv'
  <2>1. /\ call[c].pos \in Positions /\ ~call[c].record.activated
        /\ rec' = [rec EXCEPT ![call[c].pos] = call[c].record]
        /\ UNCHANGED <<at, copy>> /\ unrecorded \subseteq unrecorded'
    BY <1>4, CallType DEF SaveRenewal, CallTypes, CallInv
  <2> QED BY <2>1 DEF PhaseInv, TypeOK
<1>5. ASSUME NEW c \in Callers, CallFails(c) PROVE PhaseInv'
  BY <1>5 DEF CallFails, PhaseInv
<1>6. ASSUME NEW p \in Positions, Execute(p) PROVE PhaseInv'
  <2>1. rec[p] \in PositionRecord /\ SuspendedAll(rec[p]).state = rec[p].state
    BY SuspendedFields DEF TypeOK
  <2> QED BY <1>6, <2>1 DEF Execute, PhaseInv, TypeOK
<1>7. ASSUME NEW p \in Positions, SaveSuspension(p) PROVE PhaseInv'
  <2>1. /\ at' = [at EXCEPT ![p] = "idle"] /\ copy' = [copy EXCEPT ![p] = NoRecord]
        /\ copy[p] \in PositionRecord
    BY <1>7 DEF SaveSuspension, TypeOK
  <2>2. /\ unrecorded \subseteq unrecorded'
        /\ \A q \in Positions : q # p => rec'[q] = rec[q]
    <3>1. CASE Overwrite(p, copy[p])
      BY <2>1, <3>1, Overwritten
    <3>2. CASE UNCHANGED <<rec, historyVars>>
      BY <3>2
    <3> QED BY <1>7, <3>1, <3>2 DEF SaveSuspension
  <2> QED BY <2>1, <2>2 DEF PhaseInv, TypeOK
<1>8. ASSUME NEW p \in Positions, GiveUp(p) \/ Reverted(p) \/ Orphan(p) \/ ReportSwap(p)
      PROVE  PhaseInv'
  BY <1>8 DEF GiveUp, Reverted, Orphan, ReportSwap, PhaseInv, TypeOK
<1>9. ASSUME NEW p \in Positions, SendActivation(p) \/ ActivationMined(p) PROVE PhaseInv'
  BY <1>9 DEF SendActivation, ActivationMined, PhaseInv, TypeOK
<1>10. ASSUME NEW p \in Positions, NEW cfg \in FeeConfigs, SendSwap(p, cfg) PROVE PhaseInv'
  BY <1>10 DEF SendSwap, PhaseInv, TypeOK
<1>11. ASSUME NEW p \in Positions, SwapMined(p) PROVE PhaseInv'
  BY <1>11 DEF SwapMined, PhaseInv, TypeOK
<1>12. ASSUME NEW p \in Positions, SaveActivation(p) PROVE PhaseInv'
  <2>1. /\ copy' = [copy EXCEPT ![p] = [copy[p] EXCEPT !.activated = TRUE]]
        /\ rec' \in {rec, [rec EXCEPT ![p] = [copy[p] EXCEPT !.activated = TRUE]]}
        /\ unrecorded' = unrecorded
    BY <1>12 DEF SaveActivation, RecordActivation, TypeOK
  <2>2. /\ copy'[p].state = copy[p].state /\ copy'[p].active = copy[p].active
        /\ copy'[p].activated = TRUE
    <3>1. copy[p] \in PositionRecord /\ copy'[p] = [copy[p] EXCEPT !.activated = TRUE]
      BY <2>1 DEF TypeOK
    <3> QED BY <3>1, MarkedFields
  <2> QED BY <1>12, <2>1, <2>2 DEF SaveActivation, PhaseInv, TypeOK
<1>13. ASSUME NEW p \in Positions, PersistSwap(p) PROVE PhaseInv'
  <2>1. /\ at[p] = "swapped" /\ unrecorded \subseteq unrecorded'
        /\ \A q \in Positions : q # p => rec'[q] = rec[q] /\ at'[q] = at[q] /\ copy'[q] = copy[q]
        /\ \/ at'[p] = "persisted" /\ copy'[p] = copy[p]
           \/ at'[p] = "idle"
    BY <1>13 DEF PersistSwap, TypeOK
  <2> QED BY <2>1 DEF PhaseInv
<1>14. ASSUME NEW cfg \in FeeConfigs, MarketSwap(cfg) PROVE PhaseInv'
  BY <1>14 DEF MarketSwap, PhaseInv
<1>15. ASSUME NEW tx \in orphans, LateMined(tx) PROVE PhaseInv'
  <2>1. UNCHANGED <<rec, at, copy>> /\ unrecorded \subseteq unrecorded'
    BY <1>15 DEF LateMined
  <2> QED BY <2>1 DEF PhaseInv
<1>16. ASSUME Crash PROVE PhaseInv'
  BY <1>16 DEF Crash, PhaseInv
<1>17. ASSUME Tick \/ UNCHANGED vars PROVE PhaseInv'
  BY <1>17 DEF Tick, vars, PhaseInv
<1> QED BY <1>1, <1>2, <1>3, <1>4, <1>5, <1>6, <1>7, <1>8, <1>9, <1>10, <1>11, <1>12, <1>13,
           <1>14, <1>15, <1>16, <1>17, CallReads
        DEF Next, ExecuteStep, CallStep, ReadStep

LEMMA CallInvStep == TypeOK /\ CallInv /\ [Next]_vars => CallInv'
<1> SUFFICES ASSUME TypeOK, CallInv, [Next]_vars PROVE CallInv'
  OBVIOUS
<1> USE DEF chainVars, procVars, historyVars
<1>1. ASSUME NEW c \in Callers, NEW p \in Positions, NEW renews, NEW record,
             Reads(c, p, renews, record)
      PROVE  CallInv'
  <2>1. /\ call'[c] = [pos |-> p, renews |-> renews, record |-> record]
        /\ \A d \in Callers : d # c => call'[d] = call[d]
    BY <1>1 DEF Reads, ReadForUpdate, TypeOK
  <2>2. call'[c].pos = p /\ call'[c].renews = renews /\ call'[c].record = record
    BY <2>1
  <2>3. p # Nobody /\ record.state # "none" /\ (renews => ~record.activated)
    BY <1>1, PermitAssumption DEF Reads
  <2> HIDE <1>1
  <2>4. ASSUME NEW d \in Callers
        PROVE  /\ call'[d].renews => ~call'[d].record.activated
               /\ call'[d].pos # Nobody => call'[d].record.state # "none"
               /\ call'[d].pos = Nobody => ~call'[d].record.activated
    BY <2>1, <2>2, <2>3 DEF CallInv
  <2> QED BY <2>4 DEF CallInv
<1>a. ~NoCall.renews /\ NoCall.pos = Nobody /\ ~NoCall.record.activated
  BY DEF NoCall, NoRecord
<1>2. ASSUME NEW c \in Callers, call' = [call EXCEPT ![c] = NoCall] PROVE CallInv'
  BY <1>2, <1>a DEF CallInv, TypeOK
<1>3. ASSUME call' = call \/ call' = [c \in Callers |-> NoCall] PROVE CallInv'
  BY <1>3, <1>a DEF CallInv
<1>4. ASSUME NEW c \in Callers, SaveCall(c) \/ SaveRenewal(c) \/ CallFails(c) PROVE CallInv'
  BY <1>2, <1>4 DEF SaveCall, SaveRenewal, CallFails
<1>5. ASSUME NEW p \in Positions,
             ExecuteStep(p) \/ \E permit \in Permits : OpenPosition(p, permit)
      PROVE  CallInv'
  BY <1>3, <1>5 DEF ExecuteStep, OpenPosition, Execute, SaveSuspension, GiveUp, SendActivation,
    ActivationMined, SaveActivation, SendSwap, SwapMined, PersistSwap, ReportSwap, Reverted, Orphan
<1>6. ASSUME \/ \E cfg \in FeeConfigs : MarketSwap(cfg)
             \/ \E tx \in orphans : LateMined(tx)
             \/ Crash \/ Tick \/ UNCHANGED vars
      PROVE  CallInv'
  BY <1>3, <1>6 DEF MarketSwap, LateMined, Crash, Tick, vars
<1> QED BY <1>1, <1>4, <1>5, <1>6, CallReads DEF Next, CallStep, ReadStep

LEMMA NoneStep == TypeOK /\ PhaseInv /\ CallInv /\ NoneInv /\ [Next]_vars => NoneInv'
<1> SUFFICES ASSUME TypeOK, PhaseInv, CallInv, NoneInv, [Next]_vars PROVE NoneInv'
  OBVIOUS
<1> USE DEF chainVars, procVars, historyVars, GoTo, Forget
<1>1. ASSUME NEW p \in Positions, NEW permit \in Permits, OpenPosition(p, permit) PROVE NoneInv'
  BY <1>1 DEF OpenPosition, NoneInv, TypeOK
<1>2. ASSUME NEW c \in Callers, NEW p \in Positions, NEW renews, NEW record,
             Reads(c, p, renews, record)
      PROVE  NoneInv'
  <2>1. /\ rec[p].state = "open" /\ UNCHANGED <<rec, at, usedBy, orphans>>
        /\ \A d \in Callers : call'[d].pos \in {call[d].pos, p}
    BY <1>2 DEF Reads, ReadForUpdate, TypeOK
  <2> QED BY <2>1 DEF NoneInv
<1>3. ASSUME NEW c \in Callers, SaveCall(c) PROVE NoneInv'
  <2> DEFINE p == call[c].pos
             r == call[c].record
  <2>1. /\ p \in Positions /\ r \in PositionRecord /\ r.state # "none" /\ Overwrite(p, r)
        /\ call' = [call EXCEPT ![c] = NoCall] /\ UNCHANGED <<at, usedBy, orphans>>
    BY <1>3, CallType DEF SaveCall, CallTypes, CallInv
  <2>2. \A d \in Callers : call'[d].pos \in {call[d].pos, Nobody}
    BY <2>1 DEF NoCall, TypeOK
  <2> HIDE DEF p, r
  <2>3. rec'[p].state # "none" /\ \A q \in Positions : q # p => rec'[q] = rec[q]
    BY <2>1, Overwritten
  <2> QED BY <2>1, <2>2, <2>3, PermitAssumption DEF NoneInv
<1>4. ASSUME NEW c \in Callers, SaveRenewal(c) PROVE NoneInv'
  <2>1. /\ call[c].pos \in Positions /\ call[c].record.state # "none"
        /\ rec' = [rec EXCEPT ![call[c].pos] = call[c].record]
        /\ call' = [call EXCEPT ![c] = NoCall] /\ UNCHANGED <<at, usedBy, orphans>>
    BY <1>4, CallType DEF SaveRenewal, CallTypes, CallInv
  <2>2. \A d \in Callers : call'[d].pos \in {call[d].pos, Nobody}
    BY <2>1 DEF NoCall, TypeOK
  <2>3. \A q \in Positions : rec'[q].state = "none" => rec'[q] = rec[q]
    BY <2>1 DEF TypeOK
  <2> QED BY <2>1, <2>2, <2>3, PermitAssumption DEF NoneInv
<1>5. ASSUME NEW c \in Callers, CallFails(c) PROVE NoneInv'
  <2>1. call' = [call EXCEPT ![c] = NoCall] /\ UNCHANGED <<rec, at, usedBy, orphans>>
    BY <1>5 DEF CallFails
  <2>2. \A d \in Callers : call'[d].pos \in {call[d].pos, Nobody}
    BY <2>1 DEF NoCall, TypeOK
  <2> QED BY <2>1, <2>2, PermitAssumption DEF NoneInv
<1>6. ASSUME NEW p \in Positions, Execute(p) PROVE NoneInv'
  BY <1>6 DEF Execute, NoneInv, TypeOK
<1>7. ASSUME NEW p \in Positions, SaveSuspension(p) PROVE NoneInv'
  <2>1. /\ at[p] = "suspend" /\ copy[p].state = "open" /\ copy[p] \in PositionRecord
        /\ rec[p].state # "none"
    BY <1>7 DEF SaveSuspension, PhaseInv, NoneInv, TypeOK
  <2>2. rec'[p].state # "none" /\ \A q \in Positions : q # p => rec'[q] = rec[q]
    <3>1. CASE Overwrite(p, copy[p])
      BY <2>1, <3>1, Overwritten
    <3>2. CASE UNCHANGED <<rec, historyVars>>
      BY <2>1, <3>2
    <3> QED BY <1>7, <3>1, <3>2 DEF SaveSuspension
  <2> QED BY <1>7, <2>2 DEF SaveSuspension, NoneInv, TypeOK
<1>8. ASSUME NEW p \in Positions, GiveUp(p) \/ Reverted(p) \/ ReportSwap(p) PROVE NoneInv'
  BY <1>8 DEF GiveUp, Reverted, ReportSwap, NoneInv, TypeOK
<1>9. ASSUME NEW p \in Positions, SendActivation(p) PROVE NoneInv'
  BY <1>9 DEF SendActivation, NoneInv, TypeOK
<1>10. ASSUME NEW p \in Positions, NEW cfg \in FeeConfigs, SendSwap(p, cfg) PROVE NoneInv'
  BY <1>10 DEF SendSwap, NoneInv, TypeOK
<1>11. ASSUME NEW p \in Positions, ActivationMined(p) PROVE NoneInv'
  <2>1. rec[p].state # "none"
    BY <1>11 DEF ActivationMined, NoneInv
  <2>2. \A n \in Nonces : usedBy'[n] \in {usedBy[n], p}
    BY <1>11 DEF ActivationMined, activatePermit, TypeOK
  <2> QED BY <1>11, <2>1, <2>2 DEF ActivationMined, NoneInv, TypeOK
<1>12. ASSUME NEW p \in Positions, SaveActivation(p) PROVE NoneInv'
  <2>1. rec[p].state # "none" /\ rec' \in {rec, [rec EXCEPT ![p] = [copy[p] EXCEPT !.activated = TRUE]]}
    BY <1>12 DEF SaveActivation, RecordActivation, NoneInv
  <2>2. [copy[p] EXCEPT !.activated = TRUE].state = "open"
    BY <1>12 DEF SaveActivation, PhaseInv, TypeOK, PositionRecord
  <2>3. rec'[p].state # "none"
    BY <2>1, <2>2 DEF TypeOK
  <2> QED BY <1>12, <2>1, <2>3 DEF SaveActivation, NoneInv, TypeOK
<1>13. ASSUME NEW p \in Positions, SwapMined(p) PROVE NoneInv'
  BY <1>13 DEF SwapMined, executeSwapViaPermit2, NoneInv, TypeOK
<1>14. ASSUME NEW p \in Positions, PersistSwap(p) PROVE NoneInv'
  <2>1. /\ rec[p].state # "none" /\ at[p] = "swapped"
        /\ copy[p] \in PositionRecord /\ copy[p].active >= 1
    BY <1>14 DEF PersistSwap, PhaseInv, NoneInv, TypeOK
  <2>2. ASSUME NEW left \in 0..(copy[p].active - 1)
        PROVE  Filled(copy[p], Amount(p), left).state # "none"
    BY <2>1, AmountType, FilledFields
  <2>3. rec'[p].state # "none" /\ \A q \in Positions : q # p => rec'[q] = rec[q]
    BY <1>14, <2>1, <2>2 DEF PersistSwap, TypeOK
  <2> QED BY <1>14, <2>3 DEF PersistSwap, NoneInv, TypeOK
<1>15. ASSUME NEW p \in Positions, Orphan(p) PROVE NoneInv'
  <2>1. rec[p].state # "none" /\ TxOf(p).pos = p
    BY <1>15 DEF Orphan, NoneInv, TxOf
  <2> QED BY <1>15, <2>1 DEF Orphan, NoneInv, TypeOK
<1>16. ASSUME NEW cfg \in FeeConfigs, MarketSwap(cfg) PROVE NoneInv'
  BY <1>16 DEF MarketSwap, NoneInv
<1>17. ASSUME NEW tx \in orphans, LateMined(tx) PROVE NoneInv'
  <2>1. \A n \in Nonces : usedBy'[n] \in {usedBy[n], tx.pos}
    BY <1>17 DEF LateMined, activatePermit, executeSwapViaPermit2, TypeOK
  <2> QED BY <1>17, <2>1 DEF LateMined, NoneInv
<1>18. ASSUME Crash PROVE NoneInv'
  <2>1. \A p \in Positions : TxOf(p).pos = p
    BY DEF TxOf
  <2>2. /\ UNCHANGED <<rec, usedBy>> /\ \A p \in Positions : at'[p] = "idle"
        /\ \A c \in Callers : call'[c].pos = Nobody
        /\ orphans' = orphans \cup {TxOf(p) : p \in {q \in Positions : at[q] \in {"activating", "swapping"}}}
    BY <1>18 DEF Crash, NoCall
  <2> QED BY <2>1, <2>2, PermitAssumption DEF NoneInv
<1>19. ASSUME Tick \/ UNCHANGED vars PROVE NoneInv'
  BY <1>19 DEF Tick, vars, NoneInv
<1> QED BY <1>1, <1>2, <1>3, <1>4, <1>5, <1>6, <1>7, <1>8, <1>9, <1>10, <1>11, <1>12, <1>13,
           <1>14, <1>15, <1>16, <1>17, <1>18, <1>19, CallReads
        DEF Next, ExecuteStep, CallStep, ReadStep

-----------------------------------------------------------------------------
(* Permits.                                                                 *)

(* A permit that is accepted leaves the nonces in use alone.                *)
LEMMA AcceptedNonce ==
    ASSUME TypeOK, NEW permit \in Permits, PermitAccepted(permit), NEW p \in Positions,
           NEW amount, activatePermit(p, permit, amount)
    PROVE  /\ permit.nonce = allowance.nonce /\ allowance'.nonce = allowance.nonce + 1
           /\ allowance.nonce \in Nat /\ allowance'.amount = amount
           /\ usedBy'[permit.nonce] = p
           /\ \A n \in Nonces : n # permit.nonce => usedBy'[n] = usedBy[n]
           /\ \A q \in Positions, n \in Nonces : Used(q, n) => Used(q, n)'
<1>1. /\ permit.nonce = allowance.nonce /\ allowance'.nonce = allowance.nonce + 1
      /\ allowance'.amount = amount
  BY DEF PermitAccepted, activatePermit
<1>2. allowance.nonce \in Nat /\ permit.nonce \in Nonces
  BY RecordTypes DEF TypeOK
<1>3. usedBy'[permit.nonce] = p /\ \A n \in Nonces : n # permit.nonce => usedBy'[n] = usedBy[n]
  BY <1>2 DEF activatePermit, TypeOK
<1>4. ASSUME NEW q \in Positions, NEW n \in Nonces, Used(q, n) PROVE Used(q, n)'
  <2>1. n \in Nat
    BY PermitAssumption DEF Nonces
  <2> QED BY <1>1, <1>2, <1>3, <1>4, <2>1 DEF Used
<1> QED BY <1>1, <1>2, <1>3, <1>4

(* The nonces of the records are nonces.                                    *)
LEMMA RecordNonces ==
    ASSUME TypeOK
    PROVE  /\ allowance.nonce \in Nat
           /\ \A p \in Positions :
                /\ rec[p].permit \in Permits /\ rec[p].permit.nonce \in Nonces
                /\ rec[p].permit.nonce \in Nat
                /\ copy[p].permit \in Permits /\ copy[p].permit.nonce \in Nonces
                /\ copy[p].permit.nonce \in Nat
           /\ \A c \in Callers :
                /\ call[c].record.permit \in Permits /\ call[c].record.permit.nonce \in Nonces
                /\ call[c].record.permit.nonce \in Nat
           /\ \A tx \in orphans : /\ tx.pos \in Positions
                                  /\ tx.permit \in Permits /\ tx.permit.nonce \in Nat
<1>1. ASSUME NEW r \in PositionRecord
      PROVE  r.permit \in Permits /\ r.permit.nonce \in Nonces /\ r.permit.nonce \in Nat
  BY RecordTypes DEF PositionRecord
<1>2. ASSUME NEW tx \in orphans
      PROVE  tx.pos \in Positions /\ tx.permit \in Permits /\ tx.permit.nonce \in Nat
  BY RecordTypes DEF TypeOK, Tx
<1>3. allowance.nonce \in Nat
  BY DEF TypeOK
<1>4. \A p \in Positions : rec[p] \in PositionRecord /\ copy[p] \in PositionRecord
  BY DEF TypeOK
<1>5. \A c \in Callers : call[c].record \in PositionRecord
  BY CallType DEF CallTypes
<1> QED BY <1>1, <1>2, <1>3, <1>4, <1>5

(* Where the allowance is not replaced, the nonces stay as they are.        *)
LEMMA SwapKeepsNonces ==
    ASSUME TypeOK, NEW p \in Positions, NEW amount, NEW bps,
           executeSwapViaPermit2(p, amount, bps)
    PROVE  allowance'.nonce = allowance.nonce /\ usedBy' = usedBy
BY DEF executeSwapViaPermit2, TypeOK

LEMMA UsedStep == TypeOK /\ PhaseInv /\ CallInv /\ UsedInv /\ [Next]_vars => UsedInv'
<1> SUFFICES ASSUME TypeOK, PhaseInv, CallInv, UsedInv, [Next]_vars PROVE UsedInv'
  OBVIOUS
<1> USE DEF chainVars, procVars, historyVars, GoTo, Forget
<1> DEFINE
      RecUsed(q)  == rec[q].activated => Used(q, rec[q].permit.nonce)
      CopyUsed(q) == copy[q].activated \/ at[q] = "activated" => Used(q, copy[q].permit.nonce)
      CallUsed(c) == call[c].record.activated => Used(call[c].pos, call[c].record.permit.nonce)
<1>a. /\ \A q \in Positions : RecUsed(q) /\ CopyUsed(q)
      /\ \A c \in Callers : CallUsed(c)
  BY DEF UsedInv
<1>b. ASSUME \A q \in Positions : RecUsed(q)' /\ CopyUsed(q)', \A c \in Callers : CallUsed(c)'
      PROVE  UsedInv'
  BY <1>b DEF UsedInv
<1>c. ~NoRecord.activated /\ ~NoCall.record.activated
  BY DEF NoRecord, NoCall
<1>d. ASSUME UNCHANGED <<allowance, usedBy>>
      PROVE  \A q, n : Used(q, n)' <=> Used(q, n)
  BY <1>d DEF Used
<1> HIDE DEF RecUsed, CopyUsed, CallUsed
\* The records, the executions and the calls that a step does not touch.
<1>e. ASSUME NEW q \in Positions, UNCHANGED <<allowance, usedBy>>, rec'[q] = rec[q]
      PROVE  RecUsed(q)'
  BY <1>a, <1>d, <1>e DEF RecUsed
<1>f. ASSUME NEW q \in Positions, UNCHANGED <<allowance, usedBy>>, copy'[q] = copy[q],
             at'[q] = "activated" => at[q] = "activated"
      PROVE  CopyUsed(q)'
  BY <1>a, <1>d, <1>f DEF CopyUsed
<1>g. ASSUME NEW q \in Positions, copy'[q] = NoRecord, at'[q] # "activated" PROVE CopyUsed(q)'
  BY <1>c, <1>g DEF CopyUsed
<1>h. ASSUME NEW c \in Callers, UNCHANGED <<allowance, usedBy>>,
             call'[c] = call[c] \/ call'[c] = NoCall
      PROVE  CallUsed(c)'
  BY <1>a, <1>c, <1>d, <1>h DEF CallUsed
<1>1. ASSUME NEW p \in Positions, NEW permit \in Permits, OpenPosition(p, permit) PROVE UsedInv'
  <2>1. ~rec'[p].activated /\ \A q \in Positions : q # p => rec'[q] = rec[q]
    BY <1>1 DEF OpenPosition, TypeOK
  <2>2. UNCHANGED <<allowance, usedBy, at, copy, call>>
    BY <1>1 DEF OpenPosition
  <2>3. RecUsed(p)'
    BY <2>1 DEF RecUsed
  <2> QED BY <1>b, <1>e, <1>f, <1>h, <2>1, <2>2, <2>3
<1>2. ASSUME NEW c \in Callers, NEW p \in Positions, NEW renews, NEW record,
             Reads(c, p, renews, record)
      PROVE  UsedInv'
  <2>1. /\ UNCHANGED <<allowance, usedBy, at, copy, rec>>
        /\ call'[c] = [pos |-> p, renews |-> renews, record |-> record]
        /\ \A d \in Callers : d # c => call'[d] = call[d]
    BY <1>2 DEF Reads, ReadForUpdate, TypeOK
  <2>2. call'[c].pos = p /\ call'[c].record = record
    BY <2>1
  <2>3. record.activated => rec[p].activated /\ record.permit = rec[p].permit
    BY <1>2 DEF Reads
  <2>4. CallUsed(c)'
    BY <1>a, <1>d, <2>1, <2>2, <2>3 DEF CallUsed, RecUsed
  <2> QED BY <1>b, <1>e, <1>f, <1>h, <2>1, <2>4
<1>3. ASSUME NEW c \in Callers, SaveCall(c) PROVE UsedInv'
  <2>0. PICK p \in Positions, r \in PositionRecord : p = call[c].pos /\ r = call[c].record
    BY <1>3, CallType DEF SaveCall, CallTypes
  <2>1. /\ Overwrite(p, r) /\ UNCHANGED <<at, copy, allowance, usedBy>>
        /\ \A d \in Callers : call'[d] = call[d] \/ call'[d] = NoCall
    BY <1>3, <2>0 DEF SaveCall, TypeOK
  <2>2. r.activated => Used(p, r.permit.nonce)
    BY <1>a, <2>0 DEF CallUsed
  <2>3. rec'[p] = r /\ \A q \in Positions : q # p => rec'[q] = rec[q]
    BY <2>1, Overwritten
  <2>4. RecUsed(p)'
    BY <1>d, <2>1, <2>2, <2>3 DEF RecUsed
  <2> QED BY <1>b, <1>e, <1>f, <1>h, <2>1, <2>3, <2>4
<1>4. ASSUME NEW c \in Callers, SaveRenewal(c) PROVE UsedInv'
  <2>1. /\ call[c].pos \in Positions /\ ~call[c].record.activated
        /\ rec' = [rec EXCEPT ![call[c].pos] = call[c].record]
        /\ UNCHANGED <<at, copy, allowance, usedBy>>
        /\ \A d \in Callers : call'[d] = call[d] \/ call'[d] = NoCall
    BY <1>4, CallType DEF SaveRenewal, CallTypes, CallInv, TypeOK
  <2>2. \A q \in Positions : ~rec'[q].activated \/ rec'[q] = rec[q]
    BY <2>1 DEF TypeOK
  <2>3. \A q \in Positions : RecUsed(q)'
    BY <1>e, <2>1, <2>2 DEF RecUsed
  <2> QED BY <1>b, <1>f, <1>h, <2>1, <2>3
<1>5. ASSUME NEW c \in Callers, CallFails(c) PROVE UsedInv'
  <2>1. /\ UNCHANGED <<rec, at, copy, allowance, usedBy>>
        /\ \A d \in Callers : call'[d] = call[d] \/ call'[d] = NoCall
    BY <1>5 DEF CallFails, TypeOK
  <2> QED BY <1>b, <1>e, <1>f, <1>h, <2>1
<1>6. ASSUME NEW p \in Positions, Execute(p) PROVE UsedInv'
  <2>1. /\ UNCHANGED <<rec, call, allowance, usedBy>> /\ at'[p] # "activated"
        /\ copy'[p] = rec[p] \/ copy'[p] = SuspendedAll(rec[p])
        /\ \A q \in Positions : q # p => at'[q] = at[q] /\ copy'[q] = copy[q]
    BY <1>6 DEF Execute, TypeOK
  <2>2. copy'[p].permit = rec[p].permit
    BY <2>1, SuspendedFields DEF TypeOK
  <2>3. copy'[p].activated = rec[p].activated
    BY <2>1, SuspendedFields DEF TypeOK
  <2>4. CopyUsed(p)'
    BY <1>a, <1>d, <2>1, <2>2, <2>3 DEF CopyUsed, RecUsed
  <2> QED BY <1>b, <1>e, <1>f, <1>h, <2>1, <2>4
<1>7. ASSUME NEW p \in Positions, SaveSuspension(p) PROVE UsedInv'
  <2>1. /\ UNCHANGED <<call, allowance, usedBy>> /\ copy[p] \in PositionRecord
        /\ at'[p] = "idle" /\ copy'[p] = NoRecord
        /\ \A q \in Positions : q # p => at'[q] = at[q] /\ copy'[q] = copy[q]
    BY <1>7 DEF SaveSuspension, TypeOK
  <2>2. /\ rec'[p] = copy[p] \/ rec'[p] = rec[p]
        /\ \A q \in Positions : q # p => rec'[q] = rec[q]
    <3>1. CASE Overwrite(p, copy[p])
      BY <2>1, <3>1, Overwritten
    <3>2. CASE UNCHANGED <<rec, historyVars>>
      BY <3>2
    <3> QED BY <1>7, <3>1, <3>2 DEF SaveSuspension
  <2>3. RecUsed(p)'
    BY <1>a, <1>d, <2>1, <2>2 DEF CopyUsed, RecUsed
  <2> QED BY <1>b, <1>e, <1>f, <1>g, <1>h, <2>1, <2>2, <2>3
<1>8. ASSUME NEW p \in Positions, GiveUp(p) \/ Reverted(p) \/ Orphan(p) \/ ReportSwap(p)
      PROVE  UsedInv'
  <2>1. /\ UNCHANGED <<rec, call, allowance, usedBy>>
        /\ at'[p] = "idle" /\ copy'[p] = NoRecord
        /\ \A q \in Positions : q # p => at'[q] = at[q] /\ copy'[q] = copy[q]
    BY <1>8 DEF GiveUp, Reverted, Orphan, ReportSwap, TypeOK
  <2> QED BY <1>b, <1>e, <1>f, <1>g, <1>h, <2>1
<1>9. ASSUME NEW p \in Positions, SendActivation(p) \/ \E cfg \in FeeConfigs : SendSwap(p, cfg)
      PROVE  UsedInv'
  <2>1. /\ UNCHANGED <<rec, copy, call, allowance, usedBy>>
        /\ \A q \in Positions : at'[q] = "activated" => at[q] = "activated"
    BY <1>9 DEF SendActivation, SendSwap, TypeOK
  <2> QED BY <1>b, <1>e, <1>f, <1>h, <2>1
<1>10. ASSUME NEW p \in Positions, NEW permit \in Permits, PermitAccepted(permit),
              NEW amount, activatePermit(p, permit, amount), UNCHANGED <<rec, copy, call>>,
              \A q \in Positions : at'[q] = "activated" =>
                  at[q] = "activated" \/ (q = p /\ permit = copy[p].permit)
       PROVE  UsedInv'
  <2>1. /\ \A q \in Positions, n \in Nonces : Used(q, n) => Used(q, n)'
        /\ Used(p, permit.nonce)'
    <3>1. permit.nonce \in Nat
      BY RecordTypes
    <3>2. /\ permit.nonce = allowance.nonce /\ allowance'.nonce = allowance.nonce + 1
          /\ usedBy'[permit.nonce] = p
          /\ \A q \in Positions, n \in Nonces : Used(q, n) => Used(q, n)'
      BY <1>10, AcceptedNonce
    <3> QED BY <3>1, <3>2 DEF Used
  <2>2. /\ \A q \in Positions : rec[q].permit.nonce \in Nonces /\ copy[q].permit.nonce \in Nonces
        /\ \A c \in Callers : call[c].record.permit.nonce \in Nonces
    BY RecordNonces
  <2>3. \A q \in Positions : RecUsed(q)'
    BY <1>10, <1>a, <2>1, <2>2 DEF RecUsed
  <2>4. \A q \in Positions : CopyUsed(q)'
    BY <1>10, <1>a, <2>1, <2>2 DEF CopyUsed
  <2>5. ASSUME NEW c \in Callers PROVE CallUsed(c)'
    <3>1. CASE call[c].pos = Nobody
      <4>1. ~call[c].record.activated
        BY <3>1 DEF CallInv
      <4> QED BY <1>10, <4>1 DEF CallUsed
    <3>2. CASE call[c].pos # Nobody
      <4>1. call[c].pos \in Positions
        BY <3>2, CallType DEF CallTypes
      <4> QED BY <1>10, <1>a, <2>1, <2>2, <4>1 DEF CallUsed
    <3> QED BY <3>1, <3>2
  <2> QED BY <1>b, <2>3, <2>4, <2>5
<1>11. ASSUME NEW p \in Positions, ActivationMined(p) PROVE UsedInv'
  <2>1. copy[p].permit \in Permits
    BY RecordNonces
  <2> QED BY <1>10, <1>11, <2>1 DEF ActivationMined, TypeOK
<1>12. ASSUME NEW p \in Positions, SaveActivation(p) PROVE UsedInv'
  <2>1. /\ copy' = [copy EXCEPT ![p] = [copy[p] EXCEPT !.activated = TRUE]]
        /\ rec' \in {rec, [rec EXCEPT ![p] = [copy[p] EXCEPT !.activated = TRUE]]}
        /\ at[p] = "activated" /\ at' = [at EXCEPT ![p] = "swap"]
        /\ UNCHANGED <<allowance, usedBy, call>>
    BY <1>12 DEF SaveActivation, RecordActivation, TypeOK
  <2>2. copy'[p].permit = copy[p].permit
    <3>1. copy[p] \in PositionRecord /\ copy'[p] = [copy[p] EXCEPT !.activated = TRUE]
      BY <2>1 DEF TypeOK
    <3> QED BY <3>1, MarkedFields
  <2>3. rec'[p] = rec[p] \/ rec'[p] = copy'[p]
    BY <2>1 DEF TypeOK
  <2>4. \A q \in Positions : q # p => rec'[q] = rec[q] /\ copy'[q] = copy[q] /\ at'[q] = at[q]
    BY <2>1 DEF TypeOK
  <2>5. Used(p, copy[p].permit.nonce)'
    BY <1>a, <1>d, <2>1 DEF CopyUsed
  <2>6. CopyUsed(p)'
    BY <2>2, <2>5 DEF CopyUsed, Used
  <2>7. RecUsed(p)'
    <3>1. CASE rec'[p] = rec[p]
      BY <1>e, <2>1, <3>1
    <3>2. CASE rec'[p] = copy'[p]
      BY <2>2, <2>5, <3>2 DEF RecUsed, Used
    <3> QED BY <2>3, <3>1, <3>2
  <2> QED BY <1>b, <1>e, <1>f, <1>h, <2>1, <2>4, <2>6, <2>7
<1>13. ASSUME NEW p \in Positions, SwapMined(p) PROVE UsedInv'
  <2>1. allowance'.nonce = allowance.nonce /\ usedBy' = usedBy
    BY <1>13, SwapKeepsNonces DEF SwapMined
  <2>2. UNCHANGED <<rec, copy, call>> /\ \A q \in Positions : at'[q] = "activated" => at[q] = "activated"
    BY <1>13 DEF SwapMined, TypeOK
  <2>3. \A q, n : Used(q, n)' <=> Used(q, n)
    BY <2>1 DEF Used
  <2>4. \A q \in Positions : RecUsed(q)'
    BY <1>a, <2>2, <2>3 DEF RecUsed
  <2>5. \A q \in Positions : CopyUsed(q)'
    BY <1>a, <2>2, <2>3 DEF CopyUsed
  <2>6. \A c \in Callers : CallUsed(c)'
    BY <1>a, <2>2, <2>3 DEF CallUsed
  <2> QED BY <1>b, <2>4, <2>5, <2>6
<1>14. ASSUME NEW p \in Positions, PersistSwap(p) PROVE UsedInv'
  <2>1. /\ UNCHANGED <<call, allowance, usedBy>>
        /\ at[p] = "swapped" /\ copy[p] \in PositionRecord /\ copy[p].active >= 1
        /\ \/ at'[p] = "persisted" /\ copy'[p] = copy[p]
           \/ at'[p] = "idle" /\ copy'[p] = NoRecord
        /\ \A q \in Positions : q # p => /\ rec'[q] = rec[q] /\ at'[q] = at[q]
                                         /\ copy'[q] = copy[q]
    BY <1>14 DEF PersistSwap, PhaseInv, TypeOK
  <2>2. RecUsed(p)'
    <3>1. CASE rec' = rec
      BY <1>e, <2>1, <3>1
    <3>2. ASSUME NEW left \in 0..(copy[p].active - 1),
                 rec' = [rec EXCEPT ![p] = Filled(copy[p], Amount(p), left)]
          PROVE  RecUsed(p)'
      <4>1. rec'[p] = Filled(copy[p], Amount(p), left)
        BY <3>2 DEF TypeOK
      <4>2. rec'[p].permit = copy[p].permit
        BY <2>1, <4>1, AmountType, FilledFields
      <4>3. rec'[p].activated = copy[p].activated
        BY <2>1, <4>1, AmountType, FilledFields
      <4> QED BY <1>a, <1>d, <2>1, <4>2, <4>3 DEF CopyUsed, RecUsed
    <3> QED BY <1>14, <3>1, <3>2 DEF PersistSwap
  <2> QED BY <1>b, <1>e, <1>f, <1>g, <1>h, <2>1, <2>2
<1>15. ASSUME NEW cfg \in FeeConfigs, MarketSwap(cfg) PROVE UsedInv'
  <2>1. UNCHANGED <<rec, at, copy, call, allowance, usedBy>>
    BY <1>15 DEF MarketSwap
  <2> QED BY <1>b, <1>e, <1>f, <1>h, <2>1
<1>16. ASSUME NEW tx \in orphans, LateMined(tx) PROVE UsedInv'
  <2>1. UNCHANGED <<rec, at, copy, call>> /\ tx.pos \in Positions /\ tx.permit \in Permits
    BY <1>16, RecordNonces DEF LateMined
  <2>2. CASE PermitAccepted(tx.permit) /\ activatePermit(tx.pos, tx.permit, tx.permit.amount)
    <3>1. \A q \in Positions : at'[q] = "activated" => at[q] = "activated"
      BY <2>1
    <3>2. PICK p \in Positions, permit \in Permits : p = tx.pos /\ permit = tx.permit
      BY <2>1
    <3>3. PermitAccepted(permit) /\ activatePermit(p, permit, permit.amount)
      BY <2>2, <3>2
    <3> QED BY <1>10, <2>1, <3>1, <3>3
  <2>3. CASE executeSwapViaPermit2(tx.pos, tx.amount, tx.fee.bps)
    <3>1. \A q, n : Used(q, n)' <=> Used(q, n)
      BY <2>1, <2>3, SwapKeepsNonces DEF Used
    <3>2. \A q \in Positions : RecUsed(q)'
      BY <1>a, <2>1, <3>1 DEF RecUsed
    <3>3. \A q \in Positions : CopyUsed(q)'
      BY <1>a, <2>1, <3>1 DEF CopyUsed
    <3>4. \A c \in Callers : CallUsed(c)'
      BY <1>a, <2>1, <3>1 DEF CallUsed
    <3> QED BY <1>b, <3>2, <3>3, <3>4
  <2>4. CASE UNCHANGED chainVars
    BY <1>b, <1>e, <1>f, <1>h, <2>1, <2>4
  <2> QED BY <1>16, <2>2, <2>3, <2>4 DEF LateMined
<1>17. ASSUME Crash PROVE UsedInv'
  <2>1. /\ UNCHANGED <<rec, allowance, usedBy>>
        /\ \A q \in Positions : at'[q] = "idle" /\ copy'[q] = NoRecord
        /\ \A c \in Callers : call'[c] = NoCall
    BY <1>17 DEF Crash
  <2> QED BY <1>b, <1>e, <1>g, <1>h, <2>1
<1>18. ASSUME Tick \/ UNCHANGED vars PROVE UsedInv'
  <2>1. UNCHANGED <<rec, at, copy, call, allowance, usedBy>>
    BY <1>18 DEF Tick, vars
  <2> QED BY <1>b, <1>e, <1>f, <1>h, <2>1
<1> QED BY <1>1, <1>2, <1>3, <1>4, <1>5, <1>6, <1>7, <1>8, <1>9, <1>11, <1>12, <1>13,
           <1>14, <1>15, <1>16, <1>17, <1>18, CallReads
        DEF Next, ExecuteStep, CallStep, ReadStep

LEMMA OrphanStep == TypeOK /\ PhaseInv /\ CallInv /\ OrphanInv /\ [Next]_vars => OrphanInv'
<1> SUFFICES ASSUME TypeOK, PhaseInv, CallInv, OrphanInv, [Next]_vars PROVE OrphanInv'
  OBVIOUS
<1> USE DEF chainVars, procVars, historyVars, GoTo, Forget
<1> DEFINE
      Late(q) == q \notin unrecorded /\ (rec[q].activated \/ at[q] \in Swapping \cup {"activated"})
      InFlight(q) == at[q] = "activating" => copy[q].permit.nonce <= allowance.nonce
      Left(tx) == tx.kind = "permit" => /\ tx.permit.nonce <= allowance.nonce
                                        /\ Late(tx.pos) => tx.permit.nonce < allowance.nonce
<1>a. (\A q \in Positions : InFlight(q)) /\ (\A tx \in orphans : Left(tx))
  BY DEF OrphanInv
<1>b. ASSUME \A q \in Positions : InFlight(q)', \A tx \in orphans' : Left(tx)'
      PROVE  OrphanInv'
  BY <1>b DEF OrphanInv
<1>c. \A p \in Positions :
        /\ TxOf(p).pos = p /\ TxOf(p).permit = copy[p].permit
        /\ TxOf(p).kind = "permit" => at[p] = "activating"
  BY DEF TxOf
<1> HIDE DEF Late, InFlight, Left
\* A step that changes no nonce and brings no activation forward.
<1>d. ASSUME allowance'.nonce = allowance.nonce, orphans' \subseteq orphans,
             \A q \in Positions : Late(q)' => Late(q),
             \A q \in Positions : at'[q] = "activating" => at[q] = "activating" /\ copy'[q] = copy[q]
      PROVE  OrphanInv'
  <2>1. \A q \in Positions : InFlight(q)'
    BY <1>a, <1>d DEF InFlight
  <2>2. \A tx \in orphans' : Left(tx)'
    BY <1>a, <1>d, RecordNonces DEF Left
  <2> QED BY <1>b, <2>1, <2>2
\* A record that is written over.
<1>e. ASSUME NEW p \in Positions, UNCHANGED <<allowance, orphans>>,
             unrecorded \subseteq unrecorded',
             \A q \in Positions : q # p => rec'[q] = rec[q],
             rec'[p].activated => p \in unrecorded' \/ rec[p].activated,
             \A q \in Positions : at'[q] = at[q] \/ at'[q] = "idle",
             \A q \in Positions : at'[q] # "idle" => copy'[q] = copy[q]
      PROVE  OrphanInv'
  <2>1. \A q \in Positions : Late(q)' => Late(q)
    BY <1>e DEF Late, Swapping
  <2> QED BY <1>d, <1>e, <2>1
<1>1. ASSUME NEW p \in Positions, NEW permit \in Permits, OpenPosition(p, permit) PROVE OrphanInv'
  <2>1. ~rec'[p].activated /\ \A q \in Positions : q # p => rec'[q] = rec[q]
    BY <1>1 DEF OpenPosition, TypeOK
  <2>2. UNCHANGED <<allowance, orphans, unrecorded, at, copy>>
    BY <1>1 DEF OpenPosition
  <2> QED BY <1>e, <2>1, <2>2
<1>2. ASSUME NEW c \in Callers, NEW p \in Positions, NEW renews, NEW record,
             Reads(c, p, renews, record)
      PROVE  OrphanInv'
  <2>1. UNCHANGED <<allowance, orphans, unrecorded, rec, at, copy>>
    BY <1>2 DEF Reads, ReadForUpdate
  <2> QED BY <1>e, <2>1
<1>3. ASSUME NEW c \in Callers, SaveCall(c) PROVE OrphanInv'
  <2>0. PICK p \in Positions, r \in PositionRecord : p = call[c].pos /\ r = call[c].record
    BY <1>3, CallType DEF SaveCall, CallTypes
  <2>1. Overwrite(p, r) /\ UNCHANGED <<allowance, orphans, at, copy>>
    BY <1>3, <2>0 DEF SaveCall
  <2>2. /\ unrecorded \subseteq unrecorded'
        /\ \A q \in Positions : q # p => rec'[q] = rec[q]
        /\ p \in unrecorded' \/ rec'[p].activated = rec[p].activated
    BY <2>1, Overwritten
  <2> QED BY <1>e, <2>1, <2>2
<1>4. ASSUME NEW c \in Callers, SaveRenewal(c) PROVE OrphanInv'
  <2>0. PICK p \in Positions : p = call[c].pos
    BY <1>4, CallType DEF SaveRenewal, CallTypes
  <2>1. /\ ~call[c].record.activated /\ rec' = [rec EXCEPT ![p] = call[c].record]
        /\ UNCHANGED <<allowance, orphans, at, copy>> /\ unrecorded \subseteq unrecorded'
    BY <1>4, <2>0 DEF SaveRenewal, CallInv
  <2>2. ~rec'[p].activated /\ \A q \in Positions : q # p => rec'[q] = rec[q]
    BY <2>1 DEF TypeOK
  <2> QED BY <1>e, <2>1, <2>2
<1>5. ASSUME NEW c \in Callers, CallFails(c) PROVE OrphanInv'
  <2>1. UNCHANGED <<allowance, orphans, unrecorded, rec, at, copy>>
    BY <1>5 DEF CallFails
  <2>2. \A q \in Positions : Late(q)' => Late(q)
    BY <2>1 DEF Late
  <2> QED BY <1>d, <2>1, <2>2
<1>6. ASSUME NEW p \in Positions, Execute(p) PROVE OrphanInv'
  <2>1. /\ UNCHANGED <<allowance, orphans, unrecorded, rec>>
        /\ at'[p] \in {"suspend", "activate", "swap"}
        /\ at'[p] = "swap" => rec[p].activated
        /\ \A q \in Positions : q # p => at'[q] = at[q] /\ copy'[q] = copy[q]
    BY <1>6 DEF Execute, TypeOK
  <2>2. \A q \in Positions : Late(q)' => Late(q)
    BY <2>1 DEF Late, Swapping
  <2> QED BY <1>d, <2>1, <2>2
<1>7. ASSUME NEW p \in Positions, SaveSuspension(p) PROVE OrphanInv'
  <2>1. /\ UNCHANGED <<allowance, orphans>> /\ at'[p] = "idle" /\ copy[p] \in PositionRecord
        /\ \A q \in Positions : q # p => at'[q] = at[q] /\ copy'[q] = copy[q]
    BY <1>7 DEF SaveSuspension, TypeOK
  <2>2. /\ unrecorded \subseteq unrecorded'
        /\ \A q \in Positions : q # p => rec'[q] = rec[q]
        /\ p \in unrecorded' \/ rec'[p].activated = rec[p].activated
    <3>1. CASE Overwrite(p, copy[p])
      BY <2>1, <3>1, Overwritten
    <3>2. CASE UNCHANGED <<rec, historyVars>>
      BY <3>2
    <3> QED BY <1>7, <3>1, <3>2 DEF SaveSuspension
  <2> QED BY <1>e, <2>1, <2>2
<1>8. ASSUME NEW p \in Positions, GiveUp(p) \/ Reverted(p) \/ ReportSwap(p) PROVE OrphanInv'
  <2>1. /\ UNCHANGED <<allowance, orphans, rec, unrecorded>> /\ at'[p] = "idle"
        /\ \A q \in Positions : q # p => at'[q] = at[q] /\ copy'[q] = copy[q]
    BY <1>8 DEF GiveUp, Reverted, ReportSwap, TypeOK
  <2> QED BY <1>e, <2>1
<1>9. ASSUME NEW p \in Positions, SendActivation(p) PROVE OrphanInv'
  <2>1. /\ UNCHANGED <<allowance, orphans, rec, unrecorded, copy>> /\ at'[p] = "activating"
        /\ \A q \in Positions : q # p => at'[q] = at[q]
    BY <1>9 DEF SendActivation, TypeOK
  <2>2. InFlight(p)'
    BY <1>9, <2>1, RecordNonces DEF SendActivation, PermitAccepted, InFlight
  <2>3. \A q \in Positions : InFlight(q)'
    BY <1>a, <2>1, <2>2 DEF InFlight
  <2>4. \A tx \in orphans' : Left(tx)'
    BY <1>a, <2>1, RecordNonces DEF Left, Late, Swapping
  <2> QED BY <1>b, <2>3, <2>4
\* An activation takes the next nonce.
<1>10. ASSUME NEW p \in Positions, NEW permit \in Permits, PermitAccepted(permit), NEW amount,
              activatePermit(p, permit, amount), orphans' \subseteq orphans, UNCHANGED copy,
              \A q \in Positions : at'[q] = "activating" => at[q] = "activating"
       PROVE  OrphanInv'
  <2>1. allowance'.nonce = allowance.nonce + 1 /\ allowance.nonce \in Nat
    BY <1>10, AcceptedNonce
  <2>2. \A q \in Positions : InFlight(q)'
    BY <1>10, <1>a, <2>1, RecordNonces DEF InFlight
  <2>3. \A tx \in orphans' : Left(tx)'
    BY <1>10, <1>a, <2>1, RecordNonces DEF Left
  <2> QED BY <1>b, <2>2, <2>3
<1>11. ASSUME NEW p \in Positions, ActivationMined(p) PROVE OrphanInv'
  <2>1. copy[p].permit \in Permits
    BY RecordNonces
  <2> QED BY <1>10, <1>11, <2>1 DEF ActivationMined, TypeOK
<1>12. ASSUME NEW p \in Positions, SaveActivation(p) PROVE OrphanInv'
  <2>1. /\ at[p] = "activated" /\ at'[p] = "swap"
        /\ \A q \in Positions : q # p =>
              rec'[q] = rec[q] /\ copy'[q] = copy[q] /\ at'[q] = at[q]
        /\ UNCHANGED <<allowance, orphans, unrecorded>>
    BY <1>12 DEF SaveActivation, RecordActivation, TypeOK
  <2>2. \A q \in Positions : Late(q)' => Late(q)
    BY <2>1 DEF Late
  <2> QED BY <1>d, <2>1, <2>2
<1>13. ASSUME NEW p \in Positions, NEW cfg \in FeeConfigs, SendSwap(p, cfg) PROVE OrphanInv'
  <2>1. /\ at[p] = "swap" /\ at'[p] = "swapping" /\ UNCHANGED <<allowance, orphans, unrecorded, rec, copy>>
        /\ \A q \in Positions : q # p => at'[q] = at[q]
    BY <1>13 DEF SendSwap, TypeOK
  <2>2. \A q \in Positions : Late(q)' => Late(q)
    BY <2>1 DEF Late, Swapping
  <2> QED BY <1>d, <2>1, <2>2
<1>14. ASSUME NEW p \in Positions, SwapMined(p) PROVE OrphanInv'
  <2>1. allowance'.nonce = allowance.nonce
    BY <1>14, SwapKeepsNonces DEF SwapMined
  <2>2. /\ at[p] = "swapping" /\ at'[p] = "swapped" /\ UNCHANGED <<orphans, unrecorded, rec, copy>>
        /\ \A q \in Positions : q # p => at'[q] = at[q]
    BY <1>14 DEF SwapMined, TypeOK
  <2>3. \A q \in Positions : Late(q)' => Late(q)
    BY <2>2 DEF Late, Swapping
  <2> QED BY <1>d, <2>1, <2>2, <2>3
<1>15. ASSUME NEW p \in Positions, PersistSwap(p) PROVE OrphanInv'
  <2>1. /\ at[p] = "swapped" /\ at'[p] \in {"persisted", "idle"}
        /\ \A q \in Positions : q # p =>
              rec'[q] = rec[q] /\ copy'[q] = copy[q] /\ at'[q] = at[q]
        /\ UNCHANGED <<allowance, orphans>> /\ unrecorded \subseteq unrecorded'
    BY <1>15 DEF PersistSwap, TypeOK
  <2>2. \A q \in Positions : Late(q)' => Late(q)
    BY <2>1 DEF Late, Swapping
  <2> QED BY <1>d, <2>1, <2>2
<1>16. ASSUME NEW cfg \in FeeConfigs, MarketSwap(cfg) PROVE OrphanInv'
  <2>1. UNCHANGED <<allowance, orphans, unrecorded, rec, at, copy>>
    BY <1>16 DEF MarketSwap
  <2>2. \A q \in Positions : Late(q)' => Late(q)
    BY <2>1 DEF Late
  <2> QED BY <1>d, <2>1, <2>2
\* A transaction the keeper gives up on.
<1>17. ASSUME UNCHANGED <<allowance, rec>>, unrecorded \subseteq unrecorded',
              \A q \in Positions : at'[q] = "idle" \/ (at'[q] = at[q] /\ copy'[q] = copy[q]),
              \A tx \in orphans' : \/ tx \in orphans
                                   \/ \E p \in Positions : tx = TxOf(p) /\ at'[p] = "idle"
       PROVE  OrphanInv'
  <2>1. \A q \in Positions : InFlight(q)'
    BY <1>17, <1>a DEF InFlight
  <2>2. ASSUME NEW tx \in orphans' PROVE Left(tx)'
    <3>1. CASE tx \in orphans
      <4>1. tx.pos \in Positions /\ (Late(tx.pos)' => Late(tx.pos))
        BY <1>17, <3>1, RecordNonces DEF Late, Swapping
      <4> QED BY <1>17, <1>a, <3>1, <4>1 DEF Left
    <3>2. ASSUME NEW p \in Positions, tx = TxOf(p), at'[p] = "idle" PROVE Left(tx)'
      <4>1. tx.kind = "permit" => at[p] = "activating" /\ tx.pos = p /\ tx.permit = copy[p].permit
        BY <1>c, <3>2
      <4>2. at[p] = "activating" => ~Late(p)' /\ copy[p].permit.nonce <= allowance.nonce
        BY <1>17, <1>a, <3>2 DEF InFlight, Late, PhaseInv, Activating, Swapping
      <4> QED BY <1>17, <4>1, <4>2 DEF Left
    <3> QED BY <1>17, <3>1, <3>2
  <2> QED BY <1>b, <2>1, <2>2
<1>18. ASSUME NEW p \in Positions, Orphan(p) PROVE OrphanInv'
  <2>1. /\ UNCHANGED <<allowance, rec, unrecorded>> /\ orphans' = orphans \cup {TxOf(p)}
        /\ at'[p] = "idle" /\ \A q \in Positions : q # p => at'[q] = at[q] /\ copy'[q] = copy[q]
    BY <1>18 DEF Orphan, TypeOK
  <2> QED BY <1>17, <2>1
<1>19. ASSUME Crash PROVE OrphanInv'
  <2>1. /\ UNCHANGED <<allowance, rec>> /\ unrecorded \subseteq unrecorded'
        /\ orphans' \subseteq orphans \cup {TxOf(p) : p \in Positions}
        /\ \A q \in Positions : at'[q] = "idle"
    BY <1>19 DEF Crash
  <2> QED BY <1>17, <2>1
<1>20. ASSUME NEW tx \in orphans, LateMined(tx) PROVE OrphanInv'
  <2>1. /\ orphans' \subseteq orphans /\ UNCHANGED <<rec, at, copy>> /\ unrecorded \subseteq unrecorded'
        /\ tx.pos \in Positions /\ tx.permit \in Permits
    BY <1>20, RecordNonces DEF LateMined
  <2>2. \A q \in Positions : Late(q)' => Late(q)
    BY <2>1 DEF Late
  <2>3. CASE PermitAccepted(tx.permit) /\ activatePermit(tx.pos, tx.permit, tx.permit.amount)
    <3>1. PICK p \in Positions, permit \in Permits : p = tx.pos /\ permit = tx.permit
      BY <2>1
    <3>2. PermitAccepted(permit) /\ activatePermit(p, permit, permit.amount)
      BY <2>3, <3>1
    <3>3. \A q \in Positions : at'[q] = "activating" => at[q] = "activating"
      BY <2>1
    <3> QED BY <1>10, <2>1, <3>2, <3>3
  <2>4. CASE executeSwapViaPermit2(tx.pos, tx.amount, tx.fee.bps)
    <3>1. allowance'.nonce = allowance.nonce
      BY <2>1, <2>4, SwapKeepsNonces
    <3> QED BY <1>d, <2>1, <2>2, <3>1
  <2>5. CASE UNCHANGED chainVars
    BY <1>d, <2>1, <2>2, <2>5
  <2> QED BY <1>20, <2>3, <2>4, <2>5 DEF LateMined
<1>21. ASSUME Tick \/ UNCHANGED vars PROVE OrphanInv'
  <2>1. UNCHANGED <<allowance, orphans, unrecorded, rec, at, copy>>
    BY <1>21 DEF Tick, vars
  <2>2. \A q \in Positions : Late(q)' => Late(q)
    BY <2>1 DEF Late
  <2> QED BY <1>d, <2>1, <2>2
<1> QED BY <1>1, <1>2, <1>3, <1>4, <1>5, <1>6, <1>7, <1>8, <1>9, <1>11, <1>12, <1>13, <1>14,
           <1>15, <1>16, <1>18, <1>19, <1>20, <1>21, CallReads
        DEF Next, ExecuteStep, CallStep, ReadStep
LEMMA SpentStep ==
    TypeOK /\ PhaseInv /\ NoneInv /\ SpentOnlyIfLost /\ [Next]_vars => SpentOnlyIfLost'
<1> SUFFICES ASSUME TypeOK, PhaseInv, NoneInv, SpentOnlyIfLost, [Next]_vars,
                    NEW q \in Positions, ~rec'[q].activated,
                    rec'[q].permit.nonce < allowance'.nonce
             PROVE  \/ at'[q] = "activated"
                    \/ usedBy'[rec'[q].permit.nonce] # q
                    \/ q \in spent'
  BY DEF SpentOnlyIfLost
<1> USE DEF chainVars, procVars, historyVars, GoTo, Forget
<1> DEFINE Goal == \/ at'[q] = "activated"
                   \/ usedBy'[rec'[q].permit.nonce] # q
                   \/ q \in spent'
<1>a. \/ rec[q].activated \/ ~(rec[q].permit.nonce < allowance.nonce)
      \/ at[q] = "activated" \/ usedBy[rec[q].permit.nonce] # q \/ q \in spent
  BY DEF SpentOnlyIfLost
\* A step that uses no nonce and leaves the permit and the flag as they are.
<1>b. ASSUME rec'[q].permit = rec[q].permit, rec'[q].activated = rec[q].activated,
             allowance'.nonce = allowance.nonce, usedBy' = usedBy,
             at[q] = "activated" => at'[q] = "activated" \/ q \in spent',
             q \in spent => q \in spent'
      PROVE  Goal
  <2>1. ~rec[q].activated
    BY <1>b
  <2>2. rec[q].permit.nonce < allowance.nonce
    BY <1>b
  <2> QED BY <1>a, <1>b, <2>1, <2>2
<1>c. ASSUME rec'[q] = rec[q], allowance'.nonce = allowance.nonce, usedBy' = usedBy,
             at[q] = "activated" => at'[q] = "activated" \/ q \in spent',
             q \in spent => q \in spent'
      PROVE  Goal
  BY <1>b, <1>c
<1>d. ASSUME NEW p \in Positions, NEW permit \in Permits, NEW amount, PermitAccepted(permit),
             activatePermit(p, permit, amount), rec' = rec, spent \subseteq spent',
             p = q => at'[q] = "activated" \/ q \in spent',
             p # q => at'[q] = at[q]
      PROVE  Goal
  <2>1. CASE p = q
    BY <1>d, <2>1
  <2>2. CASE p # q
    <3>1. /\ permit.nonce = allowance.nonce /\ allowance'.nonce = allowance.nonce + 1
          /\ usedBy'[permit.nonce] = p
          /\ \A n \in Nonces : n # permit.nonce => usedBy'[n] = usedBy[n]
      BY <1>d, AcceptedNonce
    <3>2. rec[q].permit.nonce \in Nonces /\ rec[q].permit.nonce \in Nat /\ allowance.nonce \in Nat
      BY RecordNonces
    <3>3. CASE rec[q].permit.nonce = allowance.nonce
      BY <1>d, <2>2, <3>1, <3>3
    <3>4. CASE rec[q].permit.nonce # allowance.nonce
      <4>1. rec[q].permit.nonce < allowance.nonce
        BY <1>d, <3>1, <3>2, <3>4
      <4> QED BY <1>a, <1>d, <2>2, <3>1, <3>2, <3>4, <4>1
    <3> QED BY <3>3, <3>4
  <2> QED BY <2>1, <2>2
<1> HIDE DEF Goal
<1>1. ASSUME NEW p \in Positions, NEW permit \in Permits, OpenPosition(p, permit) PROVE Goal
  <2>1. CASE p = q
    <3>1. rec'[q].permit = permit /\ rec[q].state = "none" /\ usedBy' = usedBy
      BY <1>1, <2>1 DEF OpenPosition, TypeOK
    <3>2. rec'[q].permit.nonce \in Nonces
      BY <3>1, RecordTypes
    <3> QED BY <3>1, <3>2 DEF NoneInv, Goal
  <2>2. CASE p # q
    BY <1>1, <1>c, <2>2 DEF OpenPosition, TypeOK
  <2> QED BY <2>1, <2>2
<1>2. ASSUME NEW c \in Callers, NEW p \in Positions, NEW renews, NEW record,
             Reads(c, p, renews, record)
      PROVE  Goal
  BY <1>2, <1>c DEF Reads, ReadForUpdate
<1>3. ASSUME NEW c \in Callers, SaveCall(c) PROVE Goal
  <2>0. PICK p \in Positions, r \in PositionRecord : p = call[c].pos /\ r = call[c].record
    BY <1>3, CallType DEF SaveCall, CallTypes
  <2>1. Overwrite(p, r) /\ UNCHANGED <<allowance, usedBy, at>>
    BY <1>3, <2>0 DEF SaveCall
  <2>2. /\ spent \subseteq spent' /\ rec'[p] = r
        /\ \A d \in Positions : d # p => rec'[d] = rec[d]
        /\ \/ p \in spent'
           \/ r.permit = rec[p].permit /\ r.activated = rec[p].activated
    BY <2>1, Overwritten
  <2>3. CASE p = q
    BY <1>b, <2>1, <2>2, <2>3 DEF Goal
  <2>4. CASE p # q
    BY <1>c, <2>1, <2>2, <2>4
  <2> QED BY <2>3, <2>4
<1>4. ASSUME NEW c \in Callers, SaveRenewal(c) PROVE Goal
  <2>0. PICK p \in Positions, r \in PositionRecord : p = call[c].pos /\ r = call[c].record
    BY <1>4, CallType DEF SaveRenewal, CallTypes
  <2>1. /\ rec' = [rec EXCEPT ![p] = r] /\ UNCHANGED <<allowance, usedBy, at>>
        /\ spent' = IF r.permit.nonce < allowance.nonce THEN spent \cup {p} ELSE spent \ {p}
    BY <1>4, <2>0 DEF SaveRenewal
  <2>2. CASE p = q
    BY <2>1, <2>2 DEF Goal, TypeOK
  <2>3. CASE p # q
    BY <1>c, <2>1, <2>3 DEF TypeOK
  <2> QED BY <2>2, <2>3
<1>5. ASSUME NEW c \in Callers, CallFails(c) PROVE Goal
  BY <1>5, <1>c DEF CallFails
<1>6. ASSUME NEW p \in Positions, Execute(p) PROVE Goal
  BY <1>6, <1>c DEF Execute, TypeOK
<1>7. ASSUME NEW p \in Positions, SaveSuspension(p) PROVE Goal
  <2>1. /\ UNCHANGED <<allowance, usedBy>> /\ at[p] = "suspend" /\ copy[p] \in PositionRecord
        /\ p # q => at'[q] = at[q]
    BY <1>7 DEF SaveSuspension, TypeOK
  <2>2. CASE Overwrite(p, copy[p])
    <3>1. /\ spent \subseteq spent' /\ rec'[p] = copy[p]
          /\ \A d \in Positions : d # p => rec'[d] = rec[d]
          /\ \/ p \in spent'
             \/ copy[p].permit = rec[p].permit /\ copy[p].activated = rec[p].activated
      BY <2>1, <2>2, Overwritten
    <3>2. CASE p = q
      BY <1>b, <2>1, <3>1, <3>2 DEF Goal
    <3>3. CASE p # q
      BY <1>c, <2>1, <3>1, <3>3
    <3> QED BY <3>2, <3>3
  <2>3. CASE UNCHANGED <<rec, historyVars>>
    BY <1>c, <2>1, <2>3
  <2> QED BY <1>7, <2>2, <2>3 DEF SaveSuspension
<1>8. ASSUME NEW p \in Positions, GiveUp(p) \/ Reverted(p) \/ Orphan(p) \/ ReportSwap(p) PROVE Goal
  <2>1. UNCHANGED <<rec, allowance, usedBy, spent>> /\ at[p] # "activated" /\ (p # q => at'[q] = at[q])
    BY <1>8 DEF GiveUp, Reverted, Orphan, ReportSwap, TypeOK
  <2> QED BY <1>c, <2>1
<1>9. ASSUME NEW p \in Positions, SendActivation(p) \/ \E cfg \in FeeConfigs : SendSwap(p, cfg)
      PROVE  Goal
  BY <1>9, <1>c DEF SendActivation, SendSwap, TypeOK
<1>10. ASSUME NEW p \in Positions, ActivationMined(p) PROVE Goal
  <2>1. copy[p].permit \in Permits
    BY RecordNonces
  <2> QED BY <1>10, <1>d, <2>1 DEF ActivationMined, TypeOK
<1>11. ASSUME NEW p \in Positions, SaveActivation(p) PROVE Goal
  <2>1. CASE p = q
    <3>1. CASE rec' = RecordActivation(p)
      <4>1. rec'[q] = [copy[q] EXCEPT !.activated = TRUE] /\ copy[q] \in PositionRecord
        BY <2>1, <3>1 DEF RecordActivation, TypeOK
      <4>2. rec'[q].activated = TRUE
        BY <4>1, MarkedFields
      <4> QED BY <4>2
    <3>2. CASE spent' = spent \cup {p}
      BY <2>1, <3>2 DEF Goal
    <3> QED BY <1>11, <3>1, <3>2 DEF SaveActivation
  <2>2. CASE p # q
    BY <1>11, <1>c, <2>2 DEF SaveActivation, RecordActivation, TypeOK
  <2> QED BY <2>1, <2>2
<1>12. ASSUME NEW p \in Positions, SwapMined(p) PROVE Goal
  <2>1. allowance'.nonce = allowance.nonce /\ usedBy' = usedBy
    BY <1>12, SwapKeepsNonces DEF SwapMined
  <2>2. rec' = rec /\ spent' = spent /\ (at[q] = "activated" => at'[q] = "activated")
    BY <1>12 DEF SwapMined, TypeOK
  <2> QED BY <1>c, <2>1, <2>2
<1>13. ASSUME NEW p \in Positions, PersistSwap(p) PROVE Goal
  <2>1. /\ UNCHANGED <<allowance, usedBy>> /\ at[p] = "swapped"
        /\ copy[p] \in PositionRecord /\ copy[p].active >= 1 /\ copy[p].activated
        /\ p # q => at'[q] = at[q] /\ rec'[q] = rec[q]
        /\ spent' \in {spent, spent \ {p}}
    BY <1>13 DEF PersistSwap, PhaseInv, Swapping, TypeOK
  <2>2. CASE p = q
    <3>1. CASE rec' = rec /\ spent' = spent
      BY <1>c, <2>1, <2>2, <3>1
    <3>2. ASSUME NEW left \in 0..(copy[p].active - 1),
                 rec' = [rec EXCEPT ![p] = Filled(copy[p], Amount(p), left)]
          PROVE  Goal
      <4>1. rec'[q] = Filled(copy[p], Amount(p), left)
        BY <2>2, <3>2 DEF TypeOK
      <4>2. rec'[q].activated = copy[p].activated
        BY <2>1, <4>1, AmountType, FilledFields
      <4> QED BY <2>1, <4>2
    <3> QED BY <1>13, <3>1, <3>2 DEF PersistSwap
  <2>3. CASE p # q
    BY <1>c, <2>1, <2>3
  <2> QED BY <2>2, <2>3
<1>14. ASSUME NEW cfg \in FeeConfigs, MarketSwap(cfg) PROVE Goal
  <2>1. UNCHANGED <<rec, allowance, usedBy, at, spent>>
    BY <1>14 DEF MarketSwap
  <2> QED BY <1>c, <2>1
<1>15. ASSUME NEW tx \in orphans, LateMined(tx) PROVE Goal
  <2>1. tx.pos \in Positions /\ tx.permit \in Permits /\ rec' = rec /\ at' = at
    BY <1>15, RecordNonces DEF LateMined
  <2>2. CASE /\ PermitAccepted(tx.permit)
             /\ activatePermit(tx.pos, tx.permit, tx.permit.amount)
             /\ spent' = spent \cup {tx.pos}
    <3>1. PICK p \in Positions, permit \in Permits : p = tx.pos /\ permit = tx.permit
      BY <2>1
    <3>2. /\ PermitAccepted(permit) /\ activatePermit(p, permit, permit.amount)
          /\ spent' = spent \cup {p}
      BY <2>2, <3>1
    <3> QED BY <1>d, <2>1, <3>2
  <2>3. CASE executeSwapViaPermit2(tx.pos, tx.amount, tx.fee.bps) /\ spent' = spent
    <3>1. allowance'.nonce = allowance.nonce /\ usedBy' = usedBy
      BY <2>1, <2>3, SwapKeepsNonces
    <3> QED BY <1>c, <2>1, <2>3, <3>1
  <2>4. CASE UNCHANGED <<chainVars, historyVars>>
    BY <1>c, <2>1, <2>4
  <2> QED BY <1>15, <2>2, <2>3, <2>4 DEF LateMined
<1>16. ASSUME Crash PROVE Goal
  BY <1>16, <1>c DEF Crash
<1>17. ASSUME Tick \/ UNCHANGED vars PROVE Goal
  BY <1>17, <1>c DEF Tick, vars
<1> QED BY <1>1, <1>2, <1>3, <1>4, <1>5, <1>6, <1>7, <1>8, <1>9, <1>10, <1>11, <1>12,
           <1>13, <1>14, <1>15, <1>16, <1>17, CallReads
        DEF Next, ExecuteStep, CallStep, ReadStep, Goal
-----------------------------------------------------------------------------
(* The allowance.                                                           *)

LEMMA AmountKept ==
    ASSUME NEW p \in Positions, copy'[p].remaining = copy[p].remaining
    PROVE  Amount(p)' = Amount(p)
BY DEF Amount

LEMMA CoverStep ==
    TypeOK /\ PhaseInv /\ CallInv /\ OrphanInv /\ AllowanceCoversPosition /\ CoverInv /\ [Next]_vars
        => AllowanceCoversPosition' /\ CoverInv'
<1> DEFINE
      RecordCovered(q) ==
        (rec[q].activated /\ rec[q].permit.amount >= Size)
          => allowance.amount + Unsaved(q) >= rec[q].remaining
      CopyCovered(q) ==
        /\ at[q] = "activated" => allowance.amount >= copy[q].permit.amount
        /\ at[q] \in {"swap", "swapping", "swapped"} /\ copy[q].permit.amount >= Size
             => allowance.amount + Unsaved(q) >= copy[q].remaining
      Covered(q) == RecordCovered(q) /\ CopyCovered(q)
<1> SUFFICES ASSUME TypeOK, PhaseInv, CallInv, OrphanInv, AllowanceCoversPosition, CoverInv,
                    [Next]_vars, NEW q \in Positions, holder' = q, q \notin unrecorded'
             PROVE  Covered(q)'
  <2>1. (\A q \in Positions : holder = q /\ q \notin unrecorded => Covered(q))'
          => AllowanceCoversPosition' /\ CoverInv'
    BY DEF AllowanceCoversPosition, CoverInv
  <2> QED BY <2>1
<1> USE DEF chainVars, procVars, historyVars, GoTo, Forget
<1>a. holder = q /\ q \notin unrecorded => Covered(q)
  BY DEF AllowanceCoversPosition, CoverInv
<1>b. /\ q # Nobody /\ Size \in Nat
      /\ rec[q] \in PositionRecord /\ copy[q] \in PositionRecord /\ allowance.amount \in Nat
  BY PermitAssumption DEF TypeOK
<1>c. /\ rec[q].remaining \in Nat /\ rec[q].remaining <= Size /\ rec[q].permit.amount \in Nat
      /\ copy[q].remaining \in Nat /\ copy[q].remaining <= Size /\ copy[q].permit.amount \in Nat
  <2>1. \A r \in PositionRecord : r.remaining \in 0..Size /\ r.permit \in Permits
    BY DEF PositionRecord
  <2> QED BY <1>b, <2>1, RecordTypes
<1>d. Unsaved(q) = IF at[q] = "swapped" THEN Amount(q) ELSE 0
  BY DEF Unsaved
<1>e. Unsaved(q)' = IF at'[q] = "swapped" THEN Amount(q)' ELSE 0
  BY DEF Unsaved
<1>f. Amount(q) \in Nat /\ Amount(q) <= copy[q].remaining
  BY AmountType
<1> HIDE DEF RecordCovered, CopyCovered
\* A record that still says the same, or that is not activated.
<1>g. ASSUME Covered(q), allowance' = allowance, Unsaved(q)' = Unsaved(q),
             \/ ~rec'[q].activated
             \/ /\ rec'[q].permit = rec[q].permit /\ rec'[q].remaining = rec[q].remaining
                /\ rec'[q].activated = rec[q].activated
      PROVE  RecordCovered(q)'
  BY <1>g DEF RecordCovered
\* A step that the execution does not notice.
<1>h. ASSUME holder' = holder, allowance' = allowance, unrecorded \subseteq unrecorded',
             at'[q] = at[q], copy'[q] = copy[q],
             \/ ~rec'[q].activated
             \/ /\ rec'[q].permit = rec[q].permit /\ rec'[q].remaining = rec[q].remaining
                /\ rec'[q].activated = rec[q].activated
      PROVE  Covered(q)'
  <2>1. Covered(q)
    BY <1>a, <1>h
  <2>2. Unsaved(q)' = Unsaved(q)
    BY <1>d, <1>e, <1>h, AmountKept
  <2>3. RecordCovered(q)'
    BY <1>g, <1>h, <2>1, <2>2
  <2> QED BY <1>h, <2>1, <2>2, <2>3 DEF CopyCovered
<1>i. ASSUME holder' = holder, allowance' = allowance, unrecorded \subseteq unrecorded',
             at'[q] = at[q], copy'[q] = copy[q], rec'[q] = rec[q]
      PROVE  Covered(q)'
  BY <1>h, <1>i
\* An execution that ends or goes on without a swap.
<1>j. ASSUME holder' = holder, allowance' = allowance, unrecorded \subseteq unrecorded',
             at'[q] \in {"idle", "suspend", "activate", "activating"},
             at[q] \notin {"swapped"},
             /\ rec'[q].permit = rec[q].permit /\ rec'[q].remaining = rec[q].remaining
             /\ rec'[q].activated = rec[q].activated
      PROVE  Covered(q)'
  <2>1. Covered(q)
    BY <1>a, <1>j
  <2>2. Unsaved(q)' = 0 /\ Unsaved(q) = 0
    BY <1>d, <1>e, <1>j
  <2>3. RecordCovered(q)'
    BY <1>g, <1>j, <2>1, <2>2
  <2>4. CopyCovered(q)'
    BY <1>j DEF CopyCovered
  <2> QED BY <2>3, <2>4
<1> HIDE DEF Covered
<1>1. ASSUME NEW p \in Positions, NEW permit \in Permits, OpenPosition(p, permit) PROVE Covered(q)'
  <2>1. UNCHANGED <<holder, allowance, unrecorded, at, copy>>
    BY <1>1 DEF OpenPosition
  <2>2. ~rec'[q].activated \/ rec'[q] = rec[q]
    BY <1>1 DEF OpenPosition, TypeOK
  <2> QED BY <1>h, <1>i, <2>1, <2>2
<1>2. ASSUME NEW c \in Callers, NEW p \in Positions, NEW renews, NEW record,
             Reads(c, p, renews, record)
      PROVE  Covered(q)'
  BY <1>2, <1>i DEF Reads, ReadForUpdate
<1>3. ASSUME NEW c \in Callers, SaveCall(c) PROVE Covered(q)'
  <2>0. PICK p \in Positions, r \in PositionRecord : p = call[c].pos /\ r = call[c].record
    BY <1>3, CallType DEF SaveCall, CallTypes
  <2>1. Overwrite(p, r) /\ UNCHANGED <<holder, allowance, at, copy>>
    BY <1>3, <2>0 DEF SaveCall
  <2>2. /\ unrecorded \subseteq unrecorded' /\ rec'[p] = r
        /\ \A d \in Positions : d # p => rec'[d] = rec[d]
        /\ \/ p \in unrecorded'
           \/ /\ r.permit = rec[p].permit /\ r.activated = rec[p].activated
              /\ r.remaining = rec[p].remaining
    BY <2>1, Overwritten
  <2>3. CASE p = q
    BY <1>h, <2>1, <2>2, <2>3
  <2>4. CASE p # q
    BY <1>i, <2>1, <2>2, <2>4
  <2> QED BY <2>3, <2>4
<1>4. ASSUME NEW c \in Callers, SaveRenewal(c) PROVE Covered(q)'
  <2>0. PICK p \in Positions : p = call[c].pos
    BY <1>4, CallType DEF SaveRenewal, CallTypes
  <2>1. /\ ~call[c].record.activated /\ rec' = [rec EXCEPT ![p] = call[c].record]
        /\ UNCHANGED <<holder, allowance, at, copy>> /\ unrecorded \subseteq unrecorded'
    BY <1>4, <2>0 DEF SaveRenewal, CallInv
  <2>2. ~rec'[q].activated \/ rec'[q] = rec[q]
    BY <2>1 DEF TypeOK
  <2> QED BY <1>h, <1>i, <2>1, <2>2
<1>5. ASSUME NEW c \in Callers, CallFails(c) PROVE Covered(q)'
  BY <1>5, <1>i DEF CallFails
<1>6. ASSUME NEW p \in Positions, Execute(p) PROVE Covered(q)'
  <2>1. CASE p = q
    <3>1. /\ UNCHANGED <<holder, allowance, unrecorded, rec>> /\ at[q] = "idle"
          /\ \/ at'[q] \in {"suspend", "activate"}
             \/ at'[q] = "swap" /\ rec[q].activated /\ copy'[q] = rec[q]
      BY <1>6, <2>1 DEF Execute, TypeOK
    <3>2. CASE at'[q] \in {"suspend", "activate"}
      BY <1>j, <3>1, <3>2
    <3>3. CASE at'[q] = "swap" /\ rec[q].activated /\ copy'[q] = rec[q]
      <4>1. Covered(q) /\ Unsaved(q)' = 0 /\ Unsaved(q) = 0
        BY <1>a, <1>d, <1>e, <3>1, <3>3
      <4> QED BY <3>1, <3>3, <4>1 DEF Covered, RecordCovered, CopyCovered
    <3> QED BY <3>1, <3>2, <3>3
  <2>2. CASE p # q
    BY <1>6, <1>i, <2>2 DEF Execute, TypeOK
  <2> QED BY <2>1, <2>2
<1>7. ASSUME NEW p \in Positions, SaveSuspension(p) PROVE Covered(q)'
  <2>1. /\ UNCHANGED <<holder, allowance>> /\ at[p] = "suspend" /\ copy[p] \in PositionRecord
        /\ at'[p] = "idle" /\ (p # q => at'[q] = at[q] /\ copy'[q] = copy[q])
    BY <1>7 DEF SaveSuspension, TypeOK
  <2>2. /\ unrecorded \subseteq unrecorded'
        /\ \A d \in Positions : d # p => rec'[d] = rec[d]
        /\ \/ p \in unrecorded'
           \/ /\ rec'[p].permit = rec[p].permit /\ rec'[p].activated = rec[p].activated
              /\ rec'[p].remaining = rec[p].remaining
    <3>1. CASE Overwrite(p, copy[p])
      BY <2>1, <3>1, Overwritten
    <3>2. CASE UNCHANGED <<rec, historyVars>>
      BY <3>2
    <3> QED BY <1>7, <3>1, <3>2 DEF SaveSuspension
  <2>3. CASE p = q
    BY <1>j, <2>1, <2>2, <2>3
  <2>4. CASE p # q
    BY <1>i, <2>1, <2>2, <2>4
  <2> QED BY <2>3, <2>4
<1>8. ASSUME NEW p \in Positions, GiveUp(p) \/ Reverted(p) \/ Orphan(p) \/ ReportSwap(p)
      PROVE  Covered(q)'
  <2>1. /\ UNCHANGED <<holder, allowance, unrecorded, rec>>
        /\ at' = [at EXCEPT ![p] = "idle"] /\ copy' = [copy EXCEPT ![p] = NoRecord]
        /\ at[p] # "swapped"
    BY <1>8 DEF GiveUp, Reverted, Orphan, ReportSwap
  <2>2. CASE p = q
    BY <1>j, <2>1, <2>2 DEF TypeOK
  <2>3. CASE p # q
    BY <1>i, <2>1, <2>3 DEF TypeOK
  <2> QED BY <2>2, <2>3
<1>9. ASSUME NEW p \in Positions, SendActivation(p) PROVE Covered(q)'
  <2>1. /\ UNCHANGED <<holder, allowance, unrecorded, rec, copy>>
        /\ at[p] = "activate" /\ at' = [at EXCEPT ![p] = "activating"]
    BY <1>9 DEF SendActivation
  <2>2. CASE p = q
    BY <1>j, <2>1, <2>2 DEF TypeOK
  <2>3. CASE p # q
    BY <1>i, <2>1, <2>3 DEF TypeOK
  <2> QED BY <2>2, <2>3
<1>10. ASSUME NEW p \in Positions, ActivationMined(p) PROVE Covered(q)'
  <2>1. /\ p = q /\ allowance'.amount = copy[q].permit.amount
        /\ at[q] = "activating" /\ at'[q] = "activated" /\ UNCHANGED <<rec, copy, unrecorded>>
    BY <1>10 DEF ActivationMined, activatePermit, AskedAmount, TypeOK
  <2>2. ~rec'[q].activated
    BY <2>1 DEF PhaseInv, Activating
  <2> QED BY <1>c, <2>1, <2>2 DEF Covered, RecordCovered, CopyCovered
<1>11. ASSUME NEW p \in Positions, SaveActivation(p) PROVE Covered(q)'
  <2>1. CASE p = q
    <3>1. /\ UNCHANGED <<holder, allowance, unrecorded>>
          /\ at[q] = "activated" /\ at'[q] = "swap"
          /\ copy'[q] = [copy[q] EXCEPT !.activated = TRUE]
          /\ rec'[q] = rec[q] \/ rec'[q] = [copy[q] EXCEPT !.activated = TRUE]
      BY <1>11, <2>1 DEF SaveActivation, RecordActivation, TypeOK
    <3>2. /\ copy'[q].permit = copy[q].permit /\ copy'[q].remaining = copy[q].remaining
          /\ rec'[q] = rec[q] \/ rec'[q] = copy'[q]
      BY <1>b, <3>1, MarkedFields
    <3>3. Covered(q) /\ Unsaved(q)' = 0 /\ Unsaved(q) = 0
      BY <1>a, <1>d, <1>e, <3>1
    <3>4. allowance.amount >= copy[q].permit.amount
      BY <3>1, <3>3 DEF Covered, CopyCovered
    <3>5. CopyCovered(q)'
      BY <1>b, <1>c, <3>1, <3>2, <3>3, <3>4 DEF CopyCovered
    <3>6. CASE rec'[q] = rec[q]
      BY <3>1, <3>3, <3>5, <3>6 DEF Covered, RecordCovered
    <3>7. CASE rec'[q] = copy'[q]
      BY <1>b, <1>c, <3>1, <3>2, <3>3, <3>4, <3>5, <3>7 DEF Covered, RecordCovered
    <3> QED BY <3>2, <3>6, <3>7
  <2>2. CASE p # q
    BY <1>11, <1>i, <2>2 DEF SaveActivation, RecordActivation, TypeOK
  <2> QED BY <2>1, <2>2
<1>12. ASSUME NEW p \in Positions, NEW cfg \in FeeConfigs, SendSwap(p, cfg) PROVE Covered(q)'
  <2>1. CASE p = q
    <3>1. /\ UNCHANGED <<holder, allowance, unrecorded, rec, copy>>
          /\ at[q] = "swap" /\ at'[q] = "swapping"
      BY <1>12, <2>1 DEF SendSwap, TypeOK
    <3>2. Covered(q) /\ Unsaved(q)' = 0 /\ Unsaved(q) = 0
      BY <1>a, <1>d, <1>e, <3>1
    <3> QED BY <3>1, <3>2 DEF Covered, RecordCovered, CopyCovered
  <2>2. CASE p # q
    BY <1>12, <1>i, <2>2 DEF SendSwap, TypeOK
  <2> QED BY <2>1, <2>2
<1>13. ASSUME NEW p \in Positions, SwapMined(p) PROVE Covered(q)'
  <2>1. p = q /\ holder = q
    BY <1>13, <1>b DEF SwapMined, executeSwapViaPermit2
  <2>2. /\ allowance'.amount = allowance.amount - Amount(q)
        /\ at[q] = "swapping" /\ at'[q] = "swapped" /\ UNCHANGED <<rec, copy, unrecorded>>
    BY <1>13, <2>1 DEF SwapMined, executeSwapViaPermit2, TypeOK
  <2>3. Covered(q) /\ Unsaved(q) = 0 /\ Unsaved(q)' = Amount(q)
    BY <1>a, <1>d, <1>e, <2>1, <2>2, AmountKept
  <2>4. allowance'.amount + Unsaved(q)' = allowance.amount + Unsaved(q)
    BY <1>b, <1>f, <2>2, <2>3
  <2> QED BY <2>2, <2>3, <2>4 DEF Covered, RecordCovered, CopyCovered
<1>14. ASSUME NEW p \in Positions, PersistSwap(p) PROVE Covered(q)'
  <2>1. CASE p = q
    <3>1. q \notin unrecorded
      BY <1>14 DEF PersistSwap
    <3>2. PICK left \in 0..(copy[q].active - 1) :
            rec' = [rec EXCEPT ![q] = Filled(copy[q], Amount(q), left)]
      BY <1>14, <2>1 DEF PersistSwap
    <3>3. /\ UNCHANGED <<holder, allowance>>
          /\ at[q] = "swapped" /\ at'[q] = "persisted"
          /\ rec'[q] = Filled(copy[q], Amount(q), left)
      BY <1>14, <2>1, <3>2 DEF PersistSwap, TypeOK
    <3>4. copy[q].active >= 1
      BY <3>3 DEF PhaseInv
    <3>5. Covered(q) /\ Unsaved(q) = Amount(q) /\ Unsaved(q)' = 0
      BY <1>a, <1>d, <1>e, <3>1, <3>3
    <3>6. /\ rec'[q].permit = copy[q].permit
          /\ rec'[q].remaining = copy[q].remaining - Amount(q)
      BY <1>b, <1>f, <3>3, <3>4, FilledFields
    <3>7. copy[q].permit.amount >= Size => allowance.amount + Amount(q) >= copy[q].remaining
      BY <3>3, <3>5 DEF Covered, CopyCovered
    <3>8. copy[q].permit.amount >= Size => allowance.amount + 0 >= copy[q].remaining - Amount(q)
      BY <1>b, <1>c, <1>f, <3>7
    <3> QED BY <3>3, <3>5, <3>6, <3>8 DEF Covered, RecordCovered, CopyCovered
  <2>2. CASE p # q
    BY <1>14, <1>i, <2>2 DEF PersistSwap, TypeOK
  <2> QED BY <2>1, <2>2
<1>15. ASSUME NEW cfg \in FeeConfigs, MarketSwap(cfg) PROVE Covered(q)'
  <2>1. UNCHANGED <<holder, allowance, unrecorded, rec, at, copy>>
    BY <1>15 DEF MarketSwap
  <2> QED BY <1>i, <2>1
<1>16. ASSUME NEW tx \in orphans, LateMined(tx) PROVE Covered(q)'
  <2>1. tx.pos \in Positions /\ tx.permit \in Permits /\ UNCHANGED <<rec, at, copy>>
    BY <1>16, RecordNonces DEF LateMined
  <2>2. CASE /\ tx.kind = "permit" /\ PermitAccepted(tx.permit)
             /\ activatePermit(tx.pos, tx.permit, tx.permit.amount)
             /\ UNCHANGED unrecorded
    <3>1. tx.pos = q /\ tx.permit.nonce = allowance.nonce
      BY <2>2 DEF activatePermit, PermitAccepted
    <3>2. ~rec[q].activated /\ at[q] \notin Swapping \cup {"activated"}
      BY <2>2, <3>1, RecordNonces DEF OrphanInv
    <3> QED BY <2>1, <3>2 DEF Covered, RecordCovered, CopyCovered, Swapping
  <2>3. CASE /\ executeSwapViaPermit2(tx.pos, tx.amount, tx.fee.bps)
             /\ unrecorded' = unrecorded \cup {tx.pos}
    BY <1>b, <2>1, <2>3 DEF executeSwapViaPermit2
  <2>4. CASE UNCHANGED <<chainVars, historyVars>>
    BY <1>i, <2>1, <2>4
  <2> QED BY <1>16, <2>2, <2>3, <2>4 DEF LateMined
<1>17. ASSUME Crash PROVE Covered(q)'
  <2>1. /\ UNCHANGED <<holder, allowance, rec>> /\ unrecorded \subseteq unrecorded'
        /\ at'[q] = "idle" /\ at[q] # "swapped"
    BY <1>17 DEF Crash
  <2> QED BY <1>j, <2>1
<1>18. ASSUME Tick \/ UNCHANGED vars PROVE Covered(q)'
  BY <1>18, <1>i DEF Tick, vars
<1> QED BY <1>1, <1>2, <1>3, <1>4, <1>5, <1>6, <1>7, <1>8, <1>9, <1>10, <1>11, <1>12,
           <1>13, <1>14, <1>15, <1>16, <1>17, <1>18, CallReads
        DEF Next, ExecuteStep, CallStep, ReadStep

-----------------------------------------------------------------------------
(* Fees.                                                                    *)

LEMMA FeeStep == TypeOK /\ FeesMatch /\ [Next]_vars => FeesMatch'
<1> DEFINE
      Shared(q)  == reported[q].platform + reported[q].referral
      Matches(q) == collected[q] = Shared(q) + Unreported(q)
<1> SUFFICES ASSUME TypeOK, FeesMatch, [Next]_vars, NEW q \in Payers, q \notin unreported'
             PROVE  Matches(q)'
  <2>1. (\A q \in Payers : q \notin unreported => Matches(q))' => FeesMatch'
    BY DEF FeesMatch
  <2> QED BY <2>1
<1> USE DEF chainVars, procVars, historyVars, GoTo, Forget
<1>a. q \notin unreported => Matches(q)
  BY DEF FeesMatch
<1>b. Nobody \notin Positions /\ Nobody \in Payers /\ \A p \in Positions : p \in Payers
  BY PermitAssumption DEF Payers
<1>c. /\ collected[q] \in Nat
      /\ reported[q].platform \in Int /\ reported[q].referral \in Nat
  BY DEF TypeOK, Shares
\* A step that leaves the fees of the position alone.
<1>d. ASSUME collected'[q] = collected[q], reported'[q] = reported[q],
             unreported \subseteq unreported',
             \/ q = Nobody
             \/ at'[q] = at[q] /\ copy'[q] = copy[q] /\ fee'[q] = fee[q]
             \/ at[q] \notin {"swapped", "persisted"} /\ at'[q] \notin {"swapped", "persisted"}
             \/ /\ at[q] = "swapped" /\ at'[q] = "persisted"
                /\ copy'[q] = copy[q] /\ fee'[q] = fee[q]
      PROVE  Matches(q)'
  <2>1. Unreported(q)' = Unreported(q)
    <3>1. CASE q = Nobody
      BY <1>b, <3>1 DEF Unreported
    <3>2. CASE /\ q # Nobody /\ copy'[q] = copy[q] /\ fee'[q] = fee[q]
               /\ \/ at'[q] = at[q]
                  \/ at[q] = "swapped" /\ at'[q] = "persisted"
      <4>1. q \in Positions
        BY <3>2 DEF Payers
      <4>2. Amount(q)' = Amount(q)
        BY <3>2, <4>1, AmountKept
      <4> QED BY <3>2, <4>2 DEF Unreported, feeAmount
    <3>3. CASE at[q] \notin {"swapped", "persisted"} /\ at'[q] \notin {"swapped", "persisted"}
      BY <3>3 DEF Unreported
    <3> QED BY <1>d, <3>1, <3>2, <3>3
  <2> QED BY <1>a, <1>d, <2>1
<1> HIDE DEF Matches
<1>1. ASSUME NEW p \in Positions, NEW permit \in Permits, OpenPosition(p, permit)
      PROVE  Matches(q)'
  BY <1>1, <1>d DEF OpenPosition
<1>2. ASSUME NEW c \in Callers, NEW p \in Positions, NEW renews, NEW record,
             Reads(c, p, renews, record)
      PROVE  Matches(q)'
  BY <1>2, <1>d DEF Reads, ReadForUpdate
<1>3. ASSUME NEW c \in Callers, SaveCall(c) \/ SaveRenewal(c) \/ CallFails(c) PROVE Matches(q)'
  BY <1>3, <1>d DEF SaveCall, SaveRenewal, CallFails, Overwrite
<1>4. ASSUME NEW p \in Positions, UNCHANGED <<collected, reported>>, unreported \subseteq unreported',
             \A r \in Positions : r # p => at'[r] = at[r] /\ copy'[r] = copy[r] /\ fee'[r] = fee[r],
             at[p] \notin {"swapped", "persisted"}, at'[p] \notin {"swapped", "persisted"}
      PROVE  Matches(q)'
  <2>1. q = Nobody \/ q \in Positions
    BY DEF Payers
  <2> QED BY <1>4, <1>d, <2>1
<1>5. ASSUME NEW p \in Positions, Execute(p) PROVE Matches(q)'
  <2>1. /\ UNCHANGED <<collected, reported, unreported>>
        /\ at[p] = "idle" /\ at'[p] \in {"suspend", "swap", "activate"}
        /\ \A r \in Positions : r # p => at'[r] = at[r] /\ copy'[r] = copy[r] /\ fee'[r] = fee[r]
    BY <1>5 DEF Execute, TypeOK
  <2> QED BY <1>4, <2>1
<1>6. ASSUME NEW p \in Positions,
             SaveSuspension(p) \/ GiveUp(p) \/ Reverted(p) \/ Orphan(p)
      PROVE  Matches(q)'
  <2>1. /\ UNCHANGED <<collected, reported>> /\ unreported' = unreported
        /\ at[p] \notin {"swapped", "persisted"} /\ at'[p] = "idle"
        /\ \A r \in Positions : r # p => at'[r] = at[r] /\ copy'[r] = copy[r] /\ fee'[r] = fee[r]
    BY <1>6 DEF SaveSuspension, Overwrite, GiveUp, Reverted, Orphan, TypeOK
  <2> QED BY <1>4, <2>1
<1>7. ASSUME NEW p \in Positions,
             \/ SendActivation(p) \/ SaveActivation(p)
             \/ \E cfg \in FeeConfigs : SendSwap(p, cfg)
      PROVE  Matches(q)'
  <2>1. /\ UNCHANGED <<collected, reported>> /\ unreported' = unreported
        /\ at[p] \notin {"swapped", "persisted"} /\ at'[p] \in {"activating", "swap", "swapping"}
        /\ \A r \in Positions : r # p => at'[r] = at[r] /\ copy'[r] = copy[r] /\ fee'[r] = fee[r]
    BY <1>7 DEF SendActivation, SaveActivation, SendSwap, TypeOK
  <2> QED BY <1>4, <2>1
<1>8. ASSUME NEW p \in Positions, ActivationMined(p) PROVE Matches(q)'
  <2>1. /\ UNCHANGED <<collected, reported, unreported>>
        /\ at[p] = "activating" /\ at'[p] = "activated"
        /\ \A r \in Positions : r # p => at'[r] = at[r] /\ copy'[r] = copy[r] /\ fee'[r] = fee[r]
    BY <1>8 DEF ActivationMined, activatePermit, TypeOK
  <2> QED BY <1>4, <2>1
<1>9. ASSUME NEW p \in Positions, SwapMined(p) PROVE Matches(q)'
  <2>1. CASE p = q
    <3>1. /\ at[q] = "swapping" /\ at'[q] = "swapped"
          /\ collected'[q] = collected[q] + feeAmount(Amount(q), fee[q].bps)
          /\ UNCHANGED <<copy, fee, reported, unreported>>
      BY <1>9, <1>b, <2>1 DEF SwapMined, executeSwapViaPermit2, TypeOK
    <3>2. Matches(q) /\ Unreported(q) = 0
      BY <1>a, <3>1 DEF Unreported
    <3>3. Unreported(q)' = feeAmount(Amount(q), fee[q].bps)
      BY <2>1, <3>1, AmountKept DEF Unreported, feeAmount
    <3>4. feeAmount(Amount(q), fee[q].bps) \in Nat
      BY <2>1, AmountType
    <3> QED BY <1>c, <3>1, <3>2, <3>3, <3>4 DEF Matches
  <2>2. CASE p # q
    <3>1. collected'[q] = collected[q]
      BY <1>9, <1>b, <2>2 DEF SwapMined, executeSwapViaPermit2, TypeOK
    <3>2. /\ UNCHANGED <<reported, unreported>>
          /\ q \in Positions => at'[q] = at[q] /\ copy'[q] = copy[q] /\ fee'[q] = fee[q]
      BY <1>9, <2>2 DEF SwapMined, TypeOK
    <3> QED BY <1>d, <3>1, <3>2 DEF Payers
  <2> QED BY <2>1, <2>2
<1>10. ASSUME NEW p \in Positions, PersistSwap(p) PROVE Matches(q)'
  <2>1. /\ UNCHANGED <<collected, reported>> /\ unreported \subseteq unreported'
        /\ at[p] = "swapped"
        /\ \/ p \in unreported'
           \/ at'[p] = "persisted" /\ copy'[p] = copy[p] /\ fee'[p] = fee[p]
        /\ \A r \in Positions : r # p => at'[r] = at[r] /\ copy'[r] = copy[r] /\ fee'[r] = fee[r]
    BY <1>10 DEF PersistSwap, TypeOK
  <2>2. q = Nobody \/ q \in Positions
    BY DEF Payers
  <2> QED BY <1>d, <2>1, <2>2
<1>11. ASSUME NEW p \in Positions, ReportSwap(p) PROVE Matches(q)'
  <2>0. /\ Amount(p) \in Nat /\ fee[p].bps \in Nat /\ fee[p].share \in Nat
        /\ feeAmount(Amount(p), fee[p].bps) \in Nat
    BY AmountType
  <2>1. /\ reported'[p].platform + reported'[p].referral
               = reported[p].platform + reported[p].referral + feeAmount(Amount(p), fee[p].bps)
        /\ \A r \in Payers \ {p} : reported'[r] = reported[r]
    BY <1>11, <1>b, <2>0, ReportType DEF ReportSwap
  <2>2. /\ at[p] = "persisted" /\ at'[p] = "idle" /\ UNCHANGED <<collected, unreported>>
        /\ \A r \in Positions : r # p => at'[r] = at[r] /\ copy'[r] = copy[r] /\ fee'[r] = fee[r]
    BY <1>11 DEF ReportSwap, TypeOK
  <2>3. CASE p = q
    <3>1. /\ Matches(q) /\ Unreported(q) = feeAmount(Amount(q), fee[q].bps)
          /\ Unreported(q)' = 0
      BY <1>a, <2>2, <2>3 DEF Unreported
    <3>2. /\ Shared(q)' = Shared(q) + feeAmount(Amount(q), fee[q].bps) /\ Shared(q) \in Int
          /\ Shared(q)' \in Int
      BY <1>c, <2>0, <2>1, <2>3
    <3> HIDE DEF Shared
    <3> QED BY <1>c, <2>0, <2>2, <2>3, <3>1, <3>2 DEF Matches
  <2>4. CASE p # q
    <3>1. q = Nobody \/ q \in Positions
      BY DEF Payers
    <3> QED BY <1>d, <2>1, <2>2, <2>4, <3>1
  <2> QED BY <2>3, <2>4
<1>12. ASSUME NEW cfg \in FeeConfigs, MarketSwap(cfg) PROVE Matches(q)'
  <2>0. /\ Size \in Nat /\ cfg.bps \in Nat /\ cfg.share \in Nat
        /\ feeAmount(Size, cfg.bps) \in Nat
    BY FeeTypes, PartIsNat, PermitAssumption
  <2>1. /\ collected' = [collected EXCEPT ![Nobody] = @ + feeAmount(Size, cfg.bps)]
        /\ UNCHANGED <<at, copy, fee>> /\ unreported \subseteq unreported'
        /\ \/ Report(Nobody, Size, cfg)
           \/ Nobody \in unreported' /\ UNCHANGED reported
    BY <1>12 DEF MarketSwap
  <2>2. CASE q = Nobody
    <3>1. Report(q, Size, cfg)
      BY <2>1, <2>2
    <3>2. Shared(q)' = Shared(q) + feeAmount(Size, cfg.bps)
      BY <2>0, <3>1, ReportType
    <3>3. collected'[q] = collected[q] + feeAmount(Size, cfg.bps)
      BY <2>1, <2>2 DEF TypeOK
    <3>4. Matches(q) /\ Unreported(q) = 0 /\ Unreported(q)' = 0
      BY <1>a, <1>b, <2>1, <2>2 DEF Unreported
    <3>5. Shared(q) \in Int
      BY <1>c
    <3>6. collected[q] = Shared(q)
      <4> HIDE DEF Shared
      <4> QED BY <3>4, <3>5 DEF Matches
    <3>7. Shared(q)' \in Int
      BY <2>0, <3>2, <3>5
    <3> HIDE DEF Shared
    <3> QED BY <2>0, <3>2, <3>3, <3>4, <3>5, <3>6, <3>7 DEF Matches
  <2>3. CASE q # Nobody
    <3>1. reported'[q] = reported[q]
      <4>1. CASE Report(Nobody, Size, cfg)
        BY <1>b, <2>0, <2>3, <4>1, ReportType
      <4>2. CASE UNCHANGED reported
        BY <4>2
      <4> QED BY <2>1, <4>1, <4>2
    <3>2. collected'[q] = collected[q]
      BY <2>1, <2>3 DEF TypeOK
    <3> QED BY <1>d, <2>1, <3>1, <3>2
  <2> QED BY <2>2, <2>3
<1>13. ASSUME NEW tx \in orphans, LateMined(tx) PROVE Matches(q)'
  <2>1. /\ UNCHANGED <<at, copy, fee, reported>> /\ unreported \subseteq unreported'
        /\ collected'[q] = collected[q] \/ tx.pos = q
    BY <1>13 DEF LateMined, activatePermit, executeSwapViaPermit2, TypeOK
  <2>2. collected'[q] = collected[q]
    BY <1>13, <2>1 DEF LateMined, activatePermit, executeSwapViaPermit2, TypeOK
  <2> QED BY <1>d, <2>1, <2>2
<1>14. ASSUME Crash PROVE Matches(q)'
  <2>1. /\ UNCHANGED <<collected, reported>> /\ unreported \subseteq unreported'
        /\ q \in Positions => at'[q] = "idle" /\ at[q] \notin {"swapped", "persisted"}
    BY <1>14 DEF Crash
  <2> QED BY <1>d, <2>1 DEF Payers
<1>15. ASSUME Tick \/ UNCHANGED vars PROVE Matches(q)'
  BY <1>15, <1>d DEF Tick, vars
<1> QED BY <1>1, <1>2, <1>3, <1>5, <1>6, <1>7, <1>8, <1>9, <1>10, <1>11, <1>12,
           <1>13, <1>14, <1>15, CallReads
        DEF Next, ExecuteStep, CallStep, ReadStep

-----------------------------------------------------------------------------
(* The theorems.                                                            *)

LEMMA InductiveInit == Init => IInv
<1> SUFFICES ASSUME Init PROVE IInv
  OBVIOUS
<1>1. TypeOK
  BY TypeInit
<1>2. \A p \in Positions : at[p] = "idle" /\ holder # p /\ usedBy = [n \in Nonces |-> Nobody]
  BY PermitAssumption DEF Init
<1>3. \A p \in Positions :
        ~rec[p].activated /\ ~copy[p].activated /\ ~(rec[p].permit.nonce < allowance.nonce)
  <2>1. \A p \in Positions : rec[p] = NoRecord /\ copy[p] = NoRecord /\ allowance.nonce = 0
    BY DEF Init
  <2>2. ~NoRecord.activated /\ NoRecord.permit = NoPermit
    BY DEF NoRecord
  <2>3. NoPermit.nonce \in Nat
    BY RecordTypes, PermitAssumption DEF NoPermit
  <2> QED BY <2>1, <2>2, <2>3
<1>4. \A c \in Callers : /\ ~call[c].renews /\ call[c].pos = Nobody
                         /\ ~call[c].record.activated
  <2>1. ~NoCall.renews /\ NoCall.pos = Nobody /\ ~NoCall.record.activated
    BY DEF NoCall, NoRecord
  <2> QED BY <2>1 DEF Init
<1>5. PhaseInv /\ CallInv
  BY <1>2, <1>4 DEF PhaseInv, CallInv, Activating, Swapping
<1>6. NoneInv
  BY <1>2, <1>3, <1>4, PermitAssumption DEF NoneInv, Init
<1>7. UsedInv /\ OrphanInv /\ SpentOnlyIfLost
  BY <1>2, <1>3, <1>4 DEF UsedInv, OrphanInv, SpentOnlyIfLost, Init
<1>8. AllowanceCoversPosition /\ CoverInv
  BY <1>2 DEF AllowanceCoversPosition, CoverInv
<1>9. FeesMatch
  BY <1>2 DEF FeesMatch, Unreported, Init
<1> QED BY <1>1, <1>5, <1>6, <1>7, <1>8, <1>9 DEF IInv

(* The invariant behind the theorems below: where an execution is and what  *)
(* it holds, what an overlapping call is about to write, which nonces are   *)
(* used, and what the allowance and the fees are worth at every place of an *)
(* execution (executeTrigger with the contract, the calls that write        *)
(* without the lock, late transactions and crashes).                        *)
THEOREM Inductive == Spec => []IInv
<1>1. Init => IInv
  BY InductiveInit
<1>2. IInv /\ [Next]_vars => IInv'
  BY TypeStep, PhaseStep, CallInvStep, NoneStep, UsedStep, OrphanStep, SpentStep, CoverStep, FeeStep
     DEF IInv
<1> QED BY <1>1, <1>2, PTL DEF Spec

(* The type invariant, for any positions, permits and bounds; in particular *)
(* an allowance never becomes negative, nor does what remains to be sold.   *)
THEOREM TypeCorrect == Spec => []TypeOK
<1>1. IInv => TypeOK
  BY DEF IInv
<1> QED BY <1>1, Inductive, PTL

(* A record that says "activated" (SaveActivation) names a permit the chain *)
(* has accepted for this position, whoever wrote the record last.           *)
THEOREM ActivatedOnChain == Spec => []FlagMeansActivated
<1>1. IInv => FlagMeansActivated
  BY DEF IInv, UsedInv, Used, FlagMeansActivated
<1> QED BY <1>1, Inductive, PTL

(* A used permit that is not recorded as activated (executeTrigger would    *)
(* retry its activation for ever) has one of the reasons listed, those that *)
(* UpdateLevel, AddLevel, RemoveLevel, CancelPosition and the expiry        *)
(* monitor give by writing over an activation among them.                   *)
THEOREM SpentForAReason == Spec => []SpentOnlyIfLost
<1>1. IInv => SpentOnlyIfLost
  BY DEF IInv
<1> QED BY <1>1, Inductive, PTL

(* The allowance that activatePermit asks for covers every later level.     *)
THEOREM AllowanceSuffices == Spec => []AllowanceCoversPosition
<1>1. IInv => AllowanceCoversPosition
  BY DEF IInv
<1> QED BY <1>1, Inductive, PTL

(* computeMinAmountOut, the contract's fee and the pool agree at the        *)
(* trigger price of a long position, with both roundings of the minimum,    *)
(* that of the fee and that of what the pool pays, for any decimals.        *)
THEOREM TriggerPriceAccepted == Spec => []SellsAtTrigger
<1>1. IInv => SellsAtTrigger
  <2> SUFFICES ASSUME TypeOK, NEW p \in Positions, NEW cfg \in FeeConfigs,
                      cfg.bps <= Slippage, Slippage <= FullBps
               PROVE  RouterPays(Amount(p), cfg.bps, Trigger)
    BY DEF IInv, SellsAtTrigger
  <2>1. cfg.bps \in Nat
    BY FeeTypes
  <2> QED BY <2>1, AmountType, TriggerPriceSuffices
<1> QED BY <1>1, Inductive, PTL

(* computeFeeResult tells the host what _swapAndEmit has collected, unless  *)
(* a report was lost between the persist and OnExecution or with the swap.  *)
THEOREM FeesAgree == Spec => []FeesMatch
<1>1. IInv => FeesMatch
  BY DEF IInv
<1> QED BY <1>1, Inductive, PTL
=============================================================================
