----------------------------- MODULE GuardProofs -----------------------------
(* Proofs about what a call to a chain passes on its way: CircuitBreaker,   *)
(* RateLimiter and NonceManager, which share no state.  First the breaker:  *)
(* when it trips, admits and closes, for any workers and thresholds.        *)
EXTENDS CircuitBreaker, RateLimiter, NonceManager, WellFoundedInduction, TLAPS

LEMMA BreakerStarts == NewCircuitBreaker => BreakerInv
  BY BreakerAssumption DEF NewCircuitBreaker, BreakerInv, BreakerTypeOK, ThresholdInv, States

LEMMA BreakerSteps == BreakerInv /\ [BreakerNext]_breakerVars => BreakerInv'
<1> SUFFICES ASSUME BreakerInv, [BreakerNext]_breakerVars PROVE BreakerInv'
  OBVIOUS
<1> USE BreakerAssumption DEF BreakerInv, BreakerTypeOK, ThresholdInv, States,
                              Rested, Recovers, Forgiven, Trips, AfterTrialFailure,
                              Succeeded, Failed
<1>1. ASSUME NEW w \in Workers, AllowCall(w) PROVE BreakerInv'
  BY <1>1 DEF AllowCall, Admit
<1>2. ASSUME NEW w \in Workers, RecordSuccess(w) PROVE BreakerInv'
  <2>1. BreakerTypeOK'
    BY <1>2 DEF RecordSuccess, Admit
  <2>2. ThresholdInv'
    BY <1>2 DEF RecordSuccess
  <2> QED BY <2>1, <2>2
<1>3. ASSUME NEW w \in Workers, RecordFailure(w) PROVE BreakerInv'
  <2>1. BreakerTypeOK'
    BY <1>3 DEF RecordFailure, Admit
  <2>2. ThresholdInv'
    BY <1>3 DEF RecordFailure
  <2> QED BY <2>1, <2>2
<1>4. ASSUME NEW w \in Workers, Abandon(w) PROVE BreakerInv'
  BY <1>4 DEF Abandon, Admit
<1>5. CASE ClockTicks
  BY <1>5 DEF ClockTicks
<1>6. CASE UNCHANGED breakerVars
  BY <1>6 DEF breakerVars
<1> QED BY <1>1, <1>2, <1>3, <1>4, <1>5, <1>6 DEF BreakerNext

(* The thresholds are kept in every reachable state.                        *)
THEOREM BreakerInductive == BreakerSpec => []BreakerInv
  BY BreakerStarts, BreakerSteps, PTL DEF BreakerSpec

(* A closed breaker opens with the MaxFailures-th failure in a row.         *)
THEOREM BreakerTripsAtThreshold == BreakerSpec => TripsAtThreshold
<1>1. BreakerInv /\ [BreakerNext]_breakerVars =>
        [state = "closed" => (state' # "closed" <=> failedInRow' >= MaxFailures)]_breakerVars
  <2> SUFFICES ASSUME BreakerInv, BreakerNext, state = "closed"
               PROVE  state' # "closed" <=> failedInRow' >= MaxFailures
    OBVIOUS
  <2>1. ASSUME state' # "closed" PROVE failedInRow' >= MaxFailures
    <3>1. PICK w \in Workers : RecordFailure(w)
      BY <2>1 DEF BreakerNext, AllowCall, RecordSuccess, Abandon, ClockTicks
    <3> QED
      BY <2>1, <3>1, BreakerAssumption DEF RecordFailure, Failed, Trips, BreakerInv,
                                           BreakerTypeOK, ThresholdInv
  <2>2. ASSUME state' = "closed" PROVE ~(failedInRow' >= MaxFailures)
    <3>1. BreakerInv'
      BY BreakerSteps
    <3> QED BY <2>2, <3>1, BreakerAssumption DEF BreakerInv, BreakerTypeOK, ThresholdInv
  <2> QED BY <2>1, <2>2
<1> QED BY <1>1, BreakerInductive, PTL DEF BreakerSpec, TripsAtThreshold

(* No trial within ResetTimeout of the latest failure.                      *)
THEOREM BreakerQuietBeforeTrial == BreakerSpec => QuietBeforeTrial
<1> DEFINE Quiet == \A w \in Workers :
             (calling[w] = "idle" /\ calling'[w] # "idle" /\ state # "closed")
                => now - failedAt >= ResetTimeout
<1>1. BreakerInv /\ [BreakerNext]_breakerVars => [Quiet]_breakerVars
  <2> SUFFICES ASSUME BreakerInv, BreakerNext, NEW w \in Workers,
                      calling[w] = "idle", calling'[w] # "idle", state # "closed"
               PROVE  now - failedAt >= ResetTimeout
    OBVIOUS
  <2>1. PICK v \in Workers : AllowCall(v)
    BY DEF BreakerNext, RecordSuccess, RecordFailure, Abandon, ClockTicks, Admit, BreakerInv,
           BreakerTypeOK
  <2> QED
    BY <2>1, BreakerAssumption DEF AllowCall, Rested, BreakerInv, BreakerTypeOK, ThresholdInv,
                                   States
<1> QED BY <1>1, BreakerInductive, PTL DEF BreakerSpec, QuietBeforeTrial

(* The breaker closes only after HalfOpenMaxAttempts successes with no      *)
(* failure recorded between them, and ResetTimeout after the latest failure.*)
THEOREM BreakerClosesAfterQuiet == BreakerSpec => ClosesAfterQuiet
<1>1. BreakerInv /\ [BreakerNext]_breakerVars =>
        [state # "closed" /\ state' = "closed" =>
           goodInRow' = HalfOpenMaxAttempts /\ now - failedAt >= ResetTimeout]_breakerVars
  <2> SUFFICES ASSUME BreakerInv, BreakerNext, state # "closed", state' = "closed"
               PROVE  goodInRow' = HalfOpenMaxAttempts /\ now - failedAt >= ResetTimeout
    OBVIOUS
  <2> USE BreakerAssumption DEF BreakerInv, BreakerTypeOK, ThresholdInv
  <2>1. PICK w \in Workers : RecordSuccess(w)
    BY DEF BreakerNext, AllowCall, RecordFailure, AfterTrialFailure, Abandon, ClockTicks
  <2>2. state = "halfOpen" /\ successes + 1 >= HalfOpenMaxAttempts
    BY <2>1 DEF RecordSuccess, Recovers
  <2>3. goodInRow' = HalfOpenMaxAttempts
    BY <2>1, <2>2 DEF RecordSuccess, Succeeded
  <2> QED BY <2>2, <2>3
<1> QED BY <1>1, BreakerInductive, PTL DEF BreakerSpec, ClosesAfterQuiet

(* The breaker's record keeps its type in every reachable state.            *)
THEOREM BreakerTypes == BreakerSpec => []BreakerTypeOK
<1>1. BreakerInv => BreakerTypeOK
  BY DEF BreakerInv
<1> QED BY <1>1, BreakerInductive, PTL

-----------------------------------------------------------------------------
(* The rate limiter, for any callers, rate and burst.                       *)

LEMMA BurstIsPositive == maxBurst \in Nat \ {0} /\ maxBurst >= Unit
  <1>1. Burst \in Nat /\ Unit \in Nat /\ Burst >= 1 /\ Unit >= 1
    BY LimiterAssumption
  <1>2. (Burst - 1) * Unit >= 0
    BY <1>1, Z3
  <1>3. (Burst - 1) * Unit = Burst * Unit - Unit
    BY <1>1, Z3
  <1> QED  BY <1>1, <1>2, <1>3, Z3 DEF maxBurst

(* Looking at the bucket yields between what it held and the burst.         *)
LEMMA RefilledBounds ==
    ASSUME LimiterTypeOK
    PROVE  /\ Refilled \in 0..maxBurst
           /\ elapsed = maxBurst => Refilled = maxBurst
  <1>1. Rate \in Nat /\ Rate >= 1 /\ maxBurst \in Nat /\ maxBurst >= 1
    BY LimiterAssumption, BurstIsPositive
  <1>2. tokens \in 0..maxBurst /\ elapsed \in Nat
    BY <1>1 DEF LimiterTypeOK
  <1>3. elapsed * Rate \in Nat /\ elapsed * Rate >= elapsed
    BY <1>1, <1>2, Z3
  <1> HIDE DEF maxBurst
  <1> QED  BY <1>1, <1>2, <1>3 DEF Refilled, Capped

LEMMA LimiterStarts == NewRateLimiter => LimiterInv
  <1> SUFFICES ASSUME NewRateLimiter PROVE LimiterInv
    OBVIOUS
  <1>1. maxBurst \in Nat /\ Unit \in Nat /\ Rate \in Nat
    BY LimiterAssumption, BurstIsPositive
  <1>2. 0 * Rate = 0
    BY <1>1
  <1>3. Refilled = maxBurst
    BY <1>1, <1>2 DEF NewRateLimiter, Refilled, Capped
  <1>4. LimiterTypeOK
    BY <1>1 DEF NewRateLimiter, LimiterTypeOK
  <1> QED  BY <1>1, <1>3, <1>4 DEF NewRateLimiter, LimiterInv, MeterInv

(* A token taken moves Unit parts from the bucket to the meter.             *)
LEMMA TakeOK ==
    ASSUME LimiterInv, TakeToken
    PROVE  /\ tokens' \in 0..maxBurst /\ elapsed' \in 0..maxBurst /\ meter' \in Nat
           /\ MeterInv'
  <1>1. /\ maxBurst \in Nat /\ Unit \in Nat /\ Rate \in Nat
        /\ Refilled \in 0..maxBurst /\ meter \in Nat
    BY LimiterAssumption, BurstIsPositive, RefilledBounds DEF LimiterInv, LimiterTypeOK
  <1>2. elapsed' = 0 /\ meter' = meter + Unit /\ tokens' = Refilled - Unit /\ Refilled >= Unit
    BY DEF TakeToken, Available
  <1>3. elapsed' * Rate = 0
    BY <1>1, <1>2
  <1>4. tokens' \in 0..maxBurst
    BY <1>1, <1>2
  <1>5. Refilled' = tokens'
    BY <1>1, <1>3, <1>4 DEF Refilled, Capped, maxBurst
  <1>6. meter + Refilled <= maxBurst
    BY DEF LimiterInv, MeterInv
  <1>7. meter' + Refilled' <= maxBurst
    BY <1>1, <1>2, <1>5, <1>6
  <1> QED  BY <1>1, <1>2, <1>4, <1>7 DEF MeterInv, maxBurst

(* A look that finds no token leaves the bucket as it is.                   *)
LEMMA LookOK ==
    ASSUME LimiterInv, tokens' = Kept, elapsed' = 0, meter' = meter
    PROVE  /\ tokens' \in 0..maxBurst /\ elapsed' \in 0..maxBurst /\ meter' \in Nat
           /\ MeterInv'
  <1>1. /\ maxBurst \in Nat /\ Rate \in Nat
        /\ Refilled \in 0..maxBurst /\ meter \in Nat
    BY LimiterAssumption, BurstIsPositive, RefilledBounds DEF LimiterInv, LimiterTypeOK
  <1>2. elapsed' * Rate = 0 /\ tokens' = Refilled
    BY <1>1 DEF Kept
  <1>3. Refilled' = tokens'
    BY <1>1, <1>2 DEF Refilled, Capped, maxBurst
  <1> QED  BY <1>1, <1>2, <1>3 DEF LimiterInv, MeterInv, maxBurst

(* In a unit of time no more flows into the bucket than out of the meter.   *)
LEMMA TickOK ==
    ASSUME LimiterInv, Tick
    PROVE  elapsed' \in 0..maxBurst /\ meter' \in Nat /\ MeterInv'
  <1>1. /\ maxBurst \in Nat /\ Rate \in Nat /\ Rate >= 1
        /\ Refilled \in 0..maxBurst /\ meter \in Nat
        /\ tokens \in 0..maxBurst /\ elapsed \in 0..maxBurst
        /\ meter + Refilled <= maxBurst
    BY LimiterAssumption, BurstIsPositive, RefilledBounds DEF LimiterInv, LimiterTypeOK, MeterInv
  <1>2. /\ elapsed' = IF elapsed + 1 > maxBurst THEN maxBurst ELSE elapsed + 1
        /\ meter' = IF meter > Rate THEN meter - Rate ELSE 0
        /\ tokens' = tokens
    BY DEF Tick, Capped
  <1>3. maxBurst' = maxBurst
    BY DEF maxBurst
  <1>4. elapsed' \in 0..maxBurst /\ meter' \in Nat
    BY <1>1, <1>2
  <1>5. Refilled' <= maxBurst /\ Refilled' <= Refilled + Rate
    <2>1. CASE elapsed = maxBurst
      <3>1. Refilled = maxBurst
        BY <2>1, RefilledBounds DEF LimiterInv
      <3>2. elapsed' = elapsed
        BY <1>1, <1>2, <2>1
      <3>3. Refilled' = Refilled
        BY <1>2, <1>3, <3>2 DEF Refilled, Capped
      <3> QED  BY <1>1, <3>1, <3>3
    <2>2. CASE elapsed # maxBurst
      <3>1. elapsed' = elapsed + 1
        BY <1>1, <1>2, <2>2
      <3>2. elapsed * Rate \in Nat /\ (elapsed + 1) * Rate = elapsed * Rate + Rate
        BY <1>1, Z3
      <3>3. Refilled' = Capped(tokens + (elapsed + 1) * Rate, maxBurst)
        BY <1>2, <1>3, <3>1 DEF Refilled, Capped
      <3> HIDE DEF maxBurst
      <3> QED  BY <1>1, <3>2, <3>3 DEF Refilled, Capped
    <2> QED  BY <2>1, <2>2
  <1>6. Refilled' \in Int
    <2>1. elapsed' * Rate \in Int /\ tokens' \in Int
      BY <1>1, <1>2, <1>4, Z3
    <2> QED  BY <1>1, <1>3, <2>1 DEF Refilled, Capped
  <1>7. meter' + Refilled' <= maxBurst
    <2> DEFINE next == Refilled'
    <2>1. next \in Int /\ next <= maxBurst /\ next <= Refilled + Rate
      BY <1>5, <1>6
    <2> HIDE DEF next
    <2>2. meter' + next <= maxBurst
      BY <1>1, <1>2, <2>1
    <2> QED  BY <2>2 DEF next
  <1> QED  BY <1>3, <1>4, <1>7 DEF MeterInv

(* A sleeper waits for at most Unit units of time.                          *)
LEMMA WaitDurBounds ==
    ASSUME LimiterTypeOK, ~Available
    PROVE  waitDur \in 0..Unit
  <1>1. /\ Unit \in Nat /\ Rate \in Nat /\ Rate >= 1
        /\ Refilled \in Nat /\ Refilled < Unit
    BY LimiterAssumption, BurstIsPositive, RefilledBounds DEF Available
  <1>2. Unit - Refilled \in 0..Unit
    BY <1>1
  <1> DEFINE d == Unit - Refilled
  <1>3. d \div Rate \in Nat /\ Rate * (d \div Rate) <= d
    BY <1>1, <1>2, Z3
  <1>4. Rate * (d \div Rate) >= d \div Rate
    BY <1>1, <1>3, Z3
  <1>5. d \div Rate <= Unit
    BY <1>1, <1>2, <1>3, <1>4
  <1> QED  BY <1>3, <1>5 DEF waitDur

LEMMA LimiterSteps == LimiterInv /\ [LimiterNext]_limiterVars => LimiterInv'
  <1> SUFFICES ASSUME LimiterInv, [LimiterNext]_limiterVars PROVE LimiterInv'
    OBVIOUS
  <1>0. /\ LimiterTypeOK /\ MeterInv
        /\ maxBurst \in Nat /\ Unit \in Nat /\ Rate \in Nat
        /\ at \in [Callers -> {"idle", "enter", "sleep", "calling"}]
        /\ timer \in [Callers -> 0..Unit]
        /\ tokens \in 0..maxBurst /\ elapsed \in 0..maxBurst /\ meter \in Nat
    BY LimiterAssumption, BurstIsPositive DEF LimiterInv, LimiterTypeOK
  <1>1. ASSUME UNCHANGED <<tokens, elapsed, meter>>,
               at' \in [Callers -> {"idle", "enter", "sleep", "calling"}],
               timer' \in [Callers -> 0..Unit]
        PROVE  LimiterInv'
    <2>1. MeterInv'
      BY <1>0, <1>1 DEF MeterInv, Refilled, Capped, maxBurst
    <2>2. LimiterTypeOK'
      BY <1>0, <1>1 DEF LimiterTypeOK, maxBurst
    <2> QED  BY <2>1, <2>2 DEF LimiterInv
  <1>2. ASSUME TakeToken \/ (tokens' = Kept /\ elapsed' = 0 /\ meter' = meter),
               at' \in [Callers -> {"idle", "enter", "sleep", "calling"}],
               timer' \in [Callers -> 0..Unit]
        PROVE  LimiterInv'
    <2>1. /\ tokens' \in 0..maxBurst /\ elapsed' \in 0..maxBurst /\ meter' \in Nat
          /\ MeterInv'
      BY <1>2, TakeOK, LookOK
    <2>2. LimiterTypeOK'
      BY <1>2, <2>1 DEF LimiterTypeOK, maxBurst
    <2> QED  BY <2>1, <2>2 DEF LimiterInv
  <1>3. ASSUME NEW c \in Callers, Call(c)  PROVE LimiterInv'
    BY <1>0, <1>1, <1>3 DEF Call, GoTo
  <1>4. ASSUME NEW c \in Callers, Grant(c)  PROVE LimiterInv'
    BY <1>0, <1>2, <1>4 DEF Grant, GoTo
  <1>5. ASSUME NEW c \in Callers, Sleep(c)  PROVE LimiterInv'
    <2>1. waitDur \in 0..Unit
      BY <1>0, <1>5, WaitDurBounds DEF Sleep
    <2>2. timer' \in [Callers -> 0..Unit] /\ at' \in [Callers -> {"idle", "enter", "sleep", "calling"}]
      BY <1>0, <1>5, <2>1 DEF Sleep, GoTo
    <2>3. tokens' = Kept /\ elapsed' = 0 /\ meter' = meter
      BY <1>5 DEF Sleep
    <2> QED  BY <1>2, <2>2, <2>3
  <1>6. ASSUME NEW c \in Callers, Wake(c)  PROVE LimiterInv'
    BY <1>0, <1>1, <1>6 DEF Wake, GoTo
  <1>7. ASSUME NEW c \in Callers, Cancel(c)  PROVE LimiterInv'
    <2>1. 0 \in 0..Unit
      BY <1>0
    <2> QED  BY <1>0, <1>1, <1>7, <2>1 DEF Cancel, GoTo
  <1>8. ASSUME NEW c \in Callers, Return(c)  PROVE LimiterInv'
    BY <1>0, <1>1, <1>8 DEF Return, GoTo
  <1>9. ASSUME Allow  PROVE LimiterInv'
    BY <1>0, <1>2, <1>9 DEF Allow
  <1>10. ASSUME Tick  PROVE LimiterInv'
    <2>1. elapsed' \in 0..maxBurst /\ meter' \in Nat /\ MeterInv'
      BY <1>10, TickOK
    <2>2. timer' \in [Callers -> 0..Unit]
      BY <1>0, <1>10 DEF Tick
    <2>3. LimiterTypeOK'
      BY <1>0, <1>10, <2>1, <2>2 DEF Tick, LimiterTypeOK, maxBurst
    <2> QED  BY <2>1, <2>3 DEF LimiterInv
  <1>11. CASE UNCHANGED limiterVars
    BY <1>0, <1>1, <1>11 DEF limiterVars
  <1> QED
    BY <1>3, <1>4, <1>5, <1>6, <1>7, <1>8, <1>9, <1>10, <1>11 DEF LimiterNext, WaitStep

(* The bucket never holds more than the burst nor less than nothing, and no *)
(* time.After lasts longer than it takes a token to come.                   *)
THEOREM LimiterTypes == LimiterSpec => []LimiterTypeOK
  <1>1. LimiterInv => LimiterTypeOK
    BY DEF LimiterInv
  <1> QED  BY <1>1, LimiterStarts, LimiterSteps, PTL DEF LimiterSpec

(* However the callers' looks at the bucket fall, in every period they take *)
(* at most the burst and what the rate allows.                              *)
THEOREM NeverAboveRate == LimiterSpec => []WithinRate
  <1>1. LimiterInv => WithinRate
    <2> SUFFICES ASSUME LimiterInv PROVE WithinRate
      OBVIOUS
    <2>1. Refilled \in 0..maxBurst /\ meter \in Nat /\ maxBurst \in Nat
      BY RefilledBounds, BurstIsPositive DEF LimiterInv, LimiterTypeOK
    <2> QED  BY <2>1 DEF LimiterInv, MeterInv, WithinRate
  <1> QED  BY <1>1, LimiterStarts, LimiterSteps, PTL DEF LimiterSpec

-----------------------------------------------------------------------------
(* The nonce counter: sound until two senders race over a rollback or a     *)
(* resync, for any number of senders.                                       *)

LEMMA LeastNat ==
  ASSUME NEW T \in SUBSET Nat, T # {}
  PROVE  \E x \in T : \A y \in T : x <= y
<1> DEFINE R == OpToRel(<, Nat)
<1>1. \A x, y \in Nat : x < y => <<x, y>> \in R
  BY DEF OpToRel
<1>2. IsWellFoundedOn(R, Nat)
  BY NatLessThanWellFounded
<1> HIDE DEF R
<1>3. PICK x \in T : \A y \in T : ~(<<y, x>> \in R)
  BY <1>2, WFMin
<1>4. \A y \in T : ~(y < x)
  BY <1>1, <1>3
<1>5. \A y \in T : x <= y
  BY <1>4
<1> QED BY <1>5

(* The node always has a nonce to name, and it is free.                     *)
LEMMA PendingIsFree ==
  ASSUME TypeOK
  PROVE  /\ PendingNonce \in mined..MaxNonce
         /\ PendingNonce \notin pool
         /\ \A m \in mined..(PendingNonce - 1) : m \in pool
<1> DEFINE free == (mined..MaxNonce) \ pool
<1>1. mined \in Nat /\ MaxNonce \in Nat /\ mined <= MaxNonce /\ MaxNonce \notin pool
  BY NonceAssumption DEF TypeOK, Nonces
<1>2. free \in SUBSET Nat /\ MaxNonce \in free
  BY <1>1
<1>3. PICK x \in free : \A y \in free : x <= y
  BY <1>2, LeastNat
<1>4. \A m \in mined..(x - 1) : m \in pool
  BY <1>1, <1>2, <1>3
<1>5. x \in mined..MaxNonce /\ x \notin pool
  BY <1>3
<1> HIDE DEF free
<1> QED BY <1>4, <1>5 DEF PendingNonce

(* Over a pool without gaps it is the nonce after the last.                 *)
LEMMA PendingOfContiguous ==
  ASSUME TypeOK, NEW n \in mined..MaxNonce, pool = mined..(n - 1)
  PROVE  PendingNonce = n
<1>1. mined \in Nat /\ n \in Nat /\ MaxNonce \in Nat /\ PendingNonce \in Nat
  BY NonceAssumption, PendingIsFree DEF TypeOK, Nonces
<1>2. CASE PendingNonce < n
  BY <1>1, <1>2, PendingIsFree
<1>3. CASE PendingNonce > n
  <2>1. n \in pool
    BY <1>1, <1>3, PendingIsFree
  <2> QED BY <1>1, <2>1
<1> QED BY <1>1, <1>2, <1>3

LEMMA NonceTypeNext == TypeOK /\ [Next]_vars => TypeOK'
<1> SUFFICES ASSUME TypeOK, [Next]_vars PROVE TypeOK'
  OBVIOUS
<1> USE NonceAssumption DEF TypeOK, Nonces, Place, Goto, NowIs
<1>1. ASSUME NEW s \in Senders, acquireNonce(s) PROVE TypeOK'
  BY <1>1, PendingIsFree DEF acquireNonce, Take
<1>2. ASSUME NEW s \in Senders, SendTransaction(s) PROVE TypeOK'
  <2>1. CASE SendAccepted(s)
    BY <2>1 DEF SendAccepted
  <2>2. CASE SendReplaces(s)
    BY <2>2 DEF SendReplaces
  <2>3. CASE SendRefused(s)
    BY <2>3 DEF SendRefused, rollbackNonce
  <2>4. CASE SendTooLow(s)
    BY <2>4 DEF SendTooLow, rollbackNonce
  <2>5. CASE SendLost(s)
    BY <2>5 DEF SendLost
  <2> QED BY <1>2, <2>1, <2>2, <2>3, <2>4, <2>5 DEF SendTransaction
<1>3. ASSUME NEW s \in Senders, resyncNonce(s) PROVE TypeOK'
  BY <1>3, PendingIsFree DEF resyncNonce
<1>4. ASSUME NEW s \in Senders, AcquireFails(s) \/ GiveUp(s) \/ Receipt(s) PROVE TypeOK'
  BY <1>4 DEF AcquireFails, GiveUp, Receipt
<1>5. CASE Mine
  BY <1>5 DEF Mine
<1>6. CASE Restart
  <2>1. nonceInit' \in BOOLEAN /\ raced' \in BOOLEAN
    BY <1>6, Zenon DEF Restart
  <2> QED BY <1>6, <2>1 DEF Restart
<1>7. CASE UNCHANGED vars
  BY <1>7 DEF vars
<1> QED BY <1>1, <1>2, <1>3, <1>4, <1>5, <1>6, <1>7 DEF Next

-----------------------------------------------------------------------------
(* As long as nothing raced.                                                *)

LEMMA NonceInit == Init => NonceInv
<1> SUFFICES ASSUME Init PROVE NonceInv
  OBVIOUS
<1>1. TypeOK
  <2>1. nonceInit \in BOOLEAN /\ raced \in BOOLEAN
    BY Zenon DEF Init
  <2> QED BY <2>1, NonceAssumption DEF Init, TypeOK, Nonces, Place
<1>2. NoGap /\ NoReuse
  BY DEF Init, NoGap, NoReuse
<1>3. Contiguous
  BY NonceAssumption DEF Init, Contiguous
<1> QED BY <1>1, <1>2, <1>3 DEF NonceInv, Ahead, Init

(* acquireNonce hands out the counter or, the first time, the chain's       *)
(* pending nonce, which is past everything the node holds.                  *)
LEMMA AcquireInv ==
  ASSUME NonceInv, TypeOK', ~raced, NEW s \in Senders, acquireNonce(s)
  PROVE  NoGap' /\ NoReuse' /\ Ahead'
<1> DEFINE n == IF nonceInit THEN nextNonce ELSE PendingNonce
<1>1. /\ pc[s] = "idle"
      /\ held' = [held EXCEPT ![s] = n]
      /\ nextNonce' = n + 1
      /\ pc' = [pc EXCEPT ![s] = "send"]
      /\ nonceInit' = TRUE /\ UNCHANGED <<mined, pool>>
  BY DEF acquireNonce, NowIs, Take, Goto
<1>2. /\ n \in Nat /\ mined \in Nat /\ mined <= n
      /\ \A m \in pool : m \in Nat /\ mined <= m /\ m < n
      /\ \A t \in Senders : pc[t] = "send" => held[t] < n
      /\ \A m \in mined..(n - 1) : m \in pool \/ \E t \in Senders : Holds(t, m)
  <2>1. CASE nonceInit
    BY <2>1 DEF NonceInv, TypeOK, Nonces, NoGap, Ahead
  <2>2. CASE ~nonceInit
    <3>1. PICK k \in mined..MaxNonce : pool = mined..(k - 1)
      BY <2>2 DEF NonceInv, Ahead, Contiguous
    <3>2. n = k /\ mined \in Nat
      BY <2>2, <3>1, PendingOfContiguous DEF NonceInv, TypeOK, Nonces
    <3> QED
      BY <2>2, <3>1, <3>2, NonceAssumption DEF NonceInv, Ahead
  <2> QED BY <2>1, <2>2
<1> HIDE DEF n
<1>3. /\ \A t \in Senders : pc'[t] = IF t = s THEN "send" ELSE pc[t]
      /\ \A t \in Senders : held'[t] = IF t = s THEN n ELSE held[t]
      /\ \A t \in Senders : held[t] \in Nat
  BY <1>1 DEF NonceInv, TypeOK, Nonces
<1>4. NoGap'
  <2> SUFFICES ASSUME NEW m \in mined..n
               PROVE  m \in pool \/ \E t \in Senders : Holds(t, m)'
    BY <1>1, <1>2 DEF NoGap
  <2>1. CASE m = n
    BY <1>3, <2>1 DEF Holds
  <2>2. CASE m # n
    BY <1>1, <1>2, <1>3, <2>2 DEF Holds
  <2> QED BY <2>1, <2>2
<1>5. NoReuse'
  BY <1>1, <1>2, <1>3 DEF NonceInv, NoReuse, Holds
<1>6. Ahead'
  BY <1>1, <1>2, <1>3 DEF Ahead
<1> QED BY <1>4, <1>5, <1>6

(* Every send starts from a nonce that is free at the node.                 *)
LEMMA SendInv ==
  ASSUME NonceInv, TypeOK', ~raced', NEW s \in Senders, SendTransaction(s)
  PROVE  NoGap' /\ NoReuse' /\ Ahead'
<1>1. /\ ~raced /\ pc[s] = "send" /\ nonceInit /\ UNCHANGED <<held, mined, nonceInit>>
  <2>1. pc[s] = "send" /\ UNCHANGED <<held, mined, nonceInit>>
    BY DEF SendTransaction, SendAccepted, SendReplaces, SendRefused, SendTooLow, SendLost,
       NowIs
  <2>2. ~raced
    BY DEF SendTransaction, SendAccepted, SendReplaces, SendRefused, SendTooLow, SendLost,
       rollbackNonce
  <2> QED BY <2>1, <2>2 DEF NonceInv, Ahead
<1>2. NoGap /\ NoReuse /\ Ahead /\ TypeOK
  BY <1>1 DEF NonceInv
<1>3. held[s] \in Nat /\ held[s] >= mined /\ held[s] \notin pool /\ mined \in Nat
  BY <1>1, <1>2 DEF NoReuse, TypeOK, Nonces
<1>4. CASE SendAccepted(s)
  <2>1. /\ \A t \in Senders : pc'[t] = IF t = s THEN "waiting" ELSE pc[t]
        /\ pool' = pool \cup {held[s]} /\ UNCHANGED nextNonce
    BY <1>2, <1>4 DEF SendAccepted, Goto, TypeOK
  <2>2. NoGap'
    BY <1>1, <1>2, <2>1 DEF NoGap, Holds
  <2>3. NoReuse'
    BY <1>1, <1>2, <2>1 DEF NoReuse, Holds
  <2>4. Ahead'
    BY <1>1, <1>2, <1>3, <2>1 DEF Ahead
  <2> QED BY <2>2, <2>3, <2>4
<1>5. CASE SendRefused(s)
  <2>1. /\ \A t \in Senders : pc'[t] = IF t = s THEN "idle" ELSE pc[t]
        /\ nextNonce' = held[s] /\ nextNonce = held[s] + 1 /\ UNCHANGED pool
    BY <1>2, <1>5 DEF SendRefused, rollbackNonce, Goto, TypeOK
  <2>2. NoGap'
    <3> SUFFICES ASSUME NEW m \in mined..(held[s] - 1)
                 PROVE  m \in pool \/ \E t \in Senders : Holds(t, m)'
      BY <1>1, <2>1 DEF NoGap
    <3>1. m \in mined..(nextNonce - 1) /\ m # held[s]
      BY <1>3, <2>1
    <3> QED BY <1>1, <1>2, <2>1, <3>1 DEF NoGap, Holds
  <2>3. NoReuse'
    BY <1>1, <1>2, <2>1 DEF NoReuse, Holds
  <2>4. Ahead'
    <3>1. \A m \in pool : m \in Nat /\ mined <= m /\ m < held[s]
      BY <1>1, <1>2, <1>3, <2>1 DEF Ahead, TypeOK, Nonces
    <3>2. \A t \in Senders \ {s} : pc[t] = "send" => held[t] < held[s]
      BY <1>1, <1>2, <1>3, <2>1 DEF Ahead, NoReuse, Holds, TypeOK, Nonces
    <3> QED BY <1>1, <1>3, <2>1, <3>1, <3>2 DEF Ahead
  <2> QED BY <2>2, <2>3, <2>4
<1>6. ~SendReplaces(s) /\ ~SendTooLow(s) /\ ~SendLost(s)
  BY <1>3 DEF SendReplaces, SendTooLow, SendLost
<1> QED BY <1>4, <1>5, <1>6 DEF SendTransaction

(* A resync that nobody races with finds the counter where it is, or the    *)
(* chain's nonce when there is no counter yet.                              *)
LEMMA ResyncInv ==
  ASSUME NonceInv, TypeOK', ~raced', NEW s \in Senders, resyncNonce(s)
  PROVE  NoGap' /\ NoReuse' /\ Ahead'
<1>1. /\ nextNonce' = PendingNonce /\ nonceInit' /\ UNCHANGED <<held, mined, pool>>
      /\ \A t \in Senders : pc[t] # "send"
      /\ ~raced
      /\ \A t \in Senders : pc'[t] = IF t = s THEN "idle" ELSE pc[t]
  BY DEF resyncNonce, Goto, NonceInv, TypeOK
<1>2. NoGap' /\ NoReuse'
  BY <1>1, PendingIsFree DEF NoGap, NoReuse, NonceInv
<1>3. PICK k \in mined..MaxNonce : pool = mined..(k - 1)
  <2>1. CASE ~nonceInit
    BY <1>1, <2>1 DEF NonceInv, Ahead, Contiguous
  <2>2. CASE nonceInit
    <3>1. /\ mined \in Nat /\ nextNonce \in mined..MaxNonce
          /\ \A m \in pool : m \in Nat /\ mined <= m /\ m < nextNonce
          /\ \A m \in mined..(nextNonce - 1) : m \in pool
      BY <1>1, <2>2, NonceAssumption DEF NonceInv, Ahead, NoGap, Holds, TypeOK, Nonces
    <3>2. pool = mined..(nextNonce - 1)
      <4>1. \A m : m \in pool <=> m \in mined..(nextNonce - 1)
        BY <3>1
      <4> QED BY <4>1
    <3> QED BY <3>1, <3>2
  <2> QED BY <2>1, <2>2
<1>4. PendingNonce = k /\ mined \in Nat
  BY <1>3, PendingOfContiguous DEF NonceInv, TypeOK, Nonces
<1>5. Ahead'
  BY <1>1, <1>3, <1>4, NonceAssumption DEF Ahead
<1> QED BY <1>2, <1>5

LEMMA NonceNext == NonceInv /\ [Next]_vars => NonceInv'
<1> SUFFICES ASSUME NonceInv, [Next]_vars, ~raced' PROVE NoGap' /\ NoReuse' /\ Ahead'
  BY NonceTypeNext DEF NonceInv
<1>1. TypeOK'
  BY NonceTypeNext DEF NonceInv
<1>2. ~raced
  BY DEF Next, vars, acquireNonce, AcquireFails, SendTransaction, SendAccepted, SendReplaces,
     SendRefused, SendTooLow, SendLost, rollbackNonce, resyncNonce, GiveUp, Receipt, Mine,
     Restart
<1>3. NoGap /\ NoReuse /\ Ahead /\ TypeOK
  BY <1>2 DEF NonceInv
<1>4. ASSUME NEW s \in Senders, AcquireFails(s) \/ GiveUp(s) \/ Receipt(s)
      PROVE  NoGap' /\ NoReuse' /\ Ahead'
  <2>1. /\ UNCHANGED <<nextNonce, nonceInit, held, mined, pool>>
        /\ \A t \in Senders : pc'[t] = "send" <=> pc[t] = "send"
    BY <1>3, <1>4 DEF AcquireFails, GiveUp, Receipt, Goto, NowIs, TypeOK
  <2> QED BY <1>3, <2>1 DEF NoGap, NoReuse, Ahead, Holds, Contiguous
<1>5. CASE Mine
  <2>1. /\ UNCHANGED <<nextNonce, nonceInit, pc, held>>
        /\ mined \in pool /\ pool' = pool \ {mined} /\ mined' = mined + 1 /\ mined \in Nat
    BY <1>3, <1>5 DEF Mine, TypeOK, Nonces
  <2>2. NoGap'
    BY <1>3, <2>1 DEF NoGap, Holds, TypeOK, Nonces
  <2>3. NoReuse'
    <3> SUFFICES ASSUME NEW s \in Senders, pc[s] = "send"
                 PROVE  /\ held[s] >= mined + 1 /\ held[s] \notin pool
                        /\ \A t \in Senders \ {s} : ~Holds(t, held[s])
      BY <2>1 DEF NoReuse, Holds
    <3>1. held[s] # mined /\ held[s] \in Nat /\ held[s] >= mined /\ held[s] \notin pool
      BY <1>3, <2>1 DEF NoReuse, TypeOK, Nonces
    <3> QED BY <1>3, <2>1, <3>1 DEF NoReuse
  <2>4. Ahead'
    <3>1. CASE nonceInit
      BY <1>3, <2>1, <3>1 DEF Ahead, TypeOK, Nonces
    <3>2. CASE ~nonceInit
      <4>1. PICK k \in mined..MaxNonce : pool = mined..(k - 1)
        BY <1>3, <3>2 DEF Ahead, Contiguous
      <4>2. k \in (mined + 1)..MaxNonce /\ pool' = (mined + 1)..(k - 1)
        BY <2>1, <4>1, NonceAssumption
      <4> QED BY <1>3, <2>1, <3>2, <4>2 DEF Ahead, Contiguous
    <3> QED BY <3>1, <3>2
  <2> QED BY <2>2, <2>3, <2>4
<1>6. CASE Restart
  <2>1. /\ ~nonceInit' /\ nextNonce' = 0 /\ Contiguous
        /\ \A t \in Senders : pc'[t] = "idle"
        /\ UNCHANGED <<held, mined, pool>>
    BY <1>6 DEF Restart
  <2>2. NoGap'
    BY <1>3, <2>1 DEF NoGap, TypeOK, Nonces
  <2> QED BY <2>1, <2>2 DEF NoReuse, Ahead, Contiguous
<1>7. CASE UNCHANGED vars
  BY <1>3, <1>7 DEF vars, NoGap, NoReuse, Ahead, Holds, Contiguous
<1> QED
  BY <1>1, <1>2, <1>4, <1>5, <1>6, <1>7, AcquireInv, SendInv, ResyncInv DEF Next

(* Until two senders race over a rollback or a resync, no nonce is skipped  *)
(* and none is used twice, for any number of senders and of failures.       *)
THEOREM NonceSound == Spec => []SoundUnlessRaced
<1>1. NonceInv => SoundUnlessRaced
  BY DEF NonceInv, SoundUnlessRaced
<1> QED BY <1>1, NonceInit, NonceNext, PTL DEF Spec

(* The nonces, the mempool and the senders keep their types.                *)
THEOREM NonceTypes == Spec => []TypeOK
<1>1. NonceInv => TypeOK
  BY DEF NonceInv
<1> QED BY <1>1, NonceInit, NonceNext, PTL DEF Spec
=============================================================================
