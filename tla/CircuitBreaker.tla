--------------------------- MODULE CircuitBreaker ---------------------------
(****************************************************************************)
(* The circuit breaker of circuitbreaker.go, used the way executeTrigger    *)
(* uses it: a worker asks Allow, makes its call outside the breaker's mu,   *)
(* and records the outcome any time later, when other workers may have      *)
(* opened, half opened or closed the breaker in between.                    *)
(****************************************************************************)
EXTENDS Integers, FiniteSets

CONSTANTS
    Workers,              \* goroutines that share the breaker of one chain
    MaxFailures,          \* CircuitBreakerConfig, with its defaults applied
    ResetTimeout,
    HalfOpenMaxAttempts,
    MaxTime,              \* bound: the clock
    MaxRun                \* bound: failures in a row that are told apart

ASSUME BreakerAssumption ==
    /\ MaxFailures \in Nat \ {0}
    /\ ResetTimeout \in Nat \ {0}
    /\ HalfOpenMaxAttempts \in Nat \ {0}
    /\ MaxTime \in Nat
    /\ MaxRun \in Nat

VARIABLES
    state, failures, successes, lastFailureTime,
    now,         \* the clock
    calling,     \* worker -> the state its call was admitted in, "idle" without one
    failedInRow, \* history: failures recorded since the latest success, by any call
    goodInRow,   \* history: successes recorded since the latest failure, by any call,
                 \* in any state, counted up to HalfOpenMaxAttempts
    failedAt     \* history: when the latest failure was recorded

breakerVars ==
    <<state, failures, successes, lastFailureTime, now, calling, failedInRow, goodInRow, failedAt>>

States == {"closed", "open", "halfOpen"}

BreakerTypeOK ==
    /\ state \in States
    /\ failures \in Nat /\ successes \in Nat
    /\ lastFailureTime \in Nat /\ now \in Nat
    /\ calling \in [Workers -> States \cup {"idle"}]
    /\ failedInRow \in Nat /\ goodInRow \in 0..HalfOpenMaxAttempts /\ failedAt \in Nat

NewCircuitBreaker ==
    /\ state = "closed"
    /\ failures = 0 /\ successes = 0
    /\ lastFailureTime = 0 /\ now = 0
    /\ calling = [w \in Workers |-> "idle"]
    /\ failedInRow = 0 /\ goodInRow = 0 /\ failedAt = 0

-----------------------------------------------------------------------------
(* The breaker's methods, each one critical section of its mu.              *)

Admit(w, st) == calling' = [calling EXCEPT ![w] = st]

(* Allow: the breaker has been open for ResetTimeout.  The mutant counts    *)
(* one unit of time too many.                                               *)
RestedEarly == now - lastFailureTime + 1 >= ResetTimeout
Rested == now - lastFailureTime >= ResetTimeout

(* RecordSuccess: n trial calls have succeeded.  The mutant closes one      *)
(* success early.                                                           *)
RecoversEarly(n) == n + 1 >= HalfOpenMaxAttempts
Recovers(n) == n >= HalfOpenMaxAttempts

(* RecordSuccess: what a success leaves of n failures of the closed state.  *)
(* The mutant leaves them all.                                              *)
StillFailed(n) == n
Forgiven(n) == 0

(* RecordFailure: the n-th failure opens the breaker.                       *)
Trips(n) == n >= MaxFailures

(* RecordFailure: the state after a failure while half open.  The mutant    *)
(* goes on with the trial.                                                  *)
GoesOnTrying == "halfOpen"
AfterTrialFailure == "open"

(* The histories of the outcomes.                                           *)
Succeeded ==
    /\ failedInRow' = 0
    /\ goodInRow' = IF goodInRow < HalfOpenMaxAttempts THEN goodInRow + 1 ELSE goodInRow
    /\ UNCHANGED failedAt
Failed ==
    /\ failedInRow' = failedInRow + 1
    /\ goodInRow' = 0
    /\ failedAt' = now

(* Allow returns nil.                                                       *)
AllowCall(w) ==
    /\ calling[w] = "idle"
    /\ \/ /\ state \in {"closed", "halfOpen"}
          /\ Admit(w, state)
          /\ UNCHANGED <<state, successes>>
       \/ /\ state = "open" /\ Rested
          /\ state' = "halfOpen"
          /\ successes' = 0
          /\ Admit(w, "halfOpen")
    /\ UNCHANGED <<failures, lastFailureTime, now, failedInRow, goodInRow, failedAt>>

RecordSuccess(w) ==
    /\ calling[w] # "idle"
    /\ \/ /\ state = "halfOpen"
          /\ successes' = successes + 1
          /\ IF Recovers(successes')
             THEN state' = "closed" /\ failures' = 0
             ELSE UNCHANGED <<state, failures>>
       \/ /\ state = "closed"
          /\ failures' = Forgiven(failures)
          /\ UNCHANGED <<state, successes>>
       \/ state = "open" /\ UNCHANGED <<state, failures, successes>>
    /\ Admit(w, "idle")
    /\ Succeeded
    /\ UNCHANGED <<lastFailureTime, now>>

RecordFailure(w) ==
    /\ calling[w] # "idle"
    /\ failedInRow < MaxRun
    /\ failures' = failures + 1
    /\ lastFailureTime' = now
    /\ \/ /\ state = "closed"
          /\ state' = IF Trips(failures') THEN "open" ELSE "closed"
          /\ UNCHANGED successes
       \/ state = "halfOpen" /\ state' = AfterTrialFailure /\ successes' = 0
       \/ state = "open" /\ UNCHANGED <<state, successes>>
    /\ Admit(w, "idle")
    /\ Failed
    /\ UNCHANGED now

(* executeTrigger returns between Allow and its call (an expired permit, a  *)
(* failed activation): it records nothing.                                  *)
Abandon(w) ==
    /\ calling[w] # "idle"
    /\ Admit(w, "idle")
    /\ UNCHANGED <<state, failures, successes, lastFailureTime, now, failedInRow, goodInRow,
                   failedAt>>

ClockTicks ==
    /\ now < MaxTime
    /\ now' = now + 1
    /\ UNCHANGED <<state, failures, successes, lastFailureTime, calling, failedInRow,
                   goodInRow, failedAt>>

BreakerNext ==
    \/ \E w \in Workers :
         AllowCall(w) \/ RecordSuccess(w) \/ RecordFailure(w) \/ Abandon(w)
    \/ ClockTicks

BreakerSpec == NewCircuitBreaker /\ [][BreakerNext]_breakerVars

-----------------------------------------------------------------------------
(* A closed breaker opens with the MaxFailures-th failure in a row, neither *)
(* later nor earlier, whatever outcomes of old calls it was given while it  *)
(* was open or half open before.                                            *)
TripsAtThreshold ==
    [][state = "closed" => (state' # "closed" <=> failedInRow' >= MaxFailures)]_breakerVars

(* No call is admitted to a breaker that is not closed within ResetTimeout  *)
(* of the latest failure, also one that was recorded after it opened by a   *)
(* call admitted long before.                                               *)
QuietBeforeTrial ==
    [][\A w \in Workers :
         (calling[w] = "idle" /\ calling'[w] # "idle" /\ state # "closed")
            => now - failedAt >= ResetTimeout]_breakerVars

(* The breaker closes only after a quiet time: when it does, the latest     *)
(* HalfOpenMaxAttempts outcomes that any worker recorded, in whatever state *)
(* the breaker was, are successes, and the latest failure is ResetTimeout   *)
(* old.  A failure in the middle of a trial, of a trial call or of a call   *)
(* admitted long before, starts both over.  The successes need not be those *)
(* of trial calls: a late success of an old call counts, and half open      *)
(* admits every call that asks.                                             *)
ClosesAfterQuiet ==
    [][state # "closed" /\ state' = "closed" =>
         goodInRow' = HalfOpenMaxAttempts /\ now - failedAt >= ResetTimeout]_breakerVars

(* circuitbreaker.go:39 calls HalfOpenMaxAttempts "the number of trial      *)
(* calls allowed in HalfOpen state".  Allow counts none.                    *)
TrialCallsAreLimited ==
    Cardinality({w \in Workers : calling[w] = "halfOpen"}) <= HalfOpenMaxAttempts

-----------------------------------------------------------------------------
(* The inductive invariant behind the properties above.                     *)
ThresholdInv ==
    /\ lastFailureTime = failedAt /\ failedAt <= now
    /\ state = "closed" => failures = failedInRow /\ failures < MaxFailures
    /\ state = "halfOpen" =>
         /\ now - failedAt >= ResetTimeout
         /\ successes <= goodInRow /\ successes < HalfOpenMaxAttempts

BreakerInv == BreakerTypeOK /\ ThresholdInv
=============================================================================
