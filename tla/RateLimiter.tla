---------------------------- MODULE RateLimiter ----------------------------
(****************************************************************************)
(* The token bucket of ratelimiter.go that several goroutines share: before *)
(* every call of the chain RateLimitedClient waits in Wait until it has     *)
(* taken a token.  The bucket is filled lazily, by whoever looks at it.     *)
(*                                                                          *)
(* Time is discrete and relative: elapsed since lastTime, and what is left  *)
(* of each time.After.  A token is Unit parts, so that Rate / Unit is the   *)
(* rate; the rounding of float64 is left out.                               *)
(****************************************************************************)
EXTENDS Integers

CONSTANTS
    Callers,  \* goroutines with a call to make
    Unit,     \* parts of a token
    Rate,     \* parts per unit of time
    Burst     \* maxBurst, in tokens

(* NewRPCRateLimiter accepts any numbers: with a burst of 0 nobody ever     *)
(* gets a token, and a rate of 0 makes an infinite waitDur.                 *)
ASSUME LimiterAssumption ==
    Unit \in Nat \ {0} /\ Rate \in Nat \ {0} /\ Burst \in Nat \ {0}

maxBurst == Burst * Unit

VARIABLES
    tokens,   \* parts in the bucket, as of lastTime
    elapsed,  \* time since lastTime, as long as it matters
    at,       \* per caller: "idle", "enter", "sleep", "calling"
    timer,    \* per caller: time left of its time.After
    meter     \* history: raised by Unit for each token taken, and falling by
              \* Rate in each unit of time to no less than zero

limiterVars == <<tokens, elapsed, at, timer, meter>>

LimiterTypeOK ==
    /\ tokens \in 0..maxBurst
    /\ elapsed \in 0..maxBurst
    /\ at \in [Callers -> {"idle", "enter", "sleep", "calling"}]
    /\ timer \in [Callers -> 0..Unit]
    /\ meter \in Nat

NewRateLimiter ==
    /\ tokens = maxBurst
    /\ elapsed = 0
    /\ at = [c \in Callers |-> "idle"]
    /\ timer = [c \in Callers |-> 0]
    /\ meter = 0

-----------------------------------------------------------------------------
Capped(n, max) == IF n > max THEN max ELSE n

(* tokens += elapsed * rate, but at most maxBurst.  The mutant forgets the  *)
(* cap.                                                                     *)
Overfilled == tokens + elapsed * Rate
Refilled == Capped(tokens + elapsed * Rate, maxBurst)

(* A look that finds no token keeps what has flowed in.  The mutant sets    *)
(* lastTime all the same, but keeps the old tokens.                         *)
Forgotten == tokens
Kept == Refilled

(* Is there a token to take?                                                *)
Available == Refilled >= Unit

TakeToken ==
    /\ Available
    /\ tokens' = Refilled - Unit
    /\ elapsed' = 0
    /\ meter' = meter + Unit

(* waitDur, cut to whole units of time: a sleeper may wake too early.       *)
waitDur == (Unit - Refilled) \div Rate

-----------------------------------------------------------------------------
GoTo(c, place) == at' = [at EXCEPT ![c] = place]

(* A goroutine calls a method of RateLimitedClient.                         *)
Call(c) ==
    /\ at[c] = "idle"
    /\ GoTo(c, "enter")
    /\ UNCHANGED <<tokens, elapsed, timer, meter>>

(* The critical section of Wait: take a token and go on to the chain, ...   *)
Grant(c) ==
    /\ at[c] = "enter"
    /\ TakeToken
    /\ GoTo(c, "calling")
    /\ UNCHANGED timer

(* ... or compute how long to sleep.                                        *)
Sleep(c) ==
    /\ at[c] = "enter"
    /\ ~Available
    /\ tokens' = Kept /\ elapsed' = 0
    /\ timer' = [timer EXCEPT ![c] = waitDur]
    /\ GoTo(c, "sleep")
    /\ UNCHANGED meter

(* time.After fires, and the loop starts again.                             *)
Wake(c) ==
    /\ at[c] = "sleep" /\ timer[c] = 0
    /\ GoTo(c, "enter")
    /\ UNCHANGED <<tokens, elapsed, timer, meter>>

(* The context of the call ends.                                            *)
Cancel(c) ==
    /\ at[c] = "sleep"
    /\ GoTo(c, "idle")
    /\ timer' = [timer EXCEPT ![c] = 0]
    /\ UNCHANGED <<tokens, elapsed, meter>>

(* The chain answers.                                                       *)
Return(c) ==
    /\ at[c] = "calling"
    /\ GoTo(c, "idle")
    /\ UNCHANGED <<tokens, elapsed, timer, meter>>

(* Allow, which does not wait.                                              *)
Allow ==
    \/ TakeToken /\ UNCHANGED <<at, timer>>
    \/ /\ ~Available
       /\ tokens' = Kept /\ elapsed' = 0
       /\ UNCHANGED <<at, timer, meter>>

(* After maxBurst units of time the bucket is full whatever it held.        *)
Tick ==
    /\ elapsed' = Capped(elapsed + 1, maxBurst)
    /\ timer' = [c \in Callers |-> IF timer[c] > 0 THEN timer[c] - 1 ELSE 0]
    /\ meter' = IF meter > Rate THEN meter - Rate ELSE 0
    /\ UNCHANGED <<tokens, at>>

WaitStep(c) == Grant(c) \/ Sleep(c) \/ Wake(c)

LimiterNext ==
    \/ \E c \in Callers : Call(c) \/ WaitStep(c) \/ Cancel(c) \/ Return(c)
    \/ Allow \/ Tick

LimiterSpec == NewRateLimiter /\ [][LimiterNext]_limiterVars

(* Time passes, and a goroutine that can run does.                          *)
LimiterFairness ==
    /\ WF_limiterVars(Tick)
    /\ \A c \in Callers : WF_limiterVars(WaitStep(c))

FairLimiterSpec == LimiterSpec /\ LimiterFairness

-----------------------------------------------------------------------------
(* In no period do the calls exceed the burst and what the rate allows for  *)
(* its length: meter is the largest number of parts by which the tokens     *)
(* taken since some moment exceed what has flowed since then.  The bucket   *)
(* is looked at irregularly and by several goroutines, and this still holds *)
(* at every moment.                                                         *)
WithinRate == meter <= maxBurst

(* As long as somebody waits, tokens are taken again and again: waiters     *)
(* that wake for the same token, or too early, do not stop each other for   *)
(* good.  (That every single waiter is served is not promised: the others   *)
(* may be faster.)                                                          *)
SomebodyProceeds ==
    \/ []<>(\A c \in Callers : at[c] \notin {"enter", "sleep"})
    \/ []<><<TakeToken>>_limiterVars

-----------------------------------------------------------------------------
(* The inductive invariant: what has been taken and what the bucket would   *)
(* hold if it were filled now are together no more than the burst.          *)
MeterInv == meter + Refilled <= maxBurst

LimiterInv == LimiterTypeOK /\ MeterInv
=============================================================================
