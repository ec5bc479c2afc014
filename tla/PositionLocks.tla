---------------------------- MODULE PositionLocks ----------------------------
(****************************************************************************)
(* The map of per-position mutexes (positionLockMap of manager.go) that     *)
(* serializes executeTrigger, and CleanupClosedPositionLocks, with which    *)
(* the host keeps the map from growing.  A mutex is an object: a goroutine  *)
(* that looked it up keeps its reference when the map entry is deleted.     *)
(*                                                                          *)
(* PositionManager takes the lock as given (posLock); this module is about  *)
(* when that is justified.                                                  *)
(****************************************************************************)
EXTENDS Integers, FiniteSets

CONSTANTS
    Positions,
    Chains,
    ChainOf,      \* position -> chain
    Workers,      \* executor goroutines of all chains
    MaxMutexes,   \* bound: mutexes created
    Sweeps        \* bound: calls of CleanupClosedPositionLocks

ASSUME LocksAssumption ==
    /\ ChainOf \in [Positions -> Chains]
    /\ MaxMutexes \in Nat /\ Sweeps \in Nat

NoMutex  == 0
Mutexes  == 1..MaxMutexes

VARIABLES
    state,      \* position -> "none", "open", "closed" (in the Store)
    locks,      \* the map: position -> mutex, NoMutex when it has no entry
    locked,     \* mutexes that are locked
    made,       \* mutexes created so far
    pc, target, lk,           \* per worker: place, position, its reference
    sweep,      \* the goroutine in CleanupClosedPositionLocks
    panicked,   \* a nil mutex or an unlocked one was unlocked
    swept       \* history: a mutex in use was deleted from the map

vars == <<state, locks, locked, made, pc, target, lk, sweep, panicked, swept>>

workerVars == <<pc, target, lk>>

Place == {"idle", "find", "wait", "critical", "release"}

TypeOK ==
    /\ state \in [Positions -> {"none", "open", "closed"}]
    /\ locks \in [Positions -> Mutexes \cup {NoMutex}]
    /\ locked \subseteq Mutexes /\ made \in 0..MaxMutexes
    /\ pc \in [Workers -> Place] /\ target \in [Workers -> Positions]
    /\ lk \in [Workers -> Mutexes \cup {NoMutex}]
    /\ sweep \in [calls : Nat, chains : SUBSET Chains, listing : BOOLEAN,
                  active : SUBSET Positions, terminal : SUBSET Positions]
    /\ panicked \in BOOLEAN /\ swept \in BOOLEAN

NoSweep(calls) ==
    [calls |-> calls, chains |-> {}, listing |-> FALSE, active |-> {}, terminal |-> {}]

Init ==
    /\ state = [p \in Positions |-> "none"]
    /\ locks = [p \in Positions |-> NoMutex]
    /\ locked = {} /\ made = 0
    /\ pc = [w \in Workers |-> "idle"]
    /\ target \in [Workers -> Positions]
    /\ \A v, w \in Workers : target[v] = target[w]
    /\ lk = [w \in Workers |-> NoMutex]
    /\ sweep = NoSweep(0)
    /\ panicked = FALSE /\ swept = FALSE

-----------------------------------------------------------------------------
(* The Store: the host opens positions and cancels them without their lock. *)

OpenPosition(p) ==
    /\ state[p] = "none"
    /\ state' = [state EXCEPT ![p] = "open"]
    /\ UNCHANGED <<locks, locked, made, workerVars, sweep, panicked, swept>>

CancelPosition(p) ==
    /\ state[p] = "open"
    /\ state' = [state EXCEPT ![p] = "closed"]
    /\ UNCHANGED <<locks, locked, made, workerVars, sweep, panicked, swept>>

-----------------------------------------------------------------------------
(* executeTrigger: Lock, the execution, the deferred Unlock.                *)

Goto(w, place) == pc' = [pc EXCEPT ![w] = place]

(* An event may outlive its position.                                       *)
TakeEvent(w, p) ==
    /\ pc[w] = "idle" /\ state[p] # "none"
    /\ target' = [target EXCEPT ![w] = p]
    /\ Goto(w, "find")
    /\ UNCHANGED <<state, locks, locked, made, lk, sweep, panicked, swept>>

(* The map has a mutex for the position.  The mutant never finds it.        *)
NeverTracked(p) == FALSE
Tracked(p) == locks[p] # NoMutex

(* Lock, under mu: find the mutex of the position or create it.             *)
FindMutex(w) ==
    /\ pc[w] = "find"
    /\ \/ Tracked(target[w]) /\ UNCHANGED <<locks, made>>
       \/ /\ ~Tracked(target[w])
          /\ made < MaxMutexes
          /\ made' = made + 1
          /\ locks' = [locks EXCEPT ![target[w]] = made']
    /\ lk' = [lk EXCEPT ![w] = locks'[target[w]]]
    /\ Goto(w, "wait")
    /\ UNCHANGED <<state, locked, target, sweep, panicked, swept>>

(* Lock, after mu: lock the mutex.                                          *)
LockMutex(w) ==
    /\ pc[w] = "wait"
    /\ lk[w] \notin locked
    /\ locked' = locked \cup {lk[w]}
    /\ Goto(w, "critical")
    /\ UNCHANGED <<state, locks, made, target, lk, sweep, panicked, swept>>

(* The execution closes the position.                                       *)
ClosePosition(w) ==
    /\ pc[w] = "critical" /\ state[target[w]] = "open"
    /\ state' = [state EXCEPT ![target[w]] = "closed"]
    /\ UNCHANGED <<locks, locked, made, workerVars, sweep, panicked, swept>>

(* Unlock looks the mutex up again, ...                                     *)
FindUnlock(w) ==
    /\ pc[w] = "critical"
    /\ lk' = [lk EXCEPT ![w] = locks[target[w]]]
    /\ Goto(w, "release")
    /\ UNCHANGED <<state, locks, locked, made, target, sweep, panicked, swept>>

(* sync.Mutex.Unlock.  The mutant leaves the mutex locked.                  *)
StayLocked(m) == UNCHANGED locked
Release(m) == locked' = locked \ {m}

(* ... and unlocks what it found.                                           *)
UnlockMutex(w) ==
    /\ pc[w] = "release"
    /\ IF lk[w] \in locked
       THEN Release(lk[w]) /\ UNCHANGED panicked
       ELSE panicked' = TRUE /\ UNCHANGED locked
    /\ Goto(w, "idle")
    /\ UNCHANGED <<state, locks, made, target, lk, sweep, swept>>

-----------------------------------------------------------------------------
(* CleanupClosedPositionLocks.                                              *)

SweepBegins ==
    /\ sweep.chains = {} /\ sweep.terminal = {} /\ sweep.calls < Sweeps
    /\ sweep' = [NoSweep(sweep.calls + 1) EXCEPT !.chains = Chains]
    /\ UNCHANGED <<state, locks, locked, made, workerVars, panicked, swept>>

(* Store.ListActive of the next chain.                                      *)
ListActive ==
    /\ sweep.chains # {} /\ ~sweep.listing
    /\ \E c \in sweep.chains :
         sweep' = [sweep EXCEPT
                     !.listing = TRUE,
                     !.chains = @ \ {c},
                     !.active = {p \in Positions : ChainOf[p] = c /\ state[p] = "open"}]
    /\ UNCHANGED <<state, locks, locked, made, workerVars, panicked, swept>>

(* Under mu: the tracked positions that are not in the listing.             *)
CollectTerminal ==
    /\ sweep.listing
    /\ sweep' = [sweep EXCEPT
                   !.listing = FALSE,
                   !.terminal = @ \cup {p \in Positions :
                                          Tracked(p) /\ p \notin sweep.active}]
    /\ UNCHANGED <<state, locks, locked, made, workerVars, panicked, swept>>

InUse(p) == \E w \in Workers : target[w] = p /\ pc[w] \in {"wait", "critical", "release"}

Cleanup ==
    /\ sweep.chains = {} /\ ~sweep.listing /\ sweep.terminal # {}
    /\ locks' = [p \in Positions |-> IF p \in sweep.terminal THEN NoMutex ELSE locks[p]]
    /\ swept' = (swept \/ \E p \in sweep.terminal : Tracked(p) /\ InUse(p))
    /\ sweep' = NoSweep(sweep.calls)
    /\ UNCHANGED <<state, locked, made, workerVars, panicked>>

-----------------------------------------------------------------------------
WorkerStep(w) ==
    FindMutex(w) \/ LockMutex(w) \/ ClosePosition(w) \/ FindUnlock(w) \/ UnlockMutex(w)

(* A panic ends the process.                                                *)
Next ==
    /\ ~panicked
    /\ \/ \E p \in Positions : OpenPosition(p) \/ CancelPosition(p)
       \/ \E w \in Workers : WorkerStep(w) \/ \E p \in Positions : TakeEvent(w, p)
       \/ SweepBegins \/ ListActive \/ CollectTerminal \/ Cleanup

Spec == Init /\ [][Next]_vars

(* The workers run, and sync.Mutex hands a mutex to its waiters in turn.    *)
FairSpec ==
    /\ Spec
    /\ \A w \in Workers :
         /\ WF_vars(~panicked /\ (FindMutex(w) \/ FindUnlock(w) \/ UnlockMutex(w)))
         /\ SF_vars(~panicked /\ LockMutex(w))

-----------------------------------------------------------------------------
(* Executions of one position are serialized, and no Unlock fails, as long  *)
(* as no sweep deleted a mutex that a goroutine had looked up: what         *)
(* PositionManager's posLock stands for.                                    *)
SerializedUnlessSwept ==
    ~swept =>
        /\ ~panicked
        /\ \A v, w \in Workers :
             (v # w /\ pc[v] = "critical" /\ pc[w] = "critical") => target[v] # target[w]

(* A worker that waits for a position's mutex gets it.                      *)
WaitersGetTheLock ==
    \A w \in Workers : pc[w] = "wait" ~> (pc[w] = "critical" \/ swept)

(* A sweep may run at any time: it never makes an Unlock fail.              *)
NoUnlockFails == ~panicked

-----------------------------------------------------------------------------
(* The inductive invariant behind SerializedUnlessSwept.                    *)

Uses == {"wait", "critical", "release"}

LocksInv ==
    /\ \A p \in Positions : locks[p] <= made
    /\ \A m \in locked : m <= made
    /\ \A w \in Workers : lk[w] <= made /\ (pc[w] = "wait" => lk[w] # NoMutex)
    /\ ~swept =>
         /\ ~panicked
         /\ \A p, q \in Positions : locks[p] = locks[q] /\ locks[p] # NoMutex => p = q
         /\ \A w \in Workers : pc[w] \in Uses =>
              lk[w] # NoMutex /\ lk[w] = locks[target[w]]
         /\ \A w \in Workers : pc[w] \in {"critical", "release"} =>
              /\ lk[w] \in locked
              /\ \A v \in Workers \ {w} :
                   pc[v] \in {"critical", "release"} => lk[v] # lk[w]

IInv == TypeOK /\ LocksInv
=============================================================================
