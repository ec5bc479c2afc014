------------------------ MODULE PositionLocksProofs ------------------------
(* Proofs about PositionLocks: executions of a position are serialized for  *)
(* any number of positions, chains, workers and sweeps, as long as no sweep *)
(* deleted a mutex in use.                                                  *)
EXTENDS PositionLocks, TLAPS

LEMMA LocksInit == Init => IInv
<1> SUFFICES ASSUME Init PROVE IInv
  OBVIOUS
<1>1. MaxMutexes \in Nat
  BY LocksAssumption
<1>2. TypeOK
  <2>1. locks \in [Positions -> Mutexes \cup {NoMutex}] /\ lk \in [Workers -> Mutexes \cup {NoMutex}]
    BY DEF Init
  <2>2. made \in 0..MaxMutexes
    BY <1>1 DEF Init
  <2>3. sweep \in [calls : Nat, chains : SUBSET Chains, listing : BOOLEAN,
                   active : SUBSET Positions, terminal : SUBSET Positions]
    BY DEF Init, NoSweep
  <2> QED BY <2>1, <2>2, <2>3 DEF Init, TypeOK, Place
<1>3. LocksInv
  BY DEF Init, LocksInv, NoMutex, Uses
<1> QED BY <1>2, <1>3 DEF IInv

(* The mutex a worker finds is the map's, and a new one is nobody else's.   *)
LEMMA FindKeeps == ASSUME IInv, NEW w \in Workers, ~panicked, FindMutex(w) PROVE IInv'
<1> USE DEF IInv
<1>0. made \in Nat /\ MaxMutexes \in Nat /\ NoMutex = 0 /\ target[w] \in Positions
  BY LocksAssumption DEF TypeOK, NoMutex
<1>1. /\ pc[w] = "find" /\ pc' = [pc EXCEPT ![w] = "wait"]
      /\ lk' = [lk EXCEPT ![w] = locks'[target[w]]]
      /\ UNCHANGED <<state, locked, target, sweep, panicked, swept>>
  BY DEF FindMutex, Goto
<1>2. \A v \in Workers : pc'[v] = IF v = w THEN "wait" ELSE pc[v]
  BY <1>1 DEF TypeOK
<1>3. \A v \in Workers : lk'[v] = IF v = w THEN locks'[target[w]] ELSE lk[v]
  BY <1>1 DEF TypeOK
<1>4. CASE Tracked(target[w]) /\ UNCHANGED <<locks, made>>
  <2>1. TypeOK'
    BY <1>0, <1>1, <1>4 DEF TypeOK, Place
  <2>2. LocksInv'
    BY <1>0, <1>1, <1>2, <1>3, <1>4 DEF LocksInv, Uses, Tracked, TypeOK
  <2> QED BY <2>1, <2>2
<1>5. CASE /\ ~Tracked(target[w]) /\ made < MaxMutexes /\ made' = made + 1
           /\ locks' = [locks EXCEPT ![target[w]] = made']
  <2>1. \A p \in Positions : locks'[p] = IF p = target[w] THEN made + 1 ELSE locks[p]
    BY <1>0, <1>5 DEF TypeOK
  <2>2. made + 1 \in Mutexes /\ made' = made + 1
    BY <1>0, <1>5 DEF Mutexes
  <2>3. TypeOK'
    <3>1. locks' \in [Positions -> Mutexes \cup {NoMutex}]
      BY <1>0, <1>5, <2>2 DEF TypeOK
    <3>2. made' \in 0..MaxMutexes
      BY <1>0, <1>5
    <3>3. lk' \in [Workers -> Mutexes \cup {NoMutex}]
      BY <1>0, <1>1, <2>1, <2>2 DEF TypeOK
    <3> QED BY <1>1, <3>1, <3>2, <3>3 DEF TypeOK, Place
  <2>4. \A p \in Positions : locks[p] \in Nat
    BY DEF TypeOK, Mutexes, NoMutex
  <2>5. \A m \in locked : m \in Nat
    BY DEF TypeOK, Mutexes
  <2>6. (\A p \in Positions : locks[p] <= made)' /\ (\A m \in locked : m <= made)'
    BY <1>0, <1>1, <2>1, <2>2, <2>4, <2>5 DEF LocksInv
  <2>7. ASSUME ~swept
        PROVE  /\ ~panicked'
               /\ \A p, q \in Positions : locks'[p] = locks'[q] /\ locks'[p] # NoMutex => p = q
               /\ \A v \in Workers : pc'[v] \in Uses =>
                    lk'[v] # NoMutex /\ lk'[v] = locks'[target'[v]]
    <3>1. \A v \in Workers : pc[v] \in Uses => target[v] # target[w]
      BY <1>0, <1>5, <2>7 DEF LocksInv, Tracked
    <3>2. \A v \in Workers : target[v] \in Positions
      BY DEF TypeOK
    <3>3. \A p, q \in Positions : locks'[p] = locks'[q] /\ locks'[p] # NoMutex => p = q
      BY <1>0, <2>1, <2>4, <2>7 DEF LocksInv
    <3>4. \A v \in Workers : pc'[v] \in Uses =>
            lk'[v] # NoMutex /\ lk'[v] = locks'[target'[v]]
      BY <1>0, <1>1, <1>2, <1>3, <2>1, <2>7, <3>1, <3>2 DEF LocksInv
    <3> QED BY <1>1, <2>7, <3>3, <3>4 DEF LocksInv
  <2>8. ASSUME ~swept
        PROVE  \A u \in Workers : pc'[u] \in {"critical", "release"} =>
                 /\ lk'[u] \in locked'
                 /\ \A v \in Workers \ {u} :
                      pc'[v] \in {"critical", "release"} => lk'[v] # lk'[u]
    BY <1>1, <1>2, <1>3, <2>8 DEF LocksInv
  <2>9. \A v \in Workers : lk'[v] <= made' /\ (pc'[v] = "wait" => lk'[v] # NoMutex)
    <3>1. \A v \in Workers : lk[v] \in Nat
      BY DEF TypeOK, Mutexes, NoMutex
    <3> QED BY <1>0, <1>2, <1>3, <2>1, <2>2, <3>1 DEF LocksInv
  <2> QED BY <1>1, <2>3, <2>6, <2>7, <2>8, <2>9 DEF LocksInv
<1> QED BY <1>4, <1>5 DEF FindMutex

(* Locking takes a mutex that nobody holds.                                 *)
LEMMA LockKeeps == ASSUME IInv, NEW w \in Workers, ~panicked, LockMutex(w) PROVE IInv'
<1> USE DEF IInv
<1>1. /\ pc[w] = "wait" /\ pc' = [pc EXCEPT ![w] = "critical"] /\ lk[w] \notin locked
      /\ locked' = locked \cup {lk[w]}
      /\ UNCHANGED <<state, locks, made, target, lk, sweep, panicked, swept>>
  BY DEF LockMutex, Goto
<1>2. \A v \in Workers : pc'[v] = IF v = w THEN "critical" ELSE pc[v]
  BY <1>1 DEF TypeOK
<1>3. lk[w] \in Mutexes /\ lk[w] <= made
  BY <1>1 DEF TypeOK, LocksInv
<1>4. TypeOK'
  BY <1>1, <1>3 DEF TypeOK, Place
<1>5. ASSUME ~swept
      PROVE  \A u \in Workers : pc'[u] \in {"critical", "release"} =>
               /\ lk'[u] \in locked'
               /\ \A v \in Workers \ {u} :
                    pc'[v] \in {"critical", "release"} => lk'[v] # lk'[u]
  BY <1>1, <1>2, <1>5 DEF LocksInv
<1>6. \A v \in Workers : pc'[v] \in Uses => pc[v] \in Uses
  BY <1>1, <1>2 DEF Uses
<1> QED BY <1>1, <1>2, <1>3, <1>4, <1>5, <1>6 DEF LocksInv

(* Unlock finds the mutex that is held, unless it was swept.                *)
LEMMA FindUnlockKeeps == ASSUME IInv, NEW w \in Workers, FindUnlock(w) PROVE IInv'
<1> USE DEF IInv
<1>1. /\ pc[w] = "critical" /\ pc' = [pc EXCEPT ![w] = "release"]
      /\ lk' = [lk EXCEPT ![w] = locks[target[w]]]
      /\ UNCHANGED <<state, locks, locked, made, target, sweep, panicked, swept>>
  BY DEF FindUnlock, Goto
<1>2. \A v \in Workers : pc'[v] = IF v = w THEN "release" ELSE pc[v]
  BY <1>1 DEF TypeOK
<1>3. \A v \in Workers : lk'[v] = IF v = w THEN locks[target[w]] ELSE lk[v]
  BY <1>1 DEF TypeOK
<1>4. target[w] \in Positions
  BY DEF TypeOK
<1>5. TypeOK'
  BY <1>1, <1>4 DEF TypeOK, Place
<1>6. ASSUME ~swept PROVE lk[w] = locks[target[w]]
  BY <1>1, <1>6 DEF LocksInv, Uses
<1>7. \A v \in Workers : lk'[v] <= made /\ (pc'[v] = "wait" => lk'[v] # NoMutex)
  BY <1>2, <1>3, <1>4 DEF LocksInv
<1>8. ASSUME ~swept
      PROVE  \A v \in Workers : lk'[v] = lk[v] /\ (pc'[v] \in Uses <=> pc[v] \in Uses)
                /\ (pc'[v] \in {"critical", "release"} <=> pc[v] \in {"critical", "release"})
  BY <1>1, <1>2, <1>3, <1>6, <1>8 DEF Uses
<1>9. LocksInv'
  BY <1>1, <1>7, <1>8 DEF LocksInv
<1> QED BY <1>5, <1>9

(* Unlocking releases the worker's own mutex.                               *)
LEMMA UnlockKeeps == ASSUME IInv, NEW w \in Workers, UnlockMutex(w) PROVE IInv'
<1> USE DEF IInv
<1>1. /\ pc[w] = "release" /\ pc' = [pc EXCEPT ![w] = "idle"]
      /\ UNCHANGED <<state, locks, made, target, lk, sweep, swept>>
  BY DEF UnlockMutex, Goto
<1>2. \A v \in Workers : pc'[v] = IF v = w THEN "idle" ELSE pc[v]
  BY <1>1 DEF TypeOK
<1>3. \/ locked' = locked \ {lk[w]} /\ panicked' = panicked
      \/ lk[w] \notin locked /\ locked' = locked /\ panicked' = TRUE
  BY DEF UnlockMutex, Release
<1>4. panicked' \in BOOLEAN
  BY <1>3 DEF TypeOK
<1>5. TypeOK'
  BY <1>1, <1>3, <1>4 DEF TypeOK, Place
<1>6. ASSUME ~swept PROVE locked' = locked \ {lk[w]} /\ panicked' = panicked
  BY <1>1, <1>3, <1>6 DEF LocksInv
<1>7. ASSUME ~swept
      PROVE  \A u \in Workers : pc'[u] \in {"critical", "release"} =>
               /\ lk'[u] \in locked'
               /\ \A v \in Workers \ {u} :
                    pc'[v] \in {"critical", "release"} => lk'[v] # lk'[u]
  BY <1>1, <1>2, <1>6, <1>7 DEF LocksInv
<1>8. \A v \in Workers : /\ pc'[v] \in Uses => pc[v] \in Uses
                         /\ pc'[v] = "wait" => pc[v] = "wait"
  BY <1>1, <1>2 DEF Uses
<1>9. locked' \subseteq locked
  BY <1>3
<1>10. LocksInv'
  BY <1>1, <1>6, <1>7, <1>8, <1>9 DEF LocksInv
<1> QED BY <1>5, <1>10

(* The end of a sweep deletes mutexes, which is recorded when one is used.  *)
LEMMA CleanupKeeps == ASSUME IInv, Cleanup PROVE IInv'
<1> USE DEF IInv
<1>1. /\ locks' = [p \in Positions |-> IF p \in sweep.terminal THEN NoMutex ELSE locks[p]]
      /\ swept' = (swept \/ \E p \in sweep.terminal : Tracked(p) /\ InUse(p))
      /\ sweep' = NoSweep(sweep.calls)
      /\ UNCHANGED <<state, locked, made, workerVars, panicked>>
  BY DEF Cleanup
<1>2. made \in Nat
  BY LocksAssumption DEF TypeOK
<1>3. TypeOK'
  <2>1. sweep' \in [calls : Nat, chains : SUBSET Chains, listing : BOOLEAN,
                    active : SUBSET Positions, terminal : SUBSET Positions]
    BY <1>1 DEF TypeOK, NoSweep
  <2>2. swept' \in BOOLEAN
    BY <1>1, Zenon DEF TypeOK
  <2>3. locks' \in [Positions -> Mutexes \cup {NoMutex}]
    BY <1>1 DEF TypeOK
  <2> QED BY <1>1, <2>1, <2>2, <2>3 DEF TypeOK, workerVars
<1>4. ASSUME ~swept'
      PROVE  ~swept /\ \A v \in Workers : pc[v] \in Uses => locks'[target[v]] = locks[target[v]]
  <2>1. ~swept /\ ~ \E p \in sweep.terminal : Tracked(p) /\ InUse(p)
    BY <1>1, <1>4
  <2>2. SUFFICES ASSUME NEW v \in Workers, pc[v] \in Uses
                 PROVE  locks'[target[v]] = locks[target[v]]
    BY <2>1
  <2>3. target[v] \in Positions /\ sweep.terminal \subseteq Positions
    BY DEF TypeOK
  <2>4. CASE target[v] \in sweep.terminal
    BY <1>1, <2>1, <2>2, <2>3, <2>4 DEF InUse, Uses, Tracked
  <2>5. CASE target[v] \notin sweep.terminal
    BY <1>1, <2>3, <2>5
  <2> QED BY <2>4, <2>5
<1>5. \A p \in Positions : locks'[p] = locks[p] \/ locks'[p] = NoMutex
  BY <1>1
<1>6. LocksInv'
  <2>1. (\A p \in Positions : locks[p] <= made)'
    BY <1>1, <1>2, <1>5 DEF LocksInv, NoMutex
  <2>2. ASSUME ~swept'
        PROVE \A p, q \in Positions : locks'[p] = locks'[q] /\ locks'[p] # NoMutex => p = q
    BY <1>4, <1>5, <2>2 DEF LocksInv
  <2> QED BY <1>1, <1>4, <2>1, <2>2 DEF LocksInv, workerVars
<1> QED BY <1>3, <1>6

LEMMA LocksNext == IInv /\ [Next]_vars => IInv'
<1> SUFFICES ASSUME IInv, [Next]_vars PROVE IInv'
  OBVIOUS
<1>1. CASE UNCHANGED vars
  BY <1>1 DEF IInv, TypeOK, LocksInv, vars, workerVars
<1>2. CASE \E p \in Positions : OpenPosition(p) \/ CancelPosition(p)
  BY <1>2 DEF OpenPosition, CancelPosition, IInv, TypeOK, LocksInv, workerVars
<1>3. ASSUME NEW w \in Workers, NEW p \in Positions, TakeEvent(w, p) PROVE IInv'
  <2>1. /\ pc[w] = "idle" /\ target' = [target EXCEPT ![w] = p] /\ pc' = [pc EXCEPT ![w] = "find"]
        /\ UNCHANGED <<state, locks, locked, made, lk, sweep, panicked, swept>>
    BY <1>3 DEF TakeEvent, Goto
  <2>2. \A v \in Workers : /\ pc'[v] = IF v = w THEN "find" ELSE pc[v]
                           /\ v # w => target'[v] = target[v]
    BY <2>1 DEF IInv, TypeOK
  <2>3. TypeOK'
    BY <2>1 DEF IInv, TypeOK, Place
  <2> QED BY <2>1, <2>2, <2>3 DEF IInv, LocksInv, Uses
<1>4. ASSUME NEW w \in Workers, ClosePosition(w) PROVE IInv'
  BY <1>4 DEF ClosePosition, IInv, TypeOK, LocksInv, workerVars
<1>5. CASE SweepBegins \/ ListActive \/ CollectTerminal
  <2>1. UNCHANGED <<state, locks, locked, made, workerVars, panicked, swept>>
    BY <1>5 DEF SweepBegins, ListActive, CollectTerminal
  <2>2. sweep' \in [calls : Nat, chains : SUBSET Chains, listing : BOOLEAN,
                    active : SUBSET Positions, terminal : SUBSET Positions]
    <3>1. sweep \in [calls : Nat, chains : SUBSET Chains, listing : BOOLEAN,
                     active : SUBSET Positions, terminal : SUBSET Positions]
      BY DEF IInv, TypeOK
    <3>2. CASE SweepBegins
      <4>1. sweep.calls + 1 \in Nat
        BY <3>1
      <4>2. NoSweep(sweep.calls + 1) \in
              [calls : Nat, chains : SUBSET Chains, listing : BOOLEAN,
               active : SUBSET Positions, terminal : SUBSET Positions]
        BY <4>1 DEF NoSweep
      <4>3. sweep' = [NoSweep(sweep.calls + 1) EXCEPT !.chains = Chains]
        BY <3>2 DEF SweepBegins
      <4> HIDE DEF NoSweep
      <4> QED BY <4>2, <4>3
    <3>3. CASE ListActive
      <4>1. PICK c \in sweep.chains :
              sweep' = [sweep EXCEPT !.listing = TRUE, !.chains = sweep.chains \ {c},
                          !.active = {p \in Positions : ChainOf[p] = c /\ state[p] = "open"}]
        BY <3>3 DEF ListActive
      <4>2. {p \in Positions : ChainOf[p] = c /\ state[p] = "open"} \in SUBSET Positions
        OBVIOUS
      <4>3. sweep.chains \ {c} \in SUBSET Chains
        BY <3>1
      <4> QED BY <3>1, <4>1, <4>2, <4>3
    <3>4. CASE CollectTerminal
      BY <3>1, <3>4 DEF CollectTerminal
    <3> QED BY <1>5, <3>2, <3>3, <3>4
  <2> QED BY <2>1, <2>2 DEF IInv, TypeOK, LocksInv, workerVars
<1> QED
  BY <1>1, <1>2, <1>3, <1>4, <1>5, FindKeeps, LockKeeps, FindUnlockKeeps, UnlockKeeps,
     CleanupKeeps
  DEF Next, WorkerStep

(* Executions of one position are serialized and no Unlock fails, until a   *)
(* sweep deletes a mutex that a goroutine has looked up.                    *)
THEOREM LocksSerialize == Spec => []SerializedUnlessSwept
<1>1. IInv => SerializedUnlessSwept
  BY DEF IInv, LocksInv, SerializedUnlessSwept, Uses
<1> QED BY <1>1, LocksInit, LocksNext, PTL DEF Spec
(* The map of locks and the goroutines keep their types.                    *)
THEOREM LockTypes == Spec => []TypeOK
<1>1. IInv => TypeOK
  BY DEF IInv
<1> QED BY <1>1, LocksInit, LocksNext, PTL DEF Spec
=============================================================================
