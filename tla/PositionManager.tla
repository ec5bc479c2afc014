-------------------------- MODULE PositionManager --------------------------
(****************************************************************************)
(* The keeper of manager.go on one chain and one token pair: the price      *)
(* goroutine that turns price updates into trigger events, the bounded      *)
(* execution channel, the pool of workers that run executeTrigger, the CRUD *)
(* calls the host application makes from its own goroutines, the permit     *)
(* expiry monitor, crashes of the process and the restart of Run.           *)
(*                                                                          *)
(* A goroutine's step ends where another goroutine could interfere: at the  *)
(* position lock, at a call of the Store, at a call of the trigger engine,  *)
(* at the chain.  The Store belongs to the host; Get returns a copy of the  *)
(* record and Update overwrites the whole of it.                            *)
(****************************************************************************)
EXTENDS Triggers, Sequences

CONSTANTS
    Workers,      \* executor goroutines (ExecutorWorkers of the chain)
    Callers,      \* goroutines that make CRUD calls, and the expiry monitor's
    None,         \* owner of a free lock, position of an idle goroutine
    ChanCap,      \* capacity of the execution channel (workers * 4 in the code)
    Plans,        \* position records OpenPosition may build
    NewLevels,    \* levels AddLevel may append
    Deadlines,    \* permit deadlines RenewPermit may be given
    MaxNow,       \* bound: the clock
    OnlineOps,    \* operations called after Run was called
    OfflineOps,   \* operations called before
    MaxOps,       \* bound: number of operations other than OpenPosition
    Faults,       \* kinds of failure the environment inflicts
    MaxFaults     \* bound: number of failures

Procs == Workers \cup Callers

FaultKinds ==
    {"storeGet", "getFee", "circuitOpen", "activate", "swap", "sendAccepted", "storeUpdate",
     "crash"}

OpKinds == {"open", "cancel", "updateLevel", "addLevel", "removeLevel", "renew", "expire"}

ASSUME ManagerAssumption ==
    /\ Workers \cap Callers = {}
    /\ None \notin Positions \cup Procs
    /\ ChanCap \in Nat \ {0}
    /\ Plans \subseteq {plan \in PositionRecord : plan.state = "active"}
    /\ NewLevels \subseteq {lv \in Level : lv.status = "active"}
    /\ Deadlines \subseteq Nat
    /\ MaxNow \in Nat /\ MaxOps \in Nat /\ MaxFaults \in Nat
    /\ OnlineOps \subseteq OpKinds /\ OfflineOps \subseteq OpKinds
    /\ Faults \subseteq FaultKinds

VARIABLES
    store,     \* the host's database: position -> record
    engine,    \* trigger engine: how many times each entry is registered
    outbox,    \* entries OnPrice removed whose events are not yet in execCh
    tick,      \* the price update being dispatched, 0 when none is
    execCh,    \* the buffered channel of trigger events
    posLock,   \* position -> goroutine that holds its lock
    pc, job, snap, todo,   \* per goroutine: where it is, the event or call it
                           \* works on, its copy of the record, and the slots
                           \* it has yet to (un)register
    run,       \* Run: "down", "listed" (positions loaded), "running"
    listed,    \* what Store.ListActive returned to Run
    now,       \* the clock
    ops, faults,                    \* counters of the bounds
    swaps, moved, reported, lost,   \* history, read by properties only: of swaps;
    raced,     \* since the keeper started a call and another goroutine had the
               \* record of the position in hand at the same time;
    missed     \* since then a call of the Store or of GetFee failed on it

vars == <<store, engine, outbox, tick, execCh, posLock, pc, job, snap, todo, run,
          listed, now, ops, faults, swaps, moved, reported, lost, raced, missed>>

feedVars    == <<outbox, tick, execCh>>
procVars    == <<pc, job, snap, todo>>
runVars     == <<run, listed, now>>
historyVars == <<swaps, moved, reported, lost, raced, missed>>

Event == [pos : Positions, lvl : Slots, price : Prices \cup {0}]
LevelId == Positions \X Slots

Job == [op : OpKinds \cup {"exec", "none"}, pos : Positions \cup {None},
        lvl : Slots, price : Prices \cup {0}]
JobOn(op, p) == [op |-> op, pos |-> p, lvl |-> 1, price |-> 0]
NoJob == JobOn("none", None)

Place ==
    {"idle", "lock", "load", "allow", "permit", "suspend", "saveActivation", "submit",
     "receipt", "persist", "retire",   \* executeTrigger
     "register", "engine"}             \* OpenPosition, the other operations

(* Where executeTrigger holds the position lock; where its copy of the      *)
(* record is as loaded; where the copy has the level filled.                *)
Executing == {"allow", "permit", "saveActivation", "submit", "receipt"}
Filled    == {"persist", "retire"}
HasCopy   == Executing \cup Filled \cup {"suspend"}
Holding   == HasCopy \cup {"load"}

TypeOK ==
    /\ store \in [Positions -> PositionRecord]
    /\ engine \in [Entry -> Nat]
    /\ outbox \in [Entry -> Nat]
    /\ tick \in Prices \cup {0}
    /\ execCh \in Seq(Event)
    /\ posLock \in [Positions -> Workers \cup {None}]
    /\ pc \in [Procs -> Place]
    /\ job \in [Procs -> Job]
    /\ \A q \in Procs : pc[q] # "idle" => job[q].pos \in Positions
    /\ snap \in [Procs -> PositionRecord]
    /\ todo \in [Procs -> SUBSET Slots]
    /\ run \in {"down", "listed", "running"}
    /\ listed \in [Positions -> PositionRecord]
    /\ now \in Nat /\ ops \in Nat /\ faults \in Nat
    /\ swaps \in [LevelId -> Nat]
    /\ moved \in [Positions -> Nat]
    /\ reported \in [LevelId -> Nat]
    /\ lost \subseteq LevelId
    /\ raced \subseteq Positions /\ missed \subseteq Positions

Init ==
    /\ store = [p \in Positions |-> NoPosition]
    /\ engine = Nothing /\ outbox = Nothing
    /\ tick = 0
    /\ execCh = <<>>
    /\ posLock = [p \in Positions |-> None]
    /\ pc = [q \in Procs |-> "idle"]
    /\ job = [q \in Procs |-> NoJob]
    /\ snap = [q \in Procs |-> NoPosition]
    /\ todo = [q \in Procs |-> {}]
    /\ run = "down"
    /\ listed = [p \in Positions |-> NoPosition]
    /\ now = 0 /\ ops = 0 /\ faults = 0
    /\ swaps = [k \in LevelId |-> 0]
    /\ moved = [p \in Positions |-> 0]
    /\ reported = [k \in LevelId |-> 0]
    /\ lost = {} /\ raced = {} /\ missed = {}

-----------------------------------------------------------------------------
(* Building blocks.                                                         *)

NowIs(q, place) == pc[q] = place
Goto(q, place)  == pc' = [pc EXCEPT ![q] = place]

(* A failure the environment may inflict, counted against the bound.        *)
Fault(kind) ==
    /\ kind \in Faults
    /\ faults < MaxFaults
    /\ faults' = faults + 1

NoFault == UNCHANGED faults

(* The trigger engine's operations; each is one critical section of its mu. *)
Register(p, l, rec)           == engine' = Registered(engine, EntryOf(p, l, rec))
Unregister(p, l)              == engine' = Unregistered(engine, p, l)
UpdateTriggerPrice(p, l, rec) ==
    engine' = Registered(Unregistered(engine, p, l), EntryOf(p, l, rec))

(* A call other than OpenPosition has read p's record and not yet written   *)
(* it back; an execution has.                                               *)
Calling(p)   == \E h \in Callers : NowIs(h, "engine") /\ job[h].pos = p
InWorkers(p) == \E w \in Workers : pc[w] \in HasCopy /\ job[w].pos = p

Races(p, overlap) == raced' = IF overlap THEN raced \cup {p} ELSE raced
Misses(p)         == missed' = missed \cup {p}

IsFirst(l, S) == l \in S /\ \A i \in S : l <= i

(* The goroutine is done with its event or its call.                        *)
Finish(q) ==
    /\ Goto(q, "idle")
    /\ job'  = [job  EXCEPT ![q] = NoJob]
    /\ snap' = [snap EXCEPT ![q] = NoPosition]
    /\ todo' = [todo EXCEPT ![q] = {}]

(* executeTrigger returns: its deferred Unlock, and the worker is free.     *)
(* The mutant forgets the Unlock.                                           *)
ReturnLocked(w) == UNCHANGED posLock /\ Finish(w)

Return(w) ==
    /\ posLock' = [posLock EXCEPT ![job[w].pos] = None]
    /\ Finish(w)

(* executeTrigger puts its trigger back and returns.  The mutant drops it.  *)
DropTrigger(w) == UNCHANGED engine /\ Return(w)

RetryLater(w) ==
    /\ Register(job[w].pos, job[w].lvl, snap[w])
    /\ Return(w)

-----------------------------------------------------------------------------
(* The price goroutine.                                                     *)

(* handlePriceUpdate takes an update and OnPrice removes what fires.  An    *)
(* update that fires nothing changes nothing and is not a step.             *)
OnPrice(price) ==
    /\ run = "running"
    /\ tick = 0
    /\ \E e \in Entry : engine[e] > 0 /\ Fires(e, price)
    /\ outbox' = Fired(engine, price)
    /\ engine' = Kept(engine, price)
    /\ tick' = price
    /\ UNCHANGED <<store, execCh, posLock, procVars, runVars, ops, faults, historyVars>>

(* It sends the events one by one and blocks while the channel is full.     *)
Dispatch(e) ==
    /\ outbox[e] > 0
    /\ \A d \in Entry : outbox[d] > 0 => ~EmittedBefore(d, e)
    /\ Len(execCh) < ChanCap
    /\ execCh' = Append(execCh, [pos |-> e.pos, lvl |-> e.lvl, price |-> tick])
    /\ outbox' = [outbox EXCEPT ![e] = @ - 1]
    /\ tick' = IF outbox' = Nothing THEN 0 ELSE tick
    /\ UNCHANGED <<store, engine, posLock, procVars, runVars, ops, faults, historyVars>>

-----------------------------------------------------------------------------
(* executeTrigger.                                                          *)

TakeEvent(w) ==
    /\ NowIs(w, "idle")
    /\ execCh # <<>>
    /\ LET evt == Head(execCh) IN
       job' = [job EXCEPT ![w] = [op |-> "exec", pos |-> evt.pos, lvl |-> evt.lvl,
                                  price |-> evt.price]]
    /\ execCh' = Tail(execCh)
    /\ Goto(w, "lock")
    /\ UNCHANGED <<store, engine, outbox, tick, posLock, snap, todo, runVars, ops,
                   faults, historyVars>>

(* The mutant does not wait for the lock to be free.                        *)
GrabPosition(w) ==
    /\ NowIs(w, "lock")
    /\ posLock' = [posLock EXCEPT ![job[w].pos] = w]
    /\ Goto(w, "load")
    /\ UNCHANGED <<store, engine, feedVars, job, snap, todo, runVars, ops, faults,
                   historyVars>>

LockPosition(w) ==
    /\ NowIs(w, "lock")
    /\ posLock[job[w].pos] = None
    /\ posLock' = [posLock EXCEPT ![job[w].pos] = w]
    /\ Goto(w, "load")
    /\ UNCHANGED <<store, engine, feedVars, job, snap, todo, runVars, ops, faults,
                   historyVars>>

(* The mutant does not look at the level.                                   *)
StillOpen(rec, l) == ~IsTerminal(rec)
CanExecute(rec, l) == ~IsTerminal(rec) /\ rec.levels[l].status = "active"

(* Store.Get, the checks on what it returned, and FeeProvider.GetFee, which *)
(* shares no state with the rest of the program.                            *)
Load(w) ==
    LET rec == store[job[w].pos]
        ok  == CanExecute(rec, job[w].lvl)
    IN
    /\ NowIs(w, "load")
    /\ \/ Fault("storeGet") /\ Return(w) /\ Misses(job[w].pos)
       \/ ~ok /\ NoFault /\ Return(w) /\ UNCHANGED missed
       \/ ok /\ Fault("getFee") /\ Return(w) /\ Misses(job[w].pos)
       \/ /\ ok /\ NoFault
          /\ snap' = [snap EXCEPT ![w] = rec]
          /\ Goto(w, "allow")
          /\ UNCHANGED <<posLock, job, todo, missed>>
    /\ Races(job[w].pos, Calling(job[w].pos))
    /\ UNCHANGED <<store, engine, feedVars, runVars, ops, swaps, moved, reported, lost>>

(* The circuit breaker, an environment here: it refuses or lets through.    *)
Allow(w) ==
    /\ NowIs(w, "allow")
    /\ \/ Fault("circuitOpen") /\ RetryLater(w)
       \/ /\ NoFault
          /\ Goto(w, IF snap[w].permit THEN "permit" ELSE "submit")
          /\ UNCHANGED <<engine, posLock, job, snap, todo>>
    /\ UNCHANGED <<store, feedVars, runVars, ops, historyVars>>

(* The permit branch: an expired permit suspends the levels, one that is    *)
(* not activated is activated on chain first.                               *)
PermitIsExpired(w) ==
    /\ NowIs(w, "permit") /\ PermitExpired(snap[w], now)
    /\ snap' = [snap EXCEPT ![w] = Mark(@, ActiveLevels(@), "suspended")]
    /\ todo' = [todo EXCEPT ![w] = ActiveLevels(snap[w])]
    /\ Goto(w, "suspend")
    /\ UNCHANGED <<store, engine, feedVars, posLock, job, runVars, ops, faults, historyVars>>

PermitIsActivated(w) ==
    /\ NowIs(w, "permit") /\ ~PermitExpired(snap[w], now) /\ snap[w].activated
    /\ Goto(w, "submit")
    /\ UNCHANGED <<store, engine, feedVars, posLock, job, snap, todo, runVars, ops,
                   faults, historyVars>>

ActivatePermit(w) ==
    /\ NowIs(w, "permit") /\ ~PermitExpired(snap[w], now) /\ ~snap[w].activated
    /\ \/ Fault("activate") /\ RetryLater(w)
       \/ /\ NoFault
          /\ snap' = [snap EXCEPT ![w].activated = TRUE]
          /\ Goto(w, "saveActivation")
          /\ UNCHANGED <<engine, posLock, job, todo>>
    /\ UNCHANGED <<store, feedVars, runVars, ops, historyVars>>

(* A failed Store.Update is only logged here.                               *)
SaveActivation(w) ==
    /\ NowIs(w, "saveActivation")
    /\ \/ NoFault /\ store' = [store EXCEPT ![job[w].pos] = snap[w]]
       \/ Fault("storeUpdate") /\ UNCHANGED store
    /\ Goto(w, "submit")
    /\ UNCHANGED <<engine, feedVars, posLock, job, snap, todo, runVars, ops, historyVars>>

UnregisterNext(q, l) ==
    /\ IsFirst(l, todo[q])
    /\ Unregister(job[q].pos, l)
    /\ todo' = [todo EXCEPT ![q] = @ \ {l}]

SuspendLevel(w) ==
    /\ NowIs(w, "suspend")
    /\ \E l \in Slots : UnregisterNext(w, l)
    /\ UNCHANGED <<store, feedVars, posLock, pc, job, snap, runVars, ops, faults,
                   historyVars>>

SaveSuspension(w) ==
    /\ NowIs(w, "suspend") /\ todo[w] = {}
    /\ \/ NoFault /\ store' = [store EXCEPT ![job[w].pos] = snap[w]] /\ UNCHANGED missed
       \/ Fault("storeUpdate") /\ Misses(job[w].pos) /\ UNCHANGED store
    /\ Return(w)
    /\ UNCHANGED <<engine, feedVars, runVars, ops, swaps, moved, reported, lost, raced>>

Amount(w) == computeAmount(snap[w], job[w].lvl)

LevelOf(w) == <<job[w].pos, job[w].lvl>>

(* The swaps of the workers in W are mined.                                 *)
Mined(W) ==
    /\ swaps' = [k \in LevelId |->
                   IF \E w \in W : LevelOf(w) = k THEN swaps[k] + 1 ELSE swaps[k]]
    /\ moved' = [p \in Positions |->
                   IF posLock[p] \in W THEN moved[p] + Amount(posLock[p]) ELSE moved[p]]

(* executeSwap up to SendTransaction.  The call may fail with nothing sent, *)
(* or after the node has taken the transaction, which is then mined all the *)
(* same.                                                                    *)
SubmitSwap(w) ==
    /\ NowIs(w, "submit")
    /\ \/ Fault("swap") /\ RetryLater(w) /\ UNCHANGED historyVars
       \/ /\ Fault("sendAccepted") /\ RetryLater(w)
          /\ Amount(w) > 0
          /\ Mined({w})
          /\ lost' = lost \cup {LevelOf(w)}
          /\ UNCHANGED <<reported, raced, missed>>
       \/ /\ NoFault
          /\ Goto(w, "receipt")
          /\ UNCHANGED <<engine, posLock, job, snap, todo, historyVars>>
    /\ UNCHANGED <<store, feedVars, runVars, ops>>

(* waitForReceipt: the transaction is mined, or it reverts.  The contract   *)
(* reverts a swap of amount zero.                                           *)
SwapMined(w) ==
    /\ NowIs(w, "receipt")
    /\ Amount(w) > 0
    /\ Mined({w})
    /\ snap' = [snap EXCEPT ![w] = Fill(@, job[w].lvl)]
    /\ todo' = [todo EXCEPT ![w] = CancelledBy(snap[w], job[w].lvl)]
    /\ Goto(w, "persist")
    /\ UNCHANGED <<store, engine, feedVars, posLock, job, runVars, ops, faults,
                   reported, lost, raced, missed>>

SwapReverted(w) ==
    /\ NowIs(w, "receipt")
    /\ IF Amount(w) = 0 THEN NoFault ELSE Fault("swap")
    /\ RetryLater(w)
    /\ UNCHANGED <<store, feedVars, runVars, ops, historyVars>>

(* storeUpdateWithRetry: a Fault is the failure of all of its attempts.     *)
(* The mutants go on after a failure, and return after a success.           *)
PersistOrNot(w) ==
    /\ NowIs(w, "persist")
    /\ \/ NoFault /\ store' = [store EXCEPT ![job[w].pos] = snap[w]]
       \/ Fault("storeUpdate") /\ UNCHANGED store
    /\ Goto(w, "retire")
    /\ UNCHANGED <<engine, feedVars, posLock, job, snap, todo, runVars, ops, historyVars>>
PersistOnly(w) ==
    /\ NowIs(w, "persist")
    /\ NoFault
    /\ store' = [store EXCEPT ![job[w].pos] = snap[w]]
    /\ Return(w)
    /\ UNCHANGED <<engine, feedVars, runVars, ops, historyVars>>

PersistFill(w) ==
    /\ NowIs(w, "persist")
    /\ \/ /\ NoFault
          /\ store' = [store EXCEPT ![job[w].pos] = snap[w]]
          /\ Goto(w, "retire")
          /\ UNCHANGED <<posLock, job, snap, todo, lost, missed>>
       \/ /\ Fault("storeUpdate")
          /\ lost' = lost \cup {LevelOf(w)}
          /\ Misses(job[w].pos)
          /\ Return(w)
          /\ UNCHANGED store
    /\ UNCHANGED <<engine, feedVars, runVars, ops, swaps, moved, reported, raced>>

(* Only after the record is persisted: unregister what was cancelled, ...   *)
RetireLevel(w) ==
    /\ NowIs(w, "retire")
    /\ \E l \in Slots : UnregisterNext(w, l)
    /\ UNCHANGED <<store, feedVars, posLock, pc, job, snap, runVars, ops, faults,
                   historyVars>>

(* ... move the stop-loss, and report the execution to the host.            *)
ReportExecution(w) ==
    LET p  == job[w].pos
        sl == SLToMove(snap[w], job[w].lvl)
    IN
    /\ NowIs(w, "retire") /\ todo[w] = {}
    /\ \/ sl = {} /\ UNCHANGED engine
       \/ \E i \in sl : UpdateTriggerPrice(p, i, snap[w])
    /\ reported' = [reported EXCEPT ![LevelOf(w)] = @ + 1]
    /\ Return(w)
    /\ UNCHANGED <<store, feedVars, runVars, ops, faults, swaps, moved, lost, raced, missed>>

WorkerStep(w) ==
    \/ TakeEvent(w) \/ LockPosition(w) \/ Load(w) \/ Allow(w)
    \/ PermitIsExpired(w) \/ PermitIsActivated(w) \/ ActivatePermit(w)
    \/ SaveActivation(w) \/ SuspendLevel(w) \/ SaveSuspension(w)
    \/ SubmitSwap(w) \/ SwapMined(w) \/ SwapReverted(w)
    \/ PersistFill(w) \/ RetireLevel(w) \/ ReportExecution(w)

-----------------------------------------------------------------------------
(* The CRUD operations and the permit monitor.  None of them takes posLocks *)
(* and all but OpenPosition read the record, change the trigger engine, and *)
(* then write the record back.  A Store.Get that fails changes nothing and  *)
(* is not a step.                                                           *)

MayCall(op) ==
    /\ op \in IF run = "down" THEN OfflineOps ELSE OnlineOps
    /\ op # "open" => ops < MaxOps
    /\ ops' = IF op = "open" THEN ops ELSE ops + 1

(* OpenPosition up to Store.Save.                                           *)
SavePosition(h, p, plan) ==
    /\ NowIs(h, "idle") /\ MayCall("open")
    /\ store[p].state = "none"
    /\ ValidPlan(plan, now)
    /\ store' = [store EXCEPT ![p] = plan]
    /\ job' = [job EXCEPT ![h] = JobOn("open", p)]
    /\ snap' = [snap EXCEPT ![h] = plan]
    /\ todo' = [todo EXCEPT ![h] = ActiveLevels(plan)]
    /\ Goto(h, "register")
    /\ UNCHANGED <<engine, feedVars, posLock, runVars, faults, historyVars>>

(* A call that has read the record and goes on to the engine with the       *)
(* changed copy rec and the slots S.                                        *)
Begin(h, op, p, rec, S) ==
    /\ NowIs(h, "idle") /\ MayCall(op)
    /\ IsOpen(store[p])
    /\ job' = [job EXCEPT ![h] = JobOn(op, p)]
    /\ snap' = [snap EXCEPT ![h] = rec]
    /\ todo' = [todo EXCEPT ![h] = S]
    /\ Goto(h, "engine")
    /\ Races(p, Calling(p) \/ InWorkers(p))
    /\ UNCHANGED <<store, engine, feedVars, posLock, runVars, faults,
                   swaps, moved, reported, lost, missed>>

CancelPosition(h, p) ==
    Begin(h, "cancel", p,
          [Mark(store[p], ActiveLevels(store[p]), "cancelled") EXCEPT !.state = "cancelled"],
          ActiveLevels(store[p]))

UpdateLevel(h, p, l, price) ==
    /\ l \in ActiveLevels(store[p])
    /\ price > 0
    /\ Begin(h, "updateLevel", p, SetTrigger(store[p], {l}, price), {l})

(* AddLevel appends: it takes the first slot past the end.                  *)
AddLevel(h, p, l, lv) ==
    /\ IsFirst(l, WithStatus(store[p], "absent"))
    /\ Begin(h, "addLevel", p, [store[p] EXCEPT !.levels[l] = lv], {l})

(* RemoveLevel does not look at the level's status.                         *)
RemoveLevel(h, p, l) ==
    /\ l \notin WithStatus(store[p], "absent")
    /\ Begin(h, "removeLevel", p, Mark(store[p], {l}, "cancelled"), {l})

RenewPermit(h, p, deadline) ==
    LET suspended == WithStatus(store[p], "suspended") IN
    Begin(h, "renew", p,
          [Mark(store[p], suspended, "active") EXCEPT
             !.permit = TRUE, !.deadline = deadline, !.activated = FALSE],
          suspended)

(* checkPermitExpiry, for one of the positions it listed.                   *)
SuspendExpired(h, p) ==
    /\ run = "running"
    /\ PermitExpired(store[p], now)
    /\ ActiveLevels(store[p]) # {}
    /\ Begin(h, "expire", p,
             Mark(store[p], ActiveLevels(store[p]), "suspended"),
             ActiveLevels(store[p]))

EngineCall(h, l) ==
    LET p == job[h].pos IN
    \/ job[h].op \in {"open", "addLevel", "renew"}       /\ Register(p, l, snap[h])
    \/ job[h].op \in {"cancel", "removeLevel", "expire"} /\ Unregister(p, l)
    \/ job[h].op = "updateLevel"                         /\ UpdateTriggerPrice(p, l, snap[h])

ApplyToEngine(h) ==
    /\ pc[h] \in {"engine", "register"}
    /\ \E l \in Slots :
         /\ IsFirst(l, todo[h])
         /\ EngineCall(h, l)
         /\ todo' = [todo EXCEPT ![h] = @ \ {l}]
    /\ UNCHANGED <<store, feedVars, posLock, pc, job, snap, runVars, ops, faults,
                   historyVars>>

OpenReturns(h) ==
    /\ NowIs(h, "register") /\ todo[h] = {}
    /\ Finish(h)
    /\ UNCHANGED <<store, engine, feedVars, posLock, runVars, ops, faults, historyVars>>

(* The marks "triggered" that writing rec over p's record would erase.      *)
Erased(p, rec) ==
    {k \in LevelId : /\ k[1] = p
                     /\ store[p].levels[k[2]].status = "triggered"
                     /\ rec.levels[k[2]].status # "triggered"}

SaveCall(h) ==
    /\ NowIs(h, "engine") /\ todo[h] = {}
    /\ \/ /\ NoFault
          /\ store' = [store EXCEPT ![job[h].pos] = snap[h]]
          /\ lost' = lost \cup Erased(job[h].pos, snap[h])
          /\ UNCHANGED missed
       \/ Fault("storeUpdate") /\ Misses(job[h].pos) /\ UNCHANGED <<store, lost>>
    /\ Finish(h)
    /\ UNCHANGED <<engine, feedVars, posLock, runVars, ops, swaps, moved, reported, raced>>

Call(h) ==
    \/ \E p \in Positions :
         \/ \E plan \in Plans : SavePosition(h, p, plan)
         \/ CancelPosition(h, p)
         \/ \E l \in Slots :
              \/ \E price \in Prices : UpdateLevel(h, p, l, price)
              \/ \E lv \in NewLevels : AddLevel(h, p, l, lv)
              \/ RemoveLevel(h, p, l)
         \/ \E deadline \in Deadlines : RenewPermit(h, p, deadline)
         \/ SuspendExpired(h, p)

CallerStep(h) == ApplyToEngine(h) \/ OpenReturns(h) \/ SaveCall(h)

-----------------------------------------------------------------------------
(* Run, the clock, and crashes.                                             *)

(* Run reads the open positions, ...                                        *)
ListActive ==
    /\ run = "down"
    /\ run' = "listed"
    /\ listed' = [p \in Positions |-> IF IsOpen(store[p]) THEN store[p] ELSE NoPosition]
    /\ UNCHANGED <<store, engine, feedVars, posLock, procVars, now, ops, faults, historyVars>>

(* ... registers what it read, one level after another, ...                 *)
RegisterListed(p, l) ==
    /\ run = "listed"
    /\ IsFirst(l, ActiveLevels(listed[p]))
    /\ Register(p, l, listed[p])
    /\ listed' = [listed EXCEPT ![p] = Mark(@, {l}, "absent")]
    /\ UNCHANGED <<store, feedVars, posLock, procVars, run, now, ops, faults, historyVars>>

(* ... and starts the goroutines.                                           *)
StartRun ==
    /\ run = "listed"
    /\ \A p \in Positions : ActiveLevels(listed[p]) = {}
    /\ run' = "running"
    /\ listed' = [p \in Positions |-> NoPosition]
    /\ UNCHANGED <<store, engine, feedVars, posLock, procVars, now, ops, faults, historyVars>>

RunStep ==
    \/ ListActive \/ StartRun
    \/ \E p \in Positions, l \in Slots : RegisterListed(p, l)

AdvanceClock ==
    /\ now < MaxNow
    /\ now' = now + 1
    /\ UNCHANGED <<store, engine, feedVars, posLock, procVars, run, listed, ops, faults,
                   historyVars>>

AtReceipt == {w \in Workers : pc[w] = "receipt"}
AtPersist == {w \in Workers : pc[w] = "persist"}

(* The process dies.  The Store and the chain stay; of the transactions     *)
(* that were in flight the set W will still be mined, which no goroutine    *)
(* learns.  The next Run registers what the Store says, whatever was raced  *)
(* or missed before.                                                        *)
Crash(W) ==
    /\ run = "running"
    /\ Fault("crash")
    /\ W \subseteq {w \in AtReceipt : Amount(w) > 0}
    /\ Mined(W)
    /\ lost' = lost \cup {LevelOf(w) : w \in W \cup AtPersist}
    /\ run' = "down"
    /\ engine' = Nothing /\ outbox' = Nothing /\ tick' = 0 /\ execCh' = <<>>
    /\ posLock' = [p \in Positions |-> None]
    /\ pc' = [q \in Procs |-> "idle"]
    /\ job' = [q \in Procs |-> NoJob]
    /\ snap' = [q \in Procs |-> NoPosition]
    /\ todo' = [q \in Procs |-> {}]
    /\ raced' = {} /\ missed' = {}
    /\ UNCHANGED <<store, listed, now, ops, reported>>

Next ==
    \/ \E price \in Prices : OnPrice(price)
    \/ \E e \in Entry : Dispatch(e)
    \/ \E w \in Workers : WorkerStep(w)
    \/ \E h \in Callers : Call(h) \/ CallerStep(h)
    \/ RunStep \/ AdvanceClock
    \/ \E W \in SUBSET Workers : Crash(W)

Spec == Init /\ [][Next]_vars

(* The Go scheduler runs every goroutine that can run, a mutex is handed to *)
(* its waiters in turn, and a submitted transaction is mined or reverted.   *)
(* Nothing obliges the feed to report a price, the host to call, or the     *)
(* environment to fail.                                                     *)
Fairness ==
    /\ \A e \in Entry : WF_vars(Dispatch(e))
    /\ \A w \in Workers : WF_vars(WorkerStep(w)) /\ SF_vars(LockPosition(w))
    /\ \A h \in Callers : WF_vars(CallerStep(h))
    /\ WF_vars(run = "listed" /\ RunStep)

FairSpec == Spec /\ Fairness

-----------------------------------------------------------------------------
(* What the keeper promises.                                                *)

Triggered(rec, l) == rec.levels[l].status = "triggered"

(* A level is swapped a second time only if the record of an earlier swap   *)
(* of it was lost: its Store.Update failed for good, the process died       *)
(* between the transaction and the Update, or another call overwrote it.    *)
(* The status check of executeTrigger under posLocks is what ensures it.    *)
DoubleSwapOnlyIfRecordLost ==
    \A k \in LevelId : swaps[k] > 1 => k \in lost

(* What was sold and what the record says remains add up to the size of the *)
(* position, counting the record a worker is about to persist, as long as   *)
(* no record was lost: no stale RemainingSize is ever written.              *)
Current(p) ==
    LET w == posLock[p]
    IN  IF w # None /\ pc[w] = "persist" THEN snap[w] ELSE store[p]

SizeConserved ==
    \A p \in Positions :
        (\A l \in Slots : <<p, l>> \notin lost)
            => moved[p] + Current(p).remaining = Current(p).size

(* The host is told of an execution (OnExecution) only after the record of  *)
(* it is in the Store, and at most once per swap.                           *)
ReportedIsRecorded ==
    \A k \in LevelId :
        /\ reported[k] <= swaps[k]
        /\ reported[k] > 0 =>
             Triggered(store[k[1]], k[2]) \/ k \in lost

(* A trigger event of the level is on its way to a worker, or a worker has  *)
(* it and may still swap.                                                   *)
InPipeline(k) ==
    \/ \E e \in Entry : <<e.pos, e.lvl>> = k /\ outbox[e] > 0
    \/ \E i \in DOMAIN execCh : <<execCh[i].pos, execCh[i].lvl>> = k
    \/ \E w \in Workers : LevelOf(w) = k

Watched(k) ==
    \E e \in Entry :
        e = EntryOf(k[1], k[2], store[k[1]]) /\ engine[e] > 0

BeingRegistered(k) ==
    \E h \in Callers : job[h].pos = k[1] /\ k[2] \in todo[h]

(* A worker, or a call of the host, is in the middle of changing the level: *)
(* what it is about to write has another status or trigger for it.          *)
AsStored(p, l, rec) == EntryOf(p, l, rec) = EntryOf(p, l, store[p])

BeingChanged(p, l) ==
    \/ \E w \in Workers : job[w].pos = p /\ pc[w] \in {"suspend", "retire"}
    \/ \E h \in Callers : /\ pc[h] = "engine" /\ job[h].pos = p
                          /\ ~(l \in ActiveLevels(snap[h]) /\ AsStored(p, l, snap[h]))

(* While the keeper runs, an active level of an open position is never      *)
(* forgotten, over the errors between OnPrice (which removed the trigger)   *)
(* and the swap, crashes, restarts, and calls of the host and the monitor:  *)
(* it is registered at the price the Store holds for it, or an event of it  *)
(* is on its way, or a goroutine has yet to register it or is in the middle *)
(* of changing it.  Two things may lose a trigger until the next start: a   *)
(* call that overlapped an execution of the position or another call on it, *)
(* and a failed call of the Store or of GetFee, after which executeTrigger  *)
(* and the calls return without putting the entries back.                   *)
ActiveLevelWatched ==
    run = "running" =>
        \A k \in LevelId :
            (/\ IsOpen(store[k[1]]) /\ k[2] \in ActiveLevels(store[k[1]])
             /\ k[1] \notin raced \cup missed) =>
                \/ Watched(k)
                \/ InPipeline(k)
                \/ BeingRegistered(k)
                \/ BeingChanged(k[1], k[2])

(* A closed or cancelled position stays what it is, whatever fails, unless  *)
(* a call on it (or the expiry monitor) that writes back a record without   *)
(* the lock overlapped an execution or another call since the keeper was    *)
(* started: executions alone, however many, never bring it back.            *)
TerminalStaysTerminal ==
    [][\A p \in Positions :
         (IsTerminal(store[p]) /\ p \notin raced) => store'[p].state = store[p].state]_vars

(* No level is ever swapped twice.                                          *)
NoDoubleSwap == \A k \in LevelId : swaps[k] <= 1

(* Every event that leaves the engine is dealt with: neither the full       *)
(* channel nor the position locks ever stop the workers for good.           *)
EventsAreHandled == \A k \in LevelId : InPipeline(k) ~> ~InPipeline(k)

(* Every mined swap is eventually reported to the host.                     *)
SwapsAreReported ==
    \A k \in LevelId : (swaps[k] > reported[k]) ~> (swaps[k] = reported[k])

-----------------------------------------------------------------------------
(* The inductive invariant behind DoubleSwapOnlyIfRecordLost and            *)
(* ReportedIsRecorded.                                                      *)

LockInv ==
    \A w \in Workers : pc[w] \in Holding => posLock[job[w].pos] = w

(* A worker's copy knows of every recorded swap of its position.            *)
CopyInv ==
    \A w \in Workers : pc[w] \in HasCopy =>
        /\ pc[w] \in Executing => snap[w].levels[job[w].lvl].status = "active"
        /\ pc[w] \in Filled => Triggered(snap[w], job[w].lvl)
        /\ \A l \in Slots :
             (<<job[w].pos, l>> \notin lost /\ swaps[<<job[w].pos, l>>] > 0)
                => Triggered(snap[w], l)

(* A swap that is not lost was made once, and is in the Store or about to   *)
(* be written there.                                                        *)
RecordInv ==
    \A k \in LevelId \ lost :
        /\ swaps[k] <= 1
        /\ swaps[k] > 0 =>
             \/ Triggered(store[k[1]], k[2])
             \/ \E w \in Workers : pc[w] = "persist" /\ LevelOf(w) = k

ReportInv ==
    /\ \A k \in LevelId :
         /\ reported[k] <= swaps[k]
         /\ reported[k] > 0 => Triggered(store[k[1]], k[2]) \/ k \in lost
    /\ \A w \in Workers :
         /\ pc[w] \in Filled => reported[LevelOf(w)] < swaps[LevelOf(w)]
         /\ pc[w] = "retire" =>
              Triggered(store[job[w].pos], job[w].lvl) \/ LevelOf(w) \in lost

(* A record that was never saved has no triggered level.                    *)
Sane(rec) == rec.state = "none" => \A l \in Slots : ~Triggered(rec, l)

SaneInv ==
    /\ \A p \in Positions : Sane(store[p])
    /\ \A q \in Procs : Sane(snap[q])

IInv == TypeOK /\ LockInv /\ CopyInv /\ RecordInv /\ ReportInv /\ SaneInv

-----------------------------------------------------------------------------
(* What has to be added to it for SizeConserved.                            *)

(* A lock that is taken is held by a worker that executes on its position.  *)
OwnerInv ==
    \A p \in Positions : posLock[p] # None =>
        pc[posLock[p]] \in Holding /\ job[posLock[p]].pos = p

(* No level sells more than the whole of what remains, and nothing has been *)
(* sold of a position that was never saved.  AddLevel does not check the    *)
(* first, so the levels a host adds are assumed to be such.                 *)
Shares(rec) ==
    /\ \A l \in Slots : rec.levels[l].portion <= 10000
    /\ rec.state = "none" => rec.remaining = rec.size

PortionsAreShares ==
    /\ \A plan \in Plans : \A l \in Slots : plan.levels[l].portion <= 10000
    /\ \A lv \in NewLevels : lv.portion <= 10000

SharesInv ==
    /\ \A p \in Positions : Shares(store[p])
    /\ \A q \in Procs : Shares(snap[q])

(* A record of p, however stale, marks only levels that were swapped; and   *)
(* if it marks all of them its RemainingSize is right.                      *)
Knows(rec, p) == \A l \in Slots : swaps[<<p, l>>] > 0 => Triggered(rec, l)

Sound(rec, p) ==
    /\ \A l \in Slots : Triggered(rec, l) => swaps[<<p, l>>] > 0
    /\ Knows(rec, p) => moved[p] + rec.remaining = rec.size

Intact(p) == \A l \in Slots : <<p, l>> \notin lost

(* Where a goroutine has a record it may yet write to the Store.            *)
Keeping == HasCopy \cup {"engine"}

SoundInv ==
    \A p \in Positions : Intact(p) =>
        /\ Sound(store[p], p)
        /\ \A q \in Procs : (pc[q] \in Keeping /\ job[q].pos = p) => Sound(snap[q], p)

SizeInv == IInv /\ OwnerInv /\ SharesInv /\ SoundInv

-----------------------------------------------------------------------------
(* The inductive invariants behind TerminalStaysTerminal and                *)
(* ActiveLevelWatched.                                                      *)

(* Only a running keeper has events.                                        *)
FeedInv ==
    /\ tick = 0 => outbox = Nothing
    /\ run # "running" => /\ tick = 0 /\ execCh = <<>>
                          /\ \A w \in Workers : pc[w] = "idle"

(* What a call has yet to unregister is not active in its copy.             *)
HostInv ==
    \A h \in Callers :
        /\ pc[h] = "engine" => job[h].op # "open"
        /\ pc[h] = "register" => job[h].op = "open"
        /\ (pc[h] = "engine" /\ job[h].op \in {"cancel", "removeLevel", "expire"})
              => todo[h] \cap ActiveLevels(snap[h]) = {}

(* On a position that was not raced a call has the record for itself.       *)
AloneInv ==
    \A h \in Callers : (pc[h] = "engine" /\ job[h].pos \notin raced) =>
        /\ ~InWorkers(job[h].pos)
        /\ \A g \in Callers : (pc[g] = "engine" /\ job[g].pos = job[h].pos) => g = h

(* What is executed or changed is open, in the copy and in the Store.       *)
LivingInv ==
    /\ \A p \in Positions : store[p].state = "none" => ActiveLevels(store[p]) = {}
    /\ \A q \in Procs : pc[q] \in Keeping => snap[q].state # "none"
    /\ \A w \in Workers :
         /\ pc[w] \in Executing \cup {"suspend"} => IsOpen(snap[w])
         /\ (pc[w] \in HasCopy \ {"retire"} /\ job[w].pos \notin raced)
              => IsOpen(store[job[w].pos])
    /\ \A h \in Callers :
         (pc[h] = "engine" /\ job[h].pos \notin raced) => IsOpen(store[job[h].pos])

OverlapInv == IInv /\ FeedInv /\ HostInv /\ AloneInv /\ LivingInv

(* What a worker's copy is of the record in the Store, on a position that   *)
(* was not raced; a failed SaveActivation leaves them apart.                *)
Loaded(rec) == {rec, [rec EXCEPT !.activated = TRUE]}

Fresh(w) ==
    LET rec == store[job[w].pos] IN
    /\ pc[w] \in {"allow", "permit", "retire"} => snap[w] = rec
    /\ pc[w] = "saveActivation" => snap[w] = [rec EXCEPT !.activated = TRUE]
    /\ pc[w] \in {"submit", "receipt"} => snap[w] \in Loaded(rec)
    /\ pc[w] = "suspend" => ActiveLevels(snap[w]) = {}
    /\ pc[w] = "persist" => /\ \E old \in Loaded(rec) : snap[w] = Fill(old, job[w].lvl)
                            /\ todo[w] = CancelledBy(rec, job[w].lvl)
    /\ pc[w] = "retire" => todo[w] \cap ActiveLevels(rec) = {}

FreshInv ==
    \A w \in Workers :
        /\ pc[w] = "idle" => job[w] = NoJob
        /\ (pc[w] # "idle" /\ job[w].pos \notin raced) => Fresh(w)

(* The entry that rec has for the level is in the engine, or an event of    *)
(* the level is on its way.                                                 *)
Present(p, l, rec) ==
    (\E e \in Entry : e = EntryOf(p, l, rec) /\ engine[e] > 0) \/ InPipeline(<<p, l>>)

(* An active level of a call's copy is one of the Store's, or has yet to be *)
(* registered, or is present.                                               *)
CallCopyInv ==
    \A h \in Callers :
        LET p == job[h].pos IN
        (pc[h] = "engine" /\ p \notin raced \cup missed) =>
            \A l \in ActiveLevels(snap[h]) :
                \/ l \in ActiveLevels(store[p]) /\ AsStored(p, l, snap[h])
                \/ l \in todo[h]
                \/ Present(p, l, snap[h])

(* A level is about to get the entry that the Store has for it: from Run,   *)
(* from OpenPosition, or from the worker or the call that changes it.       *)
InList(p, l) == run = "listed" /\ l \in ActiveLevels(listed[p]) /\ AsStored(p, l, listed[p])

Opening(p, l) ==
    \E h \in Callers :
        pc[h] = "register" /\ job[h].pos = p /\ l \in todo[h] /\ AsStored(p, l, snap[h])

Moving(p, l) ==
    \E w \in Workers :
        /\ job[w].pos = p
        /\ \/ pc[w] = "suspend"
           \/ pc[w] = "retire" /\ l \in SLToMove(snap[w], job[w].lvl)

InCall(p, l) ==
    \E h \in Callers :
        /\ pc[h] = "engine" /\ job[h].pos = p
        /\ \/ l \in todo[h] /\ l \in ActiveLevels(snap[h])
           \/ ~(l \in ActiveLevels(snap[h]) /\ AsStored(p, l, snap[h]))

Covered(p, l) ==
    \/ Present(p, l, store[p])
    \/ InList(p, l) \/ Opening(p, l) \/ Moving(p, l) \/ InCall(p, l)

CoverInv ==
    run # "down" =>
        \A p \in Positions \ (raced \cup missed) : IsOpen(store[p]) =>
            \A l \in ActiveLevels(store[p]) : Covered(p, l)

WatchInv == OverlapInv /\ FreshInv /\ CallCopyInv /\ CoverInv
=============================================================================
