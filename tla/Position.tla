------------------------------ MODULE Position ------------------------------
(****************************************************************************)
(* The Position record of types.go and the pure computations that           *)
(* executeTrigger, the CRUD operations and the trigger engine make on it.   *)
(*                                                                          *)
(* A position's levels slice is a function over a fixed set of slots: slot  *)
(* i is the code's index i - 1, and a slot past the end of the slice has    *)
(* the status "absent".  Levels are only ever appended, so the occupied     *)
(* slots are always an initial segment.                                     *)
(****************************************************************************)
EXTENDS Integers, FiniteSets, FiniteSetsExt

CONSTANTS
    MaxLevels,   \* bound: slots of a position's levels slice
    Prices       \* prices a trigger or a feed may take

ASSUME PositionAssumption ==
    /\ MaxLevels \in Nat \ {0}
    /\ Prices \subseteq Nat \ {0}

Slots == 1..MaxLevels

LevelType   == {"SL", "TP"}
Direction   == {"long", "short"}
LevelStatus == {"absent", "active", "triggered", "cancelled", "suspended"}
PositionState == {"none", "active", "partial", "closed", "cancelled"}

(* moveSLTo = 0 stands for the nil *big.Int of a level that moves nothing.  *)
Level ==
    [type : LevelType, trig : Prices \cup {0}, portion : Nat, status : LevelStatus,
     cancelOnFire : SUBSET Slots, moveSLTo : Prices \cup {0}]

PositionRecord ==
    [state : PositionState, dir : Direction, size : Nat, remaining : Nat,
     permit : BOOLEAN, deadline : Nat, activated : BOOLEAN,
     levels : [Slots -> Level]]

NoLevel ==
    [type |-> "TP", trig |-> 0, portion |-> 0, status |-> "absent",
     cancelOnFire |-> {}, moveSLTo |-> 0]

NoPosition ==
    [state |-> "none", dir |-> "long", size |-> 0, remaining |-> 0,
     permit |-> FALSE, deadline |-> 0, activated |-> FALSE,
     levels |-> [i \in Slots |-> NoLevel]]

-----------------------------------------------------------------------------
(* Reading a position.                                                      *)

IsTerminal(pos) == pos.state \in {"closed", "cancelled"}

(* What Store.ListActive returns a position for.                            *)
IsOpen(pos) == pos.state \in {"active", "partial"}

WithStatus(pos, st) == {i \in Slots : pos.levels[i].status = st}

ActiveLevels(pos) == WithStatus(pos, "active")

(* The slot of the first active stop-loss; the empty set when ActiveSL is   *)
(* nil.                                                                     *)
ActiveSL(pos) ==
    {i \in ActiveLevels(pos) :
        /\ pos.levels[i].type = "SL"
        /\ \A j \in ActiveLevels(pos) : pos.levels[j].type = "SL" => i <= j}

(* A TP of a long and an SL of a short wait above the market.               *)
shouldTriggerAbove(type, dir) == (type = "TP") <=> (dir = "long")

mulBps(x, bps) == (x * bps) \div 10000

computeAmount(pos, l) == mulBps(pos.remaining, pos.levels[l].portion)

TotalPortion(pos, S) == MapThenSumSet(LAMBDA i : pos.levels[i].portion, S)

(* What OpenPosition accepts; the permit's signature, amount and spender    *)
(* are taken as good.                                                       *)
ValidPlan(pos, now) ==
    LET given == Slots \ WithStatus(pos, "absent")
    IN  /\ pos.size > 0 /\ pos.remaining = pos.size
        /\ given # {}
        /\ \A i \in given :
             /\ pos.levels[i].status = "active"
             /\ pos.levels[i].trig > 0
             /\ pos.levels[i].portion > 0 /\ pos.levels[i].portion <= 10000
             /\ pos.levels[i].cancelOnFire \subseteq given
        /\ TotalPortion(pos, given) <= 10000
        /\ pos.permit => pos.deadline > now
        /\ ~pos.activated

PermitExpired(pos, now) == pos.permit /\ pos.deadline > 0 /\ pos.deadline <= now

-----------------------------------------------------------------------------
(* Changing a position in memory.                                           *)

Mark(pos, S, st) ==
    [pos EXCEPT !.levels =
        [i \in Slots |-> IF i \in S THEN [pos.levels[i] EXCEPT !.status = st]
                                    ELSE pos.levels[i]]]

SetTrigger(pos, S, price) ==
    [pos EXCEPT !.levels =
        [i \in Slots |-> IF i \in S THEN [pos.levels[i] EXCEPT !.trig = price]
                                    ELSE pos.levels[i]]]

(* The other levels executeTrigger cancels when level l has been swapped:   *)
(* every active one for a stop-loss, the active ones of its CancelOnFire    *)
(* list for a take-profit.                                                  *)
CancelledBy(pos, l) ==
    LET others == ActiveLevels(pos) \ {l}
    IN  IF pos.levels[l].type = "SL" THEN others
        ELSE others \cap pos.levels[l].cancelOnFire

(* The stop-loss a take-profit moves; pos is the record after the           *)
(* cancellations.                                                           *)
SLToMove(pos, l) ==
    IF pos.levels[l].type = "TP" /\ pos.levels[l].moveSLTo > 0
    THEN ActiveSL(pos) ELSE {}

(* The mutant starts from the size of the position.                         *)
RestOfSize(pos, l) == pos.size - computeAmount(pos, l)

RemainingAfter(pos, l) ==
    LET rest == pos.remaining - computeAmount(pos, l)
    IN  IF rest <= 0 THEN 0 ELSE rest

StateAfter(pos, l) ==
    IF \/ pos.levels[l].type = "SL"
       \/ ActiveLevels(pos) \subseteq ({l} \cup CancelledBy(pos, l))
       \/ RemainingAfter(pos, l) = 0
    THEN "closed" ELSE "partial"

(* The record executeTrigger builds in memory after level l was swapped.    *)
Fill(pos, l) ==
    LET marked == Mark(Mark(pos, CancelledBy(pos, l), "cancelled"), {l}, "triggered")
        moved  == SetTrigger(marked, SLToMove(marked, l), pos.levels[l].moveSLTo)
    IN  [moved EXCEPT !.remaining = RemainingAfter(pos, l),
                      !.state = StateAfter(pos, l)]
=============================================================================
