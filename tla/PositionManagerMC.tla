------------------------- MODULE PositionManagerMC -------------------------
(* Small instances of PositionManager for TLC.                              *)
EXTENDS PositionManager, TLC

L(type, trig, portion, cancel, move) ==
    [type |-> type, trig |-> trig, portion |-> portion, status |-> "active",
     cancelOnFire |-> cancel, moveSLTo |-> move]

Plan(levels) ==
    [NoPosition EXCEPT !.state = "active", !.size = 4, !.remaining = 4,
        !.levels = [i \in Slots |-> IF i \in DOMAIN levels THEN levels[i] ELSE NoLevel]]

Permitted(plan, deadline) == [plan EXCEPT !.permit = TRUE, !.deadline = deadline]

(* Two take-profits, the first cancels the second.                          *)
TakeOrTake == Plan(<<L("TP", 2, 5000, {2}, 0), L("TP", 2, 5000, {}, 0)>>)

(* A position with one stop-loss under a permit that expires at 1.          *)
StopPermitted == Permitted(Plan(<<L("SL", 1, 10000, {}, 0)>>), 1)

(* A stop-loss, and a take-profit that moves it to its own price.           *)
StopThenTake == Plan(<<L("SL", 1, 5000, {}, 0), L("TP", 2, 5000, {}, 2)>>)

RacePlans == {StopThenTake, StopPermitted}
LivePlan == {TakeOrTake}

WorkerSymmetry == Permutations(Workers)

AddedTake == {L("TP", 2, 5000, {}, 0)}

(* The hypothesis of the theorem SizesAddUp.                                *)
ASSUME InstanceShares == PortionsAreShares
=============================================================================
