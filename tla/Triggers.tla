------------------------------ MODULE Triggers ------------------------------
(****************************************************************************)
(* What the trigger engine of trigger.go holds for one token pair, as the   *)
(* position manager sees it: how many times each entry is registered.       *)
(* TriggerEngine shows that the code's two sorted slices implement it.      *)
(****************************************************************************)
EXTENDS Position

CONSTANT Positions    \* positions the host may open

(* An entry is in the above slice or in the below slice.                    *)
Entry == [pos : Positions, lvl : Slots, price : Prices \cup {0}, above : BOOLEAN]

EntryOf(p, l, rec) ==
    [pos |-> p, lvl |-> l, price |-> rec.levels[l].trig,
     above |-> shouldTriggerAbove(rec.levels[l].type, rec.dir)]

Nothing == [e \in Entry |-> 0]

Registered(eng, e) == [eng EXCEPT ![e] = @ + 1]

Unregistered(eng, p, l) ==
    [e \in Entry |-> IF e.pos = p /\ e.lvl = l THEN 0 ELSE eng[e]]

Fires(e, price) == IF e.above THEN e.price <= price ELSE e.price >= price

(* OnPrice hands out what fires and keeps the rest.                         *)
Fired(eng, price) == [e \in Entry |-> IF Fires(e, price) THEN eng[e] ELSE 0]
Kept(eng, price)  == [e \in Entry |-> IF Fires(e, price) THEN 0 ELSE eng[e]]

(* OnPrice emits the above entries, then the below ones, each ascending.    *)
EmittedBefore(e1, e2) ==
    \/ e1.above /\ ~e2.above
    \/ e1.above = e2.above /\ e1.price < e2.price
=============================================================================
