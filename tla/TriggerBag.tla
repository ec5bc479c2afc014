----------------------------- MODULE TriggerBag -----------------------------
(****************************************************************************)
(* What the trigger engine promises for one pair: it remembers how many     *)
(* times each entry was registered, and a price takes out all the entries   *)
(* that fire at it and no others.  PositionManager uses the engine in this  *)
(* form.                                                                    *)
(****************************************************************************)
EXTENDS Triggers, Sequences

VARIABLES
    engine,   \* how many times each entry is registered
    handed    \* the entries whose events the last call of OnPrice returned

CountOf(s) == [e \in Entry |-> Cardinality({i \in DOMAIN s : s[i] = e})]

InOrder(s) == \A i, j \in DOMAIN s : i < j => ~EmittedBefore(s[j], s[i])

Init == engine = Nothing /\ handed = <<>>

Register(e) ==
    engine' = Registered(engine, e) /\ handed' = <<>>

Unregister(p, l) ==
    engine' = Unregistered(engine, p, l) /\ handed' = <<>>

UnregisterPosition(p) ==
    /\ engine' = [e \in Entry |-> IF e.pos = p THEN 0 ELSE engine[e]]
    /\ handed' = <<>>

UpdateTriggerPrice(e) ==
    engine' = Registered(Unregistered(engine, e.pos, e.lvl), e) /\ handed' = <<>>

OnPrice(price) ==
    /\ engine' = Kept(engine, price)
    /\ CountOf(handed') = Fired(engine, price)
    /\ InOrder(handed')

Next ==
    \/ \E e \in Entry : Register(e) \/ UpdateTriggerPrice(e)
    \/ \E p \in Positions : UnregisterPosition(p) \/ \E l \in Slots : Unregister(p, l)
    \/ \E price \in Prices : OnPrice(price)

Spec == Init /\ [][Next]_<<engine, handed>>
=============================================================================
