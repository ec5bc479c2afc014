--------------------------- MODULE TriggerEngine ---------------------------
(****************************************************************************)
(* The trigger engine of trigger.go for one token pair: two slices sorted   *)
(* by price that every operation splices under the engine's mu.  An element *)
(* of a slice is an Entry whose field "above" names the slice.              *)
(****************************************************************************)
EXTENDS Triggers, Sequences

CONSTANT MaxEntries   \* bound: entries registered at a time

ASSUME EngineAssumption == MaxEntries \in Nat

VARIABLES
    pt,       \* pairTriggers: the slices above and below
    handed    \* the entries whose events the last call of OnPrice returned

AboveSlice == {e \in Entry : e.above}
BelowSlice == Entry \ AboveSlice

TypeOK ==
    /\ pt \in [above : Seq(AboveSlice), below : Seq(BelowSlice)]
    /\ handed \in Seq(Entry)

Init ==
    /\ pt = [above |-> <<>>, below |-> <<>>]
    /\ handed = <<>>

-----------------------------------------------------------------------------
(* sort.Search: how many leading indexes come before the first one of Hits. *)
Search(len, Hits) ==
    CHOOSE n \in 0..len : (1..n) \cap Hits = {} /\ (n < len => n + 1 \in Hits)

(* The mutant appends.                                                      *)
insertLast(s, e) == Append(s, e)
insertSorted(s, e) ==
    LET i == Search(Len(s), {j \in DOMAIN s : s[j].price > e.price})
    IN  SubSeq(s, 1, i) \o <<e>> \o SubSeq(s, i + 1, Len(s))

(* The removing loops move the n-th element they keep to index n.           *)
Compacted(s, Keeps) ==
    LET KeptUpTo(i) == Cardinality({k \in Keeps : k <= i})
    IN  [n \in 1..Cardinality(Keeps) |-> s[CHOOSE i \in Keeps : KeptUpTo(i) = n]]

(* The mutant compares the level index only.                                *)
removeLevel(s, p, l) == Compacted(s, {i \in DOMAIN s : s[i].lvl # l})
removeEntry(s, p, l) == Compacted(s, {i \in DOMAIN s : ~(s[i].pos = p /\ s[i].lvl = l)})

removePositionEntries(s, p) == Compacted(s, {i \in DOMAIN s : s[i].pos # p})

registerLocked(t, e) ==
    IF e.above THEN [t EXCEPT !.above = insertSorted(@, e)]
               ELSE [t EXCEPT !.below = insertSorted(@, e)]

unregisterLocked(t, p, l) ==
    [above |-> removeEntry(t.above, p, l), below |-> removeEntry(t.below, p, l)]

Size == Len(pt.above) + Len(pt.below)

NewEntry(p, l, type, dir, price) ==
    [pos |-> p, lvl |-> l, price |-> price, above |-> shouldTriggerAbove(type, dir)]

-----------------------------------------------------------------------------
(* The engine's operations.                                                 *)

Register(p, l, type, dir, price) ==
    /\ Size < MaxEntries
    /\ pt' = registerLocked(pt, NewEntry(p, l, type, dir, price))
    /\ handed' = <<>>

Unregister(p, l) ==
    /\ pt' = unregisterLocked(pt, p, l)
    /\ handed' = <<>>

UnregisterPosition(p) ==
    /\ pt' = [above |-> removePositionEntries(pt.above, p),
              below |-> removePositionEntries(pt.below, p)]
    /\ handed' = <<>>

UpdateTriggerPrice(p, l, type, dir, price) ==
    /\ Size < MaxEntries
    /\ pt' = registerLocked(unregisterLocked(pt, p, l), NewEntry(p, l, type, dir, price))
    /\ handed' = <<>>

OnPrice(price) ==
    LET cutoff ==
            Search(Len(pt.above), {i \in DOMAIN pt.above : pt.above[i].price > price})
        belowCutoff ==
            Search(Len(pt.below), {i \in DOMAIN pt.below : pt.below[i].price >= price})
    IN
    /\ handed' = SubSeq(pt.above, 1, cutoff)
                   \o SubSeq(pt.below, belowCutoff + 1, Len(pt.below))
    /\ pt' = [above |-> SubSeq(pt.above, cutoff + 1, Len(pt.above)),
              below |-> SubSeq(pt.below, 1, belowCutoff)]

Next ==
    \/ \E p \in Positions, l \in Slots, type \in LevelType, dir \in Direction,
          price \in Prices :
         Register(p, l, type, dir, price) \/ UpdateTriggerPrice(p, l, type, dir, price)
    \/ \E p \in Positions, l \in Slots : Unregister(p, l)
    \/ \E p \in Positions : UnregisterPosition(p)
    \/ \E price \in Prices : OnPrice(price)

Spec == Init /\ [][Next]_<<pt, handed>>

-----------------------------------------------------------------------------
Copies(s, e) == Cardinality({i \in DOMAIN s : s[i] = e})

Ascending(s) == \A i, j \in DOMAIN s : i < j => s[i].price <= s[j].price

(* Both slices stay sorted ascending whatever is spliced in or cut out: the *)
(* binary searches rely on it.                                              *)
Sorted == Ascending(pt.above) /\ Ascending(pt.below)

(* The slices hand out exactly the entries that fire, in the order the      *)
(* manager sends them, and lose or invent none: they implement the bag of   *)
(* entries the position manager works with.                                 *)
Bag ==
    INSTANCE TriggerBag
    WITH engine <- [e \in Entry |-> Copies(pt.above, e) + Copies(pt.below, e)]

ImplementsBag == Bag!Spec
=============================================================================
