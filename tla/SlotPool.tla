------------------------------ MODULE SlotPool ------------------------------
(***************************************************************************)
(* What the hub promises about session slots, with no channel, no queue    *)
(* and no handler in it: at most Size parties hold a slot, a slot is taken *)
(* by one party at a time and given back by the party that holds it.       *)
(***************************************************************************)
EXTENDS Naturals, FiniteSets

CONSTANTS
    Parties,    \* whoever may hold a slot
    Size        \* number of slots (flag -limit)

VARIABLE holders    \* the parties holding a slot

Init == holders = {}

Take(p) ==
    /\ p \notin holders
    /\ Cardinality(holders) < Size
    /\ holders' = holders \cup {p}

GiveBack(p) ==
    /\ p \in holders
    /\ holders' = holders \ {p}

Next == \E p \in Parties : Take(p) \/ GiveBack(p)

Spec == Init /\ [][Next]_holders
=============================================================================
