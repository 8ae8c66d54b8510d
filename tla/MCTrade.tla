------------------------------ MODULE MCTrade -------------------------------
(* Trade, with players, containers, stacks and spots interchangeable.        *)
EXTENDS Trade, TLC

CONSTANTS hand, back

SlotOrder == <<hand, back>>

Symmetry == Permutations(Player) \cup Permutations(Stack) \cup Permutations(Bag)
            \cup Permutations(Spot)
=============================================================================
