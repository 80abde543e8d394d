------------------------------ MODULE MCLocalData ------------------------------
(***************************************************************************)
(* LocalData for TLC: files of one and of two units, interchangeable calls *)
(* and chats.                                                              *)
(***************************************************************************)
EXTENDS LocalData

CONSTANT Large   \* the images whose file has two units, of a budget of two
UnitSize == [i \in Images |-> IF i \in Large THEN 2 ELSE 1]

Symmetry == Permutations(Calls) \cup Permutations(Chats) \cup Permutations(Dids)
=============================================================================
