---------------------------- MODULE MCSymbolTable ----------------------------
(* Three threads, three names besides the empty one, room for two of them. *)
EXTENDS SymbolTable, TLC

(* Threads are told apart by nothing, nor are names other than the empty   *)
(* one.                                                                    *)
MCSymmetry == Permutations(Threads) \cup Permutations(Texts \ {EmptyText})
=============================================================================
