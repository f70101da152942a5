------------------------------ MODULE MCFrames ------------------------------
(* Two definitions, one written inside the other and unrelated to itself;  *)
(* frames small enough that recycling empties one outright.                *)
EXTENDS Frames, TLC

MCEnclosing == [d \in Defs |-> IF d = "inner" THEN {"outer"} ELSE {}]

(* No name and no value is told apart from another by Frames or CallStack, *)
(* whose CHOOSEs pick among levels only.                                   *)
MCSymmetry == Permutations(Names) \cup Permutations(Values)
=============================================================================
