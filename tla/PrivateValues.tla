--------------------------- MODULE PrivateValues ---------------------------
(***************************************************************************)
(* What the comment of Buf promises: "a Buf behaves as a private value     *)
(* however cheaply it was cloned".  Each name holds a sequence, and a call *)
(* gives one name what it says and leaves the others alone.                *)
(***************************************************************************)
EXTENDS Naturals, Sequences

CONSTANTS Names, None

VARIABLES value, call

Init == value = [n \in Names |-> None] /\ call = [op |-> "none"]

(* What a call gives the name it is made on. *)
Given(c) ==
  CASE c.op = "make"  -> c.elems
    [] c.op = "clone" -> value[c.of]
    [] c.op = "slice" -> SubSeq(value[c.of], c.from + 1, c.upto)
    [] c.op = "join"  -> value[c.of] \o value[c.with]
    [] c.op = "push"  -> Append(value[c.on], c.elem)
    [] c.op = "set"   -> [value[c.on] EXCEPT ![c.at] = c.elem]
    [] c.op = "move"  -> value[c.on]
    [] c.op = "drop"  -> None

Next ==
  \/ call'.op # "none" /\ value' = [value EXCEPT ![call'.on] = Given(call')]
  \/ call'.op = "none" /\ UNCHANGED value

Spec == Init /\ [][Next]_<<value, call>>
=============================================================================
