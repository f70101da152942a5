------------------------------ MODULE MCArrays ------------------------------
(* Arguments small enough to enumerate, of every kind of shape and type.   *)
EXTENDS Verbs

NotGiven == [type |-> "int", shape |-> <<0, 0, 0>>, rows |-> TRUE, data |-> <<>>]
Chars(s) == Arr("char", <<Len(s)>>, s)
Simple == {
  Scalar("int", 3), Scalar("char", 97), Scalar("bool", 1),
  Empty("int", <<0>>), Empty("char", <<0>>), Empty("box", <<0>>), Empty("int", <<0, 2>>),
  Empty("float", <<2, 0>>),
  Ints(<<5>>), Ints(<<2, 7>>), Ints(<<0, 3, 1>>), Ints(<<4, 4, 1, 9>>), Chars(<<97, 98>>), Chars(<<99, 97, 99>>),
  Arr("bool", <<3>>, <<1, 0, 1>>), Arr("float", <<4>>, <<100, 101, 103, 100>>),
  Arr("int", <<2, 2>>, <<3, 1, 4, 1>>), ColMajor("int", <<2, 3>>, <<0, 3, 1, 4, 2, 5>>), Arr("int", <<1, 1>>, <<8>>),
  Arr("int", <<3, 2>>, <<1, 0, 0, 1, 2, 2>>), Arr("char", <<1, 2>>, <<97, 98>>),
  ColMajor("int", <<2, 3, 2>>, <<0, 1, 2, 3, 4, 5, 6, 7, 8, 9, 10, 11>>)}
Nested == {
  Box(Ints(<<1, 2>>)), Arr("box", <<2>>, <<Ints(<<7>>), Chars(<<97, 98>>)>>),
  Arr("box", <<2>>, <<Scalar("int", 2), ColMajor("int", <<2, 2>>, <<1, 2, 3, 4>>)>>)}
Givens == Simple \cup Nested

Init == alpha = NotGiven /\ omega = NotGiven /\ lang \in {"J", "APL"}

Give ==
  /\ alpha = NotGiven
  /\ alpha' \in Givens /\ omega' \in Givens
  /\ UNCHANGED lang

(* A verb has run, and its answer is the argument of the next one.          *)
Answers(x, y) ==
  {HeadItem(y), TailItem(y), Turned(y), Raze(y), Nub(y), SelfClassify(y), Open(y), Enlist(y), Catalogue(y),
   Catenate(x, y, TRUE), Catenate(x, y, FALSE), Laminate(x, y), Take(x, y), Drop(x, y), Reshape(x, y, TRUE)}
Answer ==
  /\ alpha = NotGiven
  /\ alpha' \in {Scalar("int", 3), Ints(<<2, 7>>)}
  /\ \E y \in Givens : omega' \in {a \in Answers(alpha', ToRows(y)) : ~Refused(a)}
  /\ UNCHANGED lang

(* The sentence is over. *)
Finish ==
  /\ alpha # NotGiven
  /\ alpha' = NotGiven /\ omega' = NotGiven
  /\ UNCHANGED lang

Next == Give \/ Answer \/ Finish
Spec == Init /\ [][Next]_given
=============================================================================
