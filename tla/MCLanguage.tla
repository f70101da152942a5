----------------------------- MODULE MCLanguage -----------------------------
(* Texts of every kind the J parser reads: sentences of a few words, phrases *)
(* with a phrase for an operand, scripts of a few lines, bodies of x and y,  *)
(* and bodies of control words.                                              *)
EXTENDS AplLaws

V(w) == VerbFrag(Named(w))
N(n) == Quoted(Scalar("int", n))
Nm(h) == NameFrag(Bare(h))
Loc(h, l) == NameFrag(<<h, l>>)
Quiet == what = "nothing"
Spelt(alphabet, ixs) == [i \in DOMAIN ixs |-> alphabet[ixs[i]]]
Upto(alphabet, n) == UNION {[1 .. k -> DOMAIN alphabet] : k \in 1 .. n}

(* Every sentence of four of these words. *)
Alphabet == <<V("+"), V("-"), Cap, N(3), Nm("a"), AdverbFrag("/"), ConjFrag("@:"), ConjFrag("&"), Global, LParen, RParen>>

(* A phrase, or a train, that is an operand or a tine of another.           *)
Atoms == <<V("+"), V(">"), V("|."), N(3), Quoted(Ints(<<0, 1, 2>>))>>
Conjs == <<"\"", "@:", "@", "&", "&:", "&.:", "^:", ";.", "!.", "::", "tie", "@.", "L:", "F.:", ":", "evoke">>
Advs  == <<"/", "\\", "~", "/.", "}">>
Around2(inner, i, j) == {inner \o <<Atoms[i], Atoms[j]>>, <<Atoms[i]>> \o inner \o <<Atoms[j]>>, <<Atoms[i], Atoms[j]>> \o inner}
ReadPhrase ==
  /\ Quiet /\ what' = "sentence"
  /\ \E i, j, k \in DOMAIN Atoms :
       \/ \E c \in DOMAIN Conjs :
            LET inner == Bracketed(<<Atoms[i], ConjFrag(Conjs[c]), Atoms[j]>>) atom == <<Atoms[k]>>
            IN  \/ \E d \in DOMAIN Conjs : LET conj == <<ConjFrag(Conjs[d])>> IN text' \in {inner \o conj \o atom, atom \o conj \o inner}
                \/ \E a \in DOMAIN Advs : text' = inner \o <<AdverbFrag(Advs[a])>>
                \/ text' \in {inner \o atom, atom \o inner}
                \/ i # j /\ text' \in Around2(inner, k, 1)
       \/ \E l, m \in 1 .. 4 :
            \/ text' \in Around2(Bracketed(<<Atoms[i], Atoms[j]>>), k, l)
            \/ text' \in Around2(Bracketed(<<Atoms[i], Atoms[j], Atoms[m]>>), k, l)

(* Scripts of three lines. *)
Lines == <<
  <<Nm("a"), Global, N(3)>>, <<Nm("a"), Global, V("+")>>, <<Nm("b"), Global, Nm("a")>>, <<Nm("a"), Global, AdverbFrag("/")>>,
  <<Nm("a"), Local, N(1), V("+"), Nm("b"), Local, N(4)>>, <<Loc("a", "z"), Global, V("-")>>, <<Loc("b", "p"), Global, N(2)>>,
  <<Nm("cocurrent"), Quoted(Arr("names", <<1>>, <<Bare("p")>>))>>, <<Nm("cocurrent"), Global, N(5)>>,
  <<Quoted(Arr("names", <<2>>, <<Bare("a"), Bare("b")>>)), Global, N(5)>>, <<Loc("a", "base"), Global, Nm("b"), V("-"), N(1)>>,
  <<Nm("b"), Global, V("+"), Nm("a")>>, <<Nm("b"), Global, N(3), ConjFrag(":"), N(0)>>, <<RParen>>,
  <<Nm("a"), Global, N(1), ConjFrag(":"), Quoted(Source(<<Nm("u"), ConjFrag("@:"), Nm("b")>>))>>>>

(* Bodies of x and y. *)
BodyWords == <<Nm("x"), Nm("y"), V("-"), V("+"), V("<"), V("#"), N(2), LParen, RParen>>
Arguments == {<<Scalar("int", 3), Scalar("int", 5)>>, <<Ints(<<2, 7>>), Ints(<<1, 4>>)>>}

(* Bodies of control words, and longer ones with a word left out.           *)
Said1 == Sentence(<<N(1)>>)
Controls == <<Said1, CW("if."), CW("do."), CW("else."), CW("elseif."), CW("end."), CW("while."), CW("break.")>>
Others1 == <<Said1, CW("select."), CW("case."), CW("fcase."), CW("do."), CW("try."), CW("catch."), CW("catcht."), CW("end."), CW("for.")>>
If1(inner) == <<CW("if."), Said1, CW("do.")>> \o inner
Long == <<
  If1(If1(<<Said1, CW("end."), CW("else."), Said1, CW("end.")>>)),
  If1(<<CW("elseif."), Said1, CW("do."), CW("for."), Said1, CW("do."), CW("break."), CW("end."), CW("else."), CW("end.")>>),
  <<CW("select."), Said1, CW("fcase."), CW("do."), Said1, CW("case."), Said1, CW("do.")>> \o If1(<<CW("end."), CW("end."), Said1>>),
  <<CW("try."), Said1, CW("catch."), CW("try."), CW("catcht."), Said1, CW("end."), CW("catcht."), Said1, CW("end.")>>,
  <<CW("while.")>> \o If1(<<Said1, CW("end."), CW("do."), CW("whilst."), Said1, CW("do."), CW("end."), CW("end.")>>)>>
Changed(l) == {l} \cup {First(i - 1, l) \o After(i, l) : i \in DOMAIN l}
              \cup {[l EXCEPT ![i] = CW(w)] : i \in DOMAIN l, w \in {"end.", "do.", "else.", "case."}}

Init == what = "nothing" /\ text = <<>> /\ alpha = Scalar("int", 3) /\ omega = Scalar("int", 5) /\ lang = "J"

Hear(kind, t) == what' = kind /\ text' = t
(* APL: every text of four of these words, and longer ones with a word left *)
(* out or replaced, or a pair put around some of them.                      *)
A1(w) == VerbFrag(VerbFor(w))
O1(w) == OpTok(w)
K(n) == ValueTok(Scalar("int", n))
List1 == NumsTok(Ints(<<1, 2>>))
Plus1 == A1("plus")
Flip1 == A1("circle_stile")
AplWords == <<Plus1, A1("iota"), List1, Nm("a"), O1("slash"), O1("jot"), O1("power"), LParen, RParen, Gets, LBracket, RBracket>>
LongApl == <<
  <<List1, Plus1, O1("dot"), Plus1, O1("slash"), List1, Nm("a")>>,
  <<Nm("a"), O1("slash"), Nm("b"), Plus1, O1("slash"), O1("each"), Nm("a")>>,
  <<Nm("a"), Gets, LParen, Plus1, O1("slash"), Flip1, Plus1, RParen>>,
  <<Nm("a"), Gets, K(3), Plus1, Nm("b"), LBracket, List1, RBracket, Gets, K(2)>>,
  <<Nm("a"), LBracket, K(1), Semi, Nm("b"), RBracket, K(3)>>,
  <<Nm("a"), LBracket, Semi, K(1), RBracket, Gets, Flip1, K(3)>>,
  <<Plus1, O1("slash"), LBracket, K(1), RBracket, Nm("b"), Plus1, K(2)>>,
  <<K(3), Flip1, LBracket, Nm("a"), RBracket, List1, Flip1, K(1)>>,
  <<Plus1, O1("power"), LParen, K(1), Plus1, K(1), RParen, List1>>,
  <<O1("jotdot"), Plus1, O1("commute"), O1("jot"), Flip1, K(2), Nm("b")>>,
  <<Plus1, O1("rank"), List1, O1("jot"), K(1), Nm("a")>>,
  <<LParen, Nm("a"), Nm("b"), RParen, Gets, List1, K(3)>>,
  <<Nm("a"), List1, Word("quad"), Gets, K(3), LBracket, K(1), RBracket>>,
  <<LParen, K(3), Plus1, Flip1, RParen, O1("backslash"), K(2)>>>>
Paired1(l) == {First(i - 1, l) \o <<LParen>> \o SubSeq(l, i, j) \o <<RParen>> \o After(j, l) : i, j \in DOMAIN l}
AplChanged(l) == {l} \cup {First(i - 1, l) \o After(i, l) : i \in DOMAIN l} \cup Paired1(l)
                 \cup {[l EXCEPT ![i] = AplWords[w]] : i \in DOMAIN l, w \in DOMAIN AplWords}
ReadApl == Quiet /\ \/ \E s \in Upto(AplWords, 4) : \E kind \in {"apl", "plain"} : Hear(kind, Spelt(AplWords, s))
                    \/ \E i \in DOMAIN LongApl : \E l \in AplChanged(LongApl[i]) : Hear("apl", l)

(* Every text of four of these words about a function or an operator f.     *)
CallWords == <<Nm("f"), Plus1, K(3), Nm("a"), O1("slash"), O1("commute"), Nm("omega"), LParen, RParen, LBrace, RBrace, Separator, Gets, LBracket, RBracket>>
Calling == <<
  <<LBrace, Nm("f"), Nm("omega"), Separator, Nm("a"), Gets, Plus1, Separator, K(3), Nm("a"), Nm("f"), Nm("omega"), RBrace, K(3)>>,
  <<LBrace, Nm("b"), Gets, Nm("f"), Plus1, Separator, Nm("omega"), Colon, Nm("b"), K(3), RBrace>>,
  <<Nm("a"), Nm("f"), O1("slash"), LBracket, K(1), RBracket, LParen, Nm("f"), Plus1, RParen, Nm("f"), K(3)>>,
  <<Nm("a"), Gets, LParen, Plus1, Nm("f"), Plus1, RParen, Nm("f"), K(3)>>>>
ReadCalls == Quiet /\ \E kind \in {"called", "dyalog"} :
               \/ \E s \in Upto(CallWords, 3) : Hear(kind, Spelt(CallWords, s))
               \/ \E i \in DOMAIN Calling : \E l \in {Calling[i]} \cup Paired1(Calling[i]) : Hear(kind, l)
               \/ \E i \in DOMAIN Calling : \E j \in DOMAIN Calling[i], w \in DOMAIN CallWords : Hear(kind, [Calling[i] EXCEPT ![j] = CallWords[w]])
ReadSentence == Quiet /\ \E s \in Upto(Alphabet, 4) : Hear("sentence", Spelt(Alphabet, s))
ReadLines    == Quiet /\ \E s \in Upto(Lines, 3) : Hear("script", Spelt(Lines, s))
ReadTacit    == Quiet /\ \E s \in Upto(BodyWords, 4) : Hear("tacit", Spelt(BodyWords, s))
ReadControls == Quiet /\ \/ \E s \in Upto(Controls, 5) : Hear("body", Spelt(Controls, s))
                         \/ \E s \in Upto(Others1, 4) : Hear("body", Spelt(Others1, s))
                         \/ \E i \in DOMAIN Long : \E l \in Changed(Long[i]) : Hear("body", l)
Finish == ~Quiet /\ what' = "nothing" /\ text' = <<>> /\ alpha' = Scalar("int", 3) /\ omega' = Scalar("int", 5)

Next == \/ (ReadSentence \/ ReadApl \/ ReadCalls \/ ReadPhrase \/ ReadLines \/ ReadControls) /\ UNCHANGED given
        \/ ReadTacit /\ (\E g \in Arguments : alpha' = g[1] /\ omega' = g[2]) /\ UNCHANGED lang
        \/ Finish /\ UNCHANGED lang
Spec == Init /\ [][Next]_<<given, reading>>
=============================================================================
