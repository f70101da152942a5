----------------------------- MODULE JModifiers -----------------------------
(***************************************************************************)
(* What J's adverbs and conjunctions make of their operands while a        *)
(* sentence is read (frontend/j.rs), and how a verb is written back as the *)
(* words that build it again (gerund.rs).                                  *)
(***************************************************************************)
EXTENDS Verbs

(* A fragment is one word of a sentence, or what some words became.         *)
Literal(a)   == [e |-> "const", a |-> a]
NameRead(n)  == [e |-> "name", name |-> n]
NounFrag(e)  == [k |-> "noun", e |-> e]
Quoted(a)    == NounFrag(Literal(a))
NameFrag(n)  == [k |-> "name", name |-> n]
VerbFrag(v)  == [k |-> "verb", v |-> v]
AdverbFrag(m) == [k |-> "adverb", m |-> m]
ConjFrag(m)  == [k |-> "conj", m |-> m]
Cap          == [k |-> "cap"]
Word(k)      == [k |-> k]
LParen       == Word("lparen")
RParen       == Word("rparen")

IsEdge(f)     == f.k \in {"mark", "local", "global", "lparen"}
IsAssign(f)   == f.k \in {"local", "global"}
IsRealVerb(f) == f.k = "verb"
IsVerb(f)     == f.k \in {"verb", "cap"}
IsNoun(f)     == f.k \in {"noun", "name"}
IsAvn(f)      == f.k \in {"adverb", "verb", "cap", "noun", "name"}
IsCavn(f)     == f.k = "conj" \/ IsAvn(f)

(***************************************************************************)
(* What the sentences so far said of the names.  A name is a head and the  *)
(* locale it is written with, none for a bare one; a frame's own names     *)
(* belong to no locale.                                                    *)
(***************************************************************************)
NoNames == [x \in {} |-> x]
CoVerb(name) == Prim(name, "CoCurrent", "None", Same3(Inf), 0)
BaseScope == [current |-> "base", locals |-> {}, inner |-> FALSE, mods |-> NoNames, nouns |-> {}, consts |-> NoNames,
              verbs |-> [k \in {"cocurrent", "coclass"} \X {"z"} |-> CoVerb(k[1])], assigned |-> {}, deriving |-> <<>>]
Bare(head) == <<head, "">>
KeyOf(scope, n) ==
  IF n \in scope.locals \/ n[2] = "base" THEN <<n[1], "base">>
  ELSE IF n[2] = "" THEN <<n[1], scope.current>> ELSE n
LookupKeys(scope, n) ==
  LET own == KeyOf(scope, n) IN IF n \in scope.locals \/ own[2] = "z" THEN <<own>> ELSE <<own, <<n[1], "z">>>>
Lookup(scope, table, n, missing) ==
  LET keys == SelectSeq(LookupKeys(scope, n), LAMBDA k : k \in DOMAIN table)
  IN  IF keys = <<>> THEN missing ELSE table[keys[1]]
VerbNamed(scope, n) == Lookup(scope, scope.verbs, n, NoVerb)
ModNamed(scope, n)  == Lookup(scope, scope.mods, n, Declined)
ConstNamed(scope, n) == Lookup(scope, scope.consts, n, Declined)
IsNamedNoun(scope, n) == \E i \in DOMAIN LookupKeys(scope, n) : LookupKeys(scope, n)[i] \in scope.nouns
MayBeAVerb(scope, n) == ~IsNamedNoun(scope, n) /\ n \notin scope.assigned

(***************************************************************************)
(* Noun operands.  An expression of literals is worth its value; one that  *)
(* reads a name waits for the program.                                     *)
(***************************************************************************)
MonadNow(op, y) ==
  CASE op \in Monads -> ScalarMonad(op, y)
    [] op = "Enclose" -> Enclose(y, IF lang = "J" THEN "always" ELSE "simple")
    [] op = "Ravel" -> Reshaped(y, <<Count(y)>>)
    [] OTHER -> Declined
DyadNow(v, x, y) ==
  CASE ScalarOf(v) # None -> ScalarDyad(ScalarOf(v), FALSE, x, y)
    [] v.dyad = "Link" -> Link(x, y)
    [] v.dyad = "AppendLeading" -> Catenate(x, y, TRUE)
    [] v.dyad = "Reshape" -> Reshape(x, y, TRUE)
    [] OTHER -> Declined
RECURSIVE Settled1(_)
Settled1(e) ==
  CASE e.e = "const" -> e.a
    [] e.e = "monad" -> IF e.v.form # "Prim" THEN Declined ELSE Then(Settled1(e.y), LAMBDA y : MonadNow(e.v.monad, y))
    [] e.e = "dyad" -> IF e.v.form # "Prim" THEN Declined ELSE Both(Settled1(e.x), Settled1(e.y), LAMBDA x, y : DyadNow(e.v, x, y))
    [] OTHER -> Declined
Const(f) == IF f.k # "noun" THEN Declined ELSE IF f.e.e = "const" THEN f.e.a ELSE Declined
NounValue(f) ==
  IF f.k # "noun" THEN Declined ELSE LET a == Settled1(f.e) IN IF Refused(a) THEN Declined ELSE a
NounExpr(f) == IF f.k = "noun" THEN f.e ELSE NameRead(f.name)
NounInScope(f, scope) == IF f.k = "name" THEN ConstNamed(scope, f.name) ELSE NounValue(f)
VerbOperand(f) == IF IsNoun(f) THEN Refusal("domain") ELSE IF f.k = "verb" THEN f.v ELSE Refusal("internal")

(* A derived verb whose operand is still to be read.                        *)
Deferred(e, f, build) == [form |-> "Deferred", n |-> e, f |-> f, build |-> build]
Undefined(n) == VerbFrag(Deferred(NameRead(n), Named("]"), "undefined"))
ConstantVerb(n) == NounFork(n, Named("["), Named("]"))

Numeric(a) == a.type \in NumTypes
OneAtom(f) == \* the whole number a specification holds
  IF Refused(Const(f)) THEN Refusal("notyet")
  ELSE LET a == Const(f) IN IF ~Numeric(a) \/ Count(a) # 1 THEN Refusal("parse") ELSE a
Triple(r) == CASE Len(r) = 1 -> Same3(r[1]) [] Len(r) = 2 -> <<r[2], r[1], r[2]>> [] OTHER -> r
RankSpec(f) ==
  LET a == Const(f)
  IN  IF Refused(a) THEN Refusal("notyet")
      ELSE IF ~Numeric(a) \/ Count(a) \notin 1 .. 3 THEN Refusal("parse") ELSE Ints(Triple(ToRows(a).data))
LevelSpec(f) ==
  LET a == Const(f)
  IN  CASE Refused(a) -> Refusal("notyet")
        [] ~Refused(a) /\ Rank(a) > 1 -> Refusal("rank")
        [] ~Refused(a) /\ Rank(a) < 2 /\ ~Numeric(a) -> Refusal("domain")
        [] OTHER -> IF Count(a) \in 1 .. 3 THEN Ints(Triple(a.data)) ELSE Refusal("length")
PowerSpec(u, a) ==
  LET inner == a.data[1]
  IN  CASE a.type = "box" ->
             IF Count(a) # 1 THEN Refusal("parse")
             ELSE IF Count(inner) = 0 THEN Power(u, "trace", 0)
             ELSE IF ~Numeric(inner) THEN Refusal("parse")
             ELSE IF Count(inner) > 1 THEN Refusal("notyet")
             ELSE IF inner.data[1] = 0 THEN Refusal("domain") ELSE Power(u, "traced", inner.data[1])
        [] a.type # "box" /\ ~Numeric(a) -> Refusal("parse")
        [] a.type # "box" /\ Numeric(a) /\ Count(a) = 0 -> Refusal("notyet")
        [] OTHER -> IF Count(a) > 1 THEN Power(u, "each", ToRows(a).data)
                    ELSE IF a.data[1] = Inf THEN Power(u, "converge", 0)
                    ELSE IF a.data[1] < 0 THEN Power(u, "inverse", -a.data[1]) ELSE Power(u, "times", a.data[1])

(***************************************************************************)
(* Trains.                                                                 *)
(***************************************************************************)
AsTrainPart(f, scope) == IF f.k = "name" /\ MayBeAVerb(scope, f.name) THEN Undefined(f.name) ELSE f
NounFork1(n, g, h, scope) ==
  LET a == NounInScope(n, scope)
  IN  IF n.k = "name" /\ ~IsNamedNoun(scope, n.name) THEN Refusal("value")
      ELSE VerbFrag(IF Refused(a) THEN Deferred(NounExpr(n), NounFork(Scalar("int", 0), g, h), "fork") ELSE NounFork(a, g, h))
ForkSwapped(f, g, h, scope) == \* mutant of ForkOf: the outer verbs change places
  VerbFrag(Fork(h.v, g.v, f.v))
ForkOf(f, g, h, scope) ==
  LET l == AsTrainPart(f, scope)
  IN  Both(VerbOperand(AsTrainPart(g, scope)), VerbOperand(AsTrainPart(h, scope)), LAMBDA gv, hv :
        CASE l.k = "cap" -> VerbFrag(AtopCap(gv, hv))
          [] l.k = "verb" -> VerbFrag(Fork(l.v, gv, hv))
          [] OTHER -> NounFork1(l, gv, hv, scope))
Bident(a, b, scope) ==
  LET l == IF IsRealVerb(b) THEN AsTrainPart(a, scope) ELSE a
  IN  IF l.k = "name" /\ MayBeAVerb(scope, l.name) THEN Refusal("value")
      ELSE IF IsRealVerb(l) /\ IsRealVerb(b) THEN VerbFrag(Two("Hook", l.v, b.v)) ELSE Refusal("parse")
(* Verbs in a row: the last three are a fork until three are left.          *)
RECURSIVE TrainOf(_)
TrainOf(vs) ==
  LET n == Len(vs) fork == ForkOf(VerbFrag(vs[n - 2]), VerbFrag(vs[n - 1]), VerbFrag(vs[n]), BaseScope)
  IN  CASE n = 1 -> VerbFrag(vs[1])
        [] n = 2 -> Bident(VerbFrag(vs[1]), VerbFrag(vs[2]), BaseScope)
        [] n = 3 -> fork
        [] OTHER -> Then(fork, LAMBDA f : TrainOf(Append(First(n - 3, vs), f.v)))
(***************************************************************************)
(* The atomic representation of a verb: the verb as data.                  *)
(***************************************************************************)
NoAr              == [ar |-> "none"]
ArPrim(word)      == [ar |-> "prim", word |-> word]
ArNoun(a)         == [ar |-> "noun", a |-> a]
ArDerived(word, ops) == IF \E i \in DOMAIN ops : ops[i].ar = "none" THEN NoAr ELSE [ar |-> "derived", word |-> word, ops |-> ops]
ArTrain(ops)      == IF \E i \in DOMAIN ops : ops[i].ar = "none" THEN NoAr ELSE [ar |-> "train", ops |-> ops]
HeldAr(ar)         == Arr("ar", <<>>, <<ar>>)
FromArray(a) ==
  CASE a.type = "ar" -> a.data[1]
    [] a.type = "char" -> IF Rank(a) > 1 THEN NoAr ELSE ArPrim("text")
    [] OTHER -> NoAr
GerundArray(ars) ==
  IF \E i \in DOMAIN ars : ars[i].ar = "none" THEN Declined
  ELSE Arr("box", <<Len(ars)>>, [i \in DOMAIN ars |-> HeldAr(ars[i])])
IsGerund(a) == a.type = "box" /\ a.data # <<>> /\ \A i \in DOMAIN a.data : FromArray(a.data[i]).ar # "none"
ArGerund(ars) == LET a == GerundArray(ars) IN IF Refused(a) THEN NoAr ELSE ArNoun(a)

(* A verb under another is told from any other composition by the NAME of   *)
(* the obverse, which says nothing of the nouns the verb holds.             *)
Nameless == {"Constant", "NounFork", "BondLeft", "BondRight", "Amend", "ShiftFill"}
RECURSIVE NameOf(_)
NameOf(v) ==
  IF v.form = "Rank" /\ v.n = VerbRanks(v.f) THEN NameOf(v.f)
  ELSE [part \in DOMAIN v |->
    CASE part \in {"f", "g", "h"} -> NameOf(v[part])
      [] part = "vs" -> [i \in DOMAIN v.vs |-> NameOf(v.vs[i])]
      [] part = "n" -> IF v.form \in Nameless THEN <<v.form>>
                       ELSE IF v.form = "PowerN" THEN <<v.form, v.n.by, v.n.n>> ELSE <<v.form, v.n>>
      [] OTHER -> v[part]]
OneWord == [Reduce |-> "/", Commute |-> "~", Memo |-> "M.", Key |-> "/.", Characteristics |-> "b.", AmendVerb |-> "}"]
TwoWord == [PowerV |-> "^:", Compose |-> "&:", Adverse |-> "::", WithObverse |-> ":.", Ambivalent |-> ":"]
NounWord == [Cut |-> ";.", Fit |-> "!.", Fill |-> "!."]
FoldWord(n) == CASE ~n.multiple /\ ~n.reverse -> "F.." [] ~n.multiple /\ n.reverse -> "F.:"
                 [] n.multiple /\ ~n.reverse -> "F:." [] OTHER -> "F::"
PowerNoun(p) ==
  CASE p.by = "times" -> Scalar("int", p.n)
    [] p.by = "inverse" -> Scalar("int", -p.n)
    [] p.by = "converge" -> Scalar("int", Inf)
    [] p.by = "each" -> Ints(p.n)
    [] p.by = "trace" -> Box(Empty("int", <<0>>))
    [] OTHER -> Box(Scalar("int", p.n))
RankNounShort(r) == \* mutant of RankNoun: two ranks are written where three differ
  CASE r = Same3(r[1]) -> Scalar("int", r[1]) [] OTHER -> Ints(<<r[2], r[3]>>)
RankNoun(r) == CASE r = Same3(r[1]) -> Scalar("int", r[1]) [] r # Same3(r[1]) /\ r[1] = r[3] -> Ints(<<r[2], r[3]>>) [] OTHER -> Ints(r)
RECURSIVE VerbAr(_)
UnderAr(f, g, word) ==
  IF g.form # "Compose" THEN NoAr
  ELSE IF ~Known(Obverse(g.g)) THEN NoAr
  ELSE IF NameOf(Obverse(g.g)) # NameOf(f) THEN NoAr ELSE ArDerived(word, <<VerbAr(g.f), VerbAr(g.g)>>)
RankAr(f, r) ==
  LET under == IF f.form # "Atop" THEN NoAr
               ELSE IF f.g.form = "Compose" /\ f.n = "at" /\ r = Same3(VerbRanks(f.g.g)[1]) THEN UnderAr(f.f, f.g, "&.") ELSE NoAr
      ranked == ArNoun(RankNoun(r))
  IN  CASE under # NoAr -> under
        [] under = NoAr /\ f.form = "Cycle" /\ Len(f.vs) > 1 -> \* the data itself stands before the rank
             LET parts == [i \in DOMAIN f.vs |-> VerbAr(f.vs[i])]
             IN  IF \E i \in DOMAIN parts : parts[i].ar # "prim" THEN NoAr
                 ELSE ArDerived("\"", <<[ar |-> "direct", of |-> ArGerund(parts)], ranked>>)
        [] f.form = "Constant" -> ArDerived("\"", <<ArNoun(f.n), ranked>>)
        [] under = NoAr /\ f.form = "Atop" /\ f.n = "at" /\ r = VerbRanks(f.g) -> ArDerived("@", <<VerbAr(f.f), VerbAr(f.g)>>)
        [] f.form = "Compose" /\ r = Same3(VerbRanks(f.g)[1]) -> ArDerived("&", <<VerbAr(f.f), VerbAr(f.g)>>)
        [] f.form = "BondLeft" /\ r = Same3(VerbRanks(f.f)[3]) -> ArDerived("&", <<ArNoun(f.n), VerbAr(f.f)>>)
        [] f.form = "BondRight" /\ r = Same3(VerbRanks(f.f)[2]) -> ArDerived("&", <<VerbAr(f.f), ArNoun(f.n)>>)
        [] OTHER -> IF r = VerbRanks(f) THEN VerbAr(f) ELSE ArDerived("\"", <<VerbAr(f), ranked>>)
VerbAr(v) ==
  LET all(vs) == [i \in DOMAIN vs |-> VerbAr(vs[i])]
      under == UnderAr(v.f, v.g, "&.:")
  IN  CASE v.form = "Prim" -> IF v.name = "b." THEN NoAr ELSE ArPrim(v.name)
        [] v.form = "Constant" -> ArNoun(v.n)
        [] v.form = "Rank" -> RankAr(v.f, v.n)
        [] v.form \in DOMAIN OneWord -> ArDerived(OneWord[v.form], <<VerbAr(v.f)>>)
        [] v.form \in DOMAIN TwoWord -> ArDerived(TwoWord[v.form], <<VerbAr(v.f), VerbAr(v.g)>>)
        [] v.form = "Windowed" -> IF v.n = "scan" THEN NoAr ELSE ArDerived(IF v.n = "suffix" THEN "\\." ELSE "\\", <<VerbAr(v.f)>>)
        [] v.form = "PowerN" -> ArDerived("^:", <<VerbAr(v.f), ArNoun(PowerNoun(v.n))>>)
        [] v.form = "Cut" -> ArDerived(";.", <<VerbAr(v.f), ArNoun(Scalar("int", v.n))>>)
        [] v.form \in {"Fit", "Fill"} -> ArDerived("!.", <<VerbAr(v.f), ArNoun(v.n)>>)
        [] v.form = "Fork" -> ArTrain(<<VerbAr(v.f), VerbAr(v.g), VerbAr(v.h)>>)
        [] v.form = "NounFork" -> ArTrain(<<ArNoun(v.n), VerbAr(v.f), VerbAr(v.g)>>)
        [] v.form = "Hook" -> ArTrain(<<VerbAr(v.f), VerbAr(v.g)>>)
        [] v.form = "Atop" -> IF v.n = "cap" THEN ArTrain(<<ArPrim("[:"), VerbAr(v.f), VerbAr(v.g)>>)
                              ELSE IF under # NoAr THEN under ELSE ArDerived("@:", <<VerbAr(v.f), VerbAr(v.g)>>)
        [] v.form = "BondLeft" -> ArDerived("&", <<ArNoun(v.n), VerbAr(v.f)>>)
        [] v.form = "BondRight" -> ArDerived("&", <<VerbAr(v.f), ArNoun(v.n)>>)
        [] v.form = "Each" -> IF v.n = "always" THEN ArDerived("&.", <<VerbAr(v.f), ArPrim(">")>>) ELSE NoAr
        [] v.form = "UnderRavel" -> ArDerived("&.", <<VerbAr(v.f), ArPrim(",")>>)
        [] v.form = "Amend" -> ArDerived("}", <<ArNoun(v.n)>>)
        [] v.form = "AmendGerund" -> ArDerived("}", <<ArGerund(all(v.vs))>>)
        [] v.form = "ShiftFill" -> ArDerived("!.", <<ArPrim("|."), ArNoun(v.n)>>)
        [] v.form = "Level" -> ArDerived(IF v.n.spread THEN "S:" ELSE "L:", <<VerbAr(v.f), ArNoun(RankNoun(v.n.levels))>>)
        [] v.form = "Agenda" -> ArDerived("@.", <<ArGerund(all(v.vs)), VerbAr(v.f)>>)
        [] v.form = "Evoke" -> ArDerived("evoke", <<ArGerund(all(v.vs)), ArNoun(Scalar("int", v.n))>>)
        [] v.form = "Cycle" -> IF Len(v.vs) = 1 THEN VerbAr(v.vs[1]) ELSE ArGerund(all(v.vs))
        [] v.form = "Fold" -> ArDerived(FoldWord(v.n), <<VerbAr(v.f), VerbAr(v.g)>>)
        [] v.form = "Hypergeometric" -> ArDerived("H.", <<ArNoun(v.n.num), ArNoun(v.n.den)>>)
        [] v.form = "Deferred" -> IF v.build = "undefined" THEN [ar |-> "prim", word |-> v.n.name] ELSE NoAr
        [] v.form = "InnerProduct" -> IF v.n = "J" THEN ArDerived(".", <<VerbAr(v.f), VerbAr(v.g)>>) ELSE NoAr
        [] OTHER -> NoAr

(***************************************************************************)
(* And back: the fragment a representation stands for, which the modifiers *)
(* that take a gerund are handed.                                          *)
(***************************************************************************)
WithVerb(f, F(_))       == Then(VerbOperand(f), F)
WithVerbs(f, g, F(_, _)) == Both(VerbOperand(f), VerbOperand(g), F)
RECURSIVE ArFrag(_, _)
ArVerb(a, scope) ==
  LET ar == FromArray(a)
  IN  IF ar.ar = "none" THEN Refusal("domain")
      ELSE Then(ArFrag(ar, scope), LAMBDA f : IF f.k = "verb" THEN f.v ELSE Refusal("internal"))
GerundVerbs(f, scope) ==
  LET a == NounInScope(f, scope)
      read == [i \in DOMAIN a.data |-> ArVerb(a.data[i], scope)]
  IN  IF f.k = "verb" THEN Cycle(<<f.v>>)
      ELSE IF Refused(a) THEN Refusal("notyet")
      ELSE IF a.type # "box" THEN Refusal("domain")
      ELSE IF AnyRefused(read) THEN FirstRefusal(read) ELSE Cycle(read)
GerundOperand(f, scope) == \* one box is data whatever it holds
  LET a == NounInScope(f, scope) IN f.k # "verb" /\ ~Refused(a) /\ Count(a) > 1 /\ IsGerund(a)
TieSide(f, scope) ==
  IF f.k # "verb" THEN (IF Refused(NounInScope(f, scope)) THEN Refusal("notyet") ELSE NounInScope(f, scope))
  ELSE IF VerbAr(f.v).ar = "none" THEN Refusal("notyet") ELSE Box(HeldAr(VerbAr(f.v)))
Tied(u, v, scope) ==
  Both(TieSide(u, scope), TieSide(v, scope), LAMBDA a, b : Then(Catenate(a, b, TRUE), LAMBDA t : Quoted(t)))

(***************************************************************************)
(* Adverbs.                                                                *)
(***************************************************************************)
AmendBy(u, scope) ==
  LET m == NounInScope(u, scope)
      amended(g) == IF Len(g.vs) \in 2 .. 3 THEN VerbFrag([form |-> "AmendGerund", vs |-> g.vs]) ELSE Refusal("notyet")
  IN  IF u.k = "verb" THEN VerbFrag(One("AmendVerb", u.v))
      ELSE IF ~Refused(m) /\ IsGerund(m) THEN Then(GerundVerbs(u, scope), amended)
      ELSE IF ~Refused(NounValue(u)) THEN VerbFrag([form |-> "Amend", n |-> NounValue(u)])
      ELSE IF IsNoun(u) THEN VerbFrag(Deferred(NounExpr(u), NoVerb, "amend")) ELSE Refusal("notyet")
TruthTable(u) ==
  LET a == Const(u)
  IN  IF Refused(a) \/ Count(a) # 1 \/ ~Numeric(a) THEN Refusal("domain")
      ELSE IF a.data[1] \notin -16 .. 34 THEN Refusal("domain")
      ELSE VerbFrag(Prim("b.", "TruthTable", "TruthTable", Same3(0), a.data[1]))
ByAdverb(m, v) ==
  CASE m = "/"  -> One("Reduce", v)
    [] m = "\\" -> With("Windowed", v, "prefix")
    [] m = "\\." -> With("Windowed", v, "suffix")
    [] m = "~"  -> One("Commute", v)
    [] m = "/." -> One("Key", v)
    [] m = "f." -> v
    [] m = "M." -> One("Memo", v)
    [] m = "b." -> One("Characteristics", v)
Adverb(u, m, scope) ==
  LET a == NounInScope(u, scope)
      inner == IF a.type = "box" /\ Rank(a) = 0 THEN a.data[1] ELSE a
      boxed == u.k # "verb" /\ m \in {"/", "\\", "\\.", "/."} /\ ~Refused(a)
  IN  CASE m = "5!:0" -> IF Refused(a) THEN Refusal("notyet")
                         ELSE IF FromArray(inner).ar = "none" THEN Refusal("domain") ELSE ArFrag(FromArray(inner), scope)
        [] m = "}" -> AmendBy(u, scope)
        [] m = "b." /\ u.k # "verb" -> TruthTable(u)
        [] m \notin {"5!:0", "}"} /\ ~(m = "b." /\ u.k # "verb") ->
             IF boxed /\ a.type = "box"
             THEN Then(GerundVerbs(u, scope), LAMBDA g :
                    IF g.vs = <<>> THEN Refusal("domain")
                    ELSE VerbFrag(IF m = "/" THEN [form |-> "Evoke", vs |-> g.vs, n |-> 3] ELSE ByAdverb(m, g)))
             ELSE WithVerb(u, LAMBDA v : VerbFrag(ByAdverb(m, v)))

(***************************************************************************)
(* Conjunctions.                                                           *)
(***************************************************************************)
OwnRanks(w) == [i \in 1 .. 3 |-> IF VerbRanks(w)[i] < 0 THEN Inf ELSE VerbRanks(w)[i]]
RankBy(u, v, scope) ==
  LET value == NounValue(u)
      by(r) == IF ~IsNoun(u) THEN VerbOperand(u)
               ELSE IF r # Same3(Inf) /\ GerundOperand(u, scope) THEN GerundVerbs(u, scope)
               ELSE IF Refused(value) THEN Refusal("notyet") ELSE Constant(value)
  IN  Then(IF IsVerb(v) THEN WithVerb(v, LAMBDA w : Ints(OwnRanks(w))) ELSE RankSpec(v), LAMBDA r :
        Then(by(r.data), LAMBDA f : VerbFrag(Ranked(f, r.data))))
AtopBy(u, v) == \* u@v: at the ranks of v
  LET g == IF ~IsNoun(v) THEN VerbOperand(v) ELSE IF Refused(NounValue(v)) THEN Refusal("notyet") ELSE Constant(NounValue(v))
  IN  IF IsNoun(u) THEN Refusal("domain") ELSE Both(VerbOperand(u), g, LAMBDA f, h : VerbFrag(Ranked(AtopAt(f, h), VerbRanks(h))))
BondBy(n, f, left) ==
  LET a == Const(n)
  IN  WithVerb(f, LAMBDA v :
        IF Refused(a) THEN VerbFrag(Deferred(NounExpr(n), v, IF left THEN "bond_left" ELSE "bond_right"))
        ELSE VerbFrag(IF left THEN BondLeft(a, v) ELSE BondRight(v, a)))
ComposeBy(u, v, infinite) ==
  IF infinite \/ (~IsNoun(u) /\ ~IsNoun(v))
  THEN WithVerbs(u, v, LAMBDA f, g :
         VerbFrag(IF infinite THEN Two("Compose", f, g) ELSE Ranked(Two("Compose", f, g), Same3(VerbRanks(g)[1]))))
  ELSE IF IsNoun(u) /\ IsNoun(v) THEN Refusal("domain")
  ELSE IF IsNoun(u) THEN BondBy(u, v, TRUE) ELSE BondBy(v, u, FALSE)
IsPrimNamed(f, word) == f.k = "verb" /\ f.v.form = "Prim" /\ f.v.name = word
UnderBy(u, v, infinite) ==
  LET under(f, g) == AtopAt(Obverse(g), Two("Compose", f, g))
  IN  IF ~infinite /\ IsPrimNamed(v, ">") THEN WithVerb(u, LAMBDA f : VerbFrag(With("Each", f, "always")))
      ELSE IF ~infinite /\ IsPrimNamed(v, ",") THEN WithVerb(u, LAMBDA f : VerbFrag(One("UnderRavel", f)))
      ELSE WithVerbs(u, v, LAMBDA f, g :
             IF ~Known(Obverse(g)) THEN Refusal("domain")
             ELSE VerbFrag(IF infinite THEN under(f, g) ELSE Ranked(under(f, g), Same3(VerbRanks(g)[1]))))
PowerBy1(u, v) ==
  LET a == NounValue(v)
  IN  IF IsVerb(v) THEN WithVerbs(u, v, LAMBDA f, g : VerbFrag(Two("PowerV", f, g)))
      ELSE WithVerb(u, LAMBDA f :
             IF Refused(a) THEN VerbFrag(Deferred(NounExpr(v), f, "power")) ELSE Then(PowerSpec(f, a), LAMBDA p : VerbFrag(p)))
CutBy(u, v, scope) ==
  LET gerund == GerundOperand(u, scope)
  IN  Both(IF gerund THEN GerundVerbs(u, scope) ELSE VerbOperand(u), OneAtom(v), LAMBDA f, n :
        IF n.data[1] \notin -3 .. 3 THEN Refusal("notyet")
        ELSE IF gerund /\ n.data[1] \in {3, -3} THEN Refusal("domain") ELSE VerbFrag(With("Cut", f, n.data[1])))
TolerantMonads == {"Floor", "Ceil", "Nub", "GradeUp", "GradeDown", "EncodeBits"}
TolerantDyads == Comparisons \cup {"Residue", "Gcd", "Lcm", "Mul", "Match", "NotMatch", "GradeSelectUp", "GradeSelectDown",
                  "Encode", "EncodeApl", "MemberJ", "MemberApl", "IndexOf", "IndexOfLast", "Less", "FindSeq"}
OfTheirVerb == {"Rank", "Reduce", "NWise", "Windowed", "Commute", "PowerN", "BondLeft", "BondRight", "Each", "UnderRavel",
                "Fit", "Fill", "Key", "Cut", "AlongAxis", "Memo", "Level", "WithObverse"}
RECURSIVE UsesTolerance(_)
UsesTolerance(v) ==
  CASE v.form = "Prim" -> v.monad \in TolerantMonads \/ v.dyad \in TolerantDyads
    [] v.form \in OfTheirVerb -> UsesTolerance(v.f)
    [] OTHER -> \E p \in Parts(v) : UsesTolerance(p)
FillTaking == {"{.", "$", ",", ",.", ",:", "#", ";", ">"}
FitBy(u, v) == \* what !. gives the verb: a fill, or the tolerance it compares with, here always exact
  WithVerb(u, LAMBDA f :
    LET word == IF f.form = "Prim" THEN f.name ELSE None
        a == Const(v)
    IN  IF word \in {"/:", "\\:"} THEN Refusal("domain")
        ELSE IF word = "|." THEN (IF Refused(a) THEN Refusal("notyet") ELSE VerbFrag([form |-> "ShiftFill", n |-> a]))
        ELSE IF word \in FillTaking /\ ~Refused(a) /\ Count(a) = 1 THEN VerbFrag(With("Fill", f, a))
        ELSE Then(OneAtom(v), LAMBDA n :
               IF word = "^" THEN VerbFrag(With("Fit", f, n))
               ELSE IF ~UsesTolerance(f) THEN Refusal("domain")
               ELSE IF n.data[1] = 1 /\ word = "i." THEN VerbFrag(f)
               ELSE IF n.data[1] # 0 THEN Refusal("domain") ELSE VerbFrag(With("Fit", f, n))))
AgendaBy(u, v, scope) ==
  LET a == Const(v)
      opened == IF a.type = "box" /\ Count(a) = 1 THEN a.data[1] ELSE a
      train(vs) == LET picked == [i \in DOMAIN opened.data |-> PickGerund(vs, opened.data[i])]
                   IN  IF AnyRefused(picked) THEN FirstRefusal(picked) ELSE TrainOf(picked)
      index(vs) == IF Rank(opened) > 1 THEN Refusal("rank")
                   ELSE IF ~Numeric(opened) THEN Refusal("domain")
                   ELSE IF Rank(opened) = 0 THEN Then(PickGerund(vs, opened.data[1]), LAMBDA w : VerbFrag(w))
                   ELSE IF Count(opened) = 0 THEN Refusal("length")
                   ELSE IF Count(opened) > 3 THEN Refusal("domain") ELSE train(vs)
  IN  Then(GerundVerbs(u, scope), LAMBDA g :
        IF IsVerb(v) THEN WithVerb(v, LAMBDA w : VerbFrag([form |-> "Agenda", vs |-> g.vs, f |-> w]))
        ELSE IF Refused(a) THEN Refusal("notyet") ELSE index(g.vs))
EvokeBy(u, v, scope) ==
  IF IsVerb(u) THEN Refusal("domain")
  ELSE Both(GerundVerbs(u, scope), OneAtom(v), LAMBDA g, n :
         IF g.vs = <<>> THEN Refusal("domain")
         ELSE IF n.data[1] = 6 THEN TrainOf(g.vs)
         ELSE IF n.data[1] \in {0, 3} THEN VerbFrag([form |-> "Evoke", vs |-> g.vs, n |-> n.data[1]]) ELSE Refusal("domain"))
AdverseBy(u, v) ==
  WithVerb(u, LAMBDA f :
    Then(IF ~IsNoun(v) THEN VerbOperand(v) ELSE IF Refused(Const(v)) THEN Refusal("notyet") ELSE ConstantVerb(Const(v)),
         LAMBDA g : VerbFrag(Two("Adverse", f, g))))
FoldForm == [x \in {"F..", "F.:", "F:.", "F::"} |-> [multiple |-> x \in {"F:.", "F::"}, reverse |-> x \in {"F.:", "F::"}]]
FoldStopBy(u, v) ==
  LET a == NounValue(u)
  IN  IF Refused(a) THEN Refusal("notyet")
      ELSE IF Rank(a) # 0 \/ ~Numeric(a) THEN Refusal("parse")
      ELSE WithVerb(v, LAMBDA g : VerbFrag(With("FoldStop", g, a.data[1])))
Series(f) ==
  LET a == NounValue(f)
  IN  IF Refused(a) THEN Refusal("notyet") ELSE IF Count(a) > 0 /\ (Rank(a) > 1 \/ ~Numeric(a)) THEN Refusal("parse") ELSE a
Threads == {"T.", "t."}
Conj(u, m, v, scope) ==
  LET two(form) == WithVerbs(u, v, LAMBDA f, g : VerbFrag(Two(form, f, g)))
  IN  CASE m = "\"" -> RankBy(u, v, scope)
        [] m = "@:" -> WithVerbs(u, v, LAMBDA f, g : VerbFrag(AtopAt(f, g)))
        [] m = "@"  -> AtopBy(u, v)
        [] m \in {"&", "&:"} -> ComposeBy(u, v, m = "&:")
        [] m \in {"&.", "&.:"} -> UnderBy(u, v, m = "&.:")
        [] m = "^:" -> PowerBy1(u, v)
        [] m = ";." -> CutBy(u, v, scope)
        [] m = "!." -> FitBy(u, v)
        [] m = ":." -> two("WithObverse")
        [] m = "@." -> AgendaBy(u, v, scope)
        [] m = "tie" -> Tied(u, v, scope)
        [] m = "::" -> AdverseBy(u, v)
        [] m \in {"L:", "S:"} -> Both(VerbOperand(u), LevelSpec(v), LAMBDA f, r :
             VerbFrag(With("Level", f, [levels |-> r.data, spread |-> m = "S:"])))
        [] m = "evoke" -> EvokeBy(u, v, scope)
        [] m \in DOMAIN FoldForm -> WithVerbs(u, v, LAMBDA f, g : VerbFrag(Two("Fold", f, g) @@ [n |-> FoldForm[m]]))
        [] m = "Z:" -> FoldStopBy(u, v)
        [] m = "H." -> Both(Series(u), Series(v), LAMBDA num, den :
             VerbFrag([form |-> "Hypergeometric", n |-> [num |-> num, den |-> den]]))
        [] m \in Threads -> Refusal("sandbox")
        [] m = "t:" -> Refusal("language")
        [] m = "." -> WithVerbs(u, v, LAMBDA f, g : VerbFrag(Two("InnerProduct", f, g) @@ [n |-> "J"]))
        [] m = ":" -> two("Ambivalent")

(* A derived representation names one modifier and as many operands as it   *)
(* takes; a train is two or three parts.                                    *)
Adverbs == {"/", "\\", "\\.", "~", "/.", "f.", "M.", "b.", "}"}
ArFrag(ar, scope) ==
  LET read == [i \in DOMAIN ar.ops |-> ArFrag(ar.ops[i], scope)]
      n == Len(ar.ops)
      of(F) == IF AnyRefused(read) THEN FirstRefusal(read) ELSE F
  IN  CASE ar.ar = "direct" -> ArFrag(ar.of, scope)
        [] ar.ar = "noun" -> Quoted(ar.a)
        [] ar.ar = "prim" -> IF ar.word = "[:" THEN Cap
                             ELSE IF Known(Named(ar.word)) THEN VerbFrag(Named(ar.word)) ELSE Refusal("domain")
        [] ar.ar = "train" -> of(IF n = 2 THEN Bident(read[1], read[2], scope)
                                 ELSE IF n = 3 THEN ForkOf(read[1], read[2], read[3], scope) ELSE Refusal("domain"))
        [] ar.ar = "derived" ->
             of(IF n # (IF ar.word \in Adverbs THEN 1 ELSE 2) THEN Refusal("domain")
                ELSE IF n = 1 THEN Adverb(read[1], ar.word, scope) ELSE Conj(read[1], ar.word, read[2], scope))

(***************************************************************************)
(* The words a verb is written with.  A word and a phrase that a modifier  *)
(* ends stand as they are on a modifier's left, a train needs brackets; on *)
(* the right only a word does without.  Two numbers side by side are read  *)
(* as one list.                                                            *)
(***************************************************************************)
Spelled(words, shape) == [words |-> words, shape |-> shape]
Unwritable == Spelled(<<>>, "none")
Bracketed(ws) == <<LParen>> \o ws \o <<RParen>>
Bare1(s) == IF s.shape = "train" THEN Bracketed(s.words) ELSE s.words
OnlyWord(s) == IF s.shape = "word" THEN s.words ELSE Bracketed(s.words)
PrimWord(w) == IF w = "[:" THEN Cap ELSE IF Known(Named(w)) THEN VerbFrag(Named(w)) ELSE NameFrag(Bare(w))
ModWord(w) == IF w \in Adverbs THEN AdverbFrag(w) ELSE ConjFrag(w)
IsNumber(w) == IF w.k # "noun" THEN FALSE ELSE IF w.e.e # "const" THEN FALSE ELSE Numeric(w.e.a)
IsConstantVerb(v) == IF v.form # "NounFork" THEN FALSE ELSE v.f = Named("[") /\ v.g = Named("]")
StartsWithDigit(w) == IsNumber(w) \/ (w.k = "verb" /\ IsConstantVerb(w.v))
EndsWithDigit(w) == IF ~IsNumber(w) THEN FALSE ELSE w.e.a.data[Count(w.e.a)] # Inf
(* A list of one is written as its item is. *)
PlainWords(a) ==
  IF Rank(a) > 1 THEN Unwritable
  ELSE IF a.type = "char" THEN Spelled(<<Quoted(a)>>, "word")
  ELSE IF Count(a) = 0 THEN Spelled(<<Quoted(Scalar("int", 0)), VerbFrag(Named("$")), Quoted(Scalar("int", 0))>>, "expression")
  ELSE Spelled(<<Quoted(IF Count(a) = 1 THEN Scalar(a.type, a.data[1]) ELSE a)>>, "word")
Enclosing == <<VerbFrag(Named("<"))>>
Between(lists, word) == \* the lists with a word between each two
  FoldLeft(LAMBDA acc, i : acc \o (IF i = 1 THEN <<>> ELSE <<word>>) \o lists[i], <<>>, [i \in DOMAIN lists |-> i])
RECURSIVE DataWords(_)
DataWords(a) ==
  LET n == Count(a)
      held == [i \in 1 .. n |-> DataWords(a.data[i])]
      enclosed == [i \in 1 .. n |-> Enclosing \o held[i].words]
      comma == VerbFrag(Named(","))
      words == CASE Rank(a) = 0 -> enclosed[1]
                 [] Rank(a) = 1 /\ n = 0 -> <<Quoted(Scalar("int", 0)), VerbFrag(Named("$")), Quoted(Box(Empty("int", <<0>>)))>>
                 [] Rank(a) = 1 /\ n = 1 -> <<comma>> \o enclosed[1]
                 [] Rank(a) = 1 /\ n > 1 ->
                      IF \E i \in 1 .. n : a.data[i].type = "box"
                      THEN Bracketed(enclosed[1]) \o <<comma>> \o Between(Tail(enclosed), comma)
                      ELSE Between([i \in 1 .. n |-> held[i].words], VerbFrag(Named(";")))
  IN  IF a.type # "box" THEN PlainWords(a)
      ELSE IF a = Box(Empty("int", <<0>>)) THEN Spelled(<<Quoted(a)>>, "word") \* a:
      ELSE IF Rank(a) > 1 \/ \E i \in 1 .. n : held[i].shape = "none" THEN Unwritable ELSE Spelled(words, "expression")
(* An odd train's last tine, when it is an odd train itself, is written in  *)
(* a row with the others.                                                   *)
ConstantWord(ar) == \* the number a train spells as one word, 5 for 5:
  IF ar.ar # "train" THEN {}
  ELSE IF Len(ar.ops) # 3 \/ ar.ops[1].ar # "noun" THEN {}
  ELSE LET a == ar.ops[1].a
       IN  IF ar.ops[2] # ArPrim("[") \/ ar.ops[3] # ArPrim("]") \/ Rank(a) # 0 \/ ~Numeric(a) THEN {}
           ELSE IF a.data[1] \in -9 .. 9 \/ a.data[1] = Inf THEN {a} ELSE {}
RECURSIVE Tines(_)
TinesRunOn(ar) == \* mutant of Tines: a last tine that is a hook is written in the row too
  IF ar.ar # "train" THEN <<ar>>
  ELSE LET n == Len(ar.ops) last == ar.ops[n]
       IN  IF n % 2 = 1 /\ last.ar = "train" /\ ConstantWord(last) = {} THEN First(n - 1, ar.ops) \o last.ops ELSE ar.ops
Tines(ar) ==
  IF ar.ar # "train" THEN <<ar>>
  ELSE LET n == Len(ar.ops) last == ar.ops[n]
       IN  IF n % 2 = 1 /\ last.ar = "train" /\ ConstantWord(last) = {} /\ Len(Tines(last)) % 2 = 1
           THEN First(n - 1, ar.ops) \o Tines(last) ELSE ar.ops
RECURSIVE Spell(_)
NounWords(a) ==
  LET parts == [i \in DOMAIN a.data |-> Spell(FromArray(a.data[i]))]
      tie == a.type = "box" /\ Rank(a) = 1 /\ Count(a) > 1
      data == DataWords(a)
  IN  IF tie /\ (\A i \in DOMAIN parts : parts[i].shape # "none")
      THEN Spelled(Between([i \in DOMAIN parts |-> Bare1(parts[i])], ConjFrag("tie")), "word")
      ELSE IF data.shape = "none" THEN data ELSE Spelled(OnlyWord(data), "word")
TrainWords(ts) ==
  LET spelled == [i \in DOMAIN ts |->
        IF ts[i].ar # "noun" THEN Spell(ts[i])
        ELSE LET d == DataWords(ts[i].a) IN IF d.shape = "none" THEN d ELSE Spelled(OnlyWord(d), "word")]
      out == [i \in DOMAIN ts |-> Bare1(spelled[i])]
      apart == [i \in DOMAIN ts |->
        IF i = Len(ts) THEN out[i]
        ELSE IF StartsWithDigit(spelled[i + 1].words[1]) /\ EndsWithDigit(out[i][Len(out[i])]) THEN Bracketed(out[i]) ELSE out[i]]
  IN  IF \E i \in DOMAIN ts : spelled[i].shape = "none" THEN Unwritable
      ELSE Spelled(FoldLeft(LAMBDA acc, ws : acc \o ws, <<>>, apart), "train")
Spell(ar) ==
  CASE ar.ar = "none" -> Unwritable
    [] ConstantWord(ar) # {} -> Spelled(<<VerbFrag(ConstantVerb(CHOOSE a \in ConstantWord(ar) : TRUE))>>, "word")
    [] ar.ar = "direct" -> Spelled(<<Quoted(ar.of.a)>>, "modified")
    [] ar.ar = "prim" -> Spelled(<<PrimWord(ar.word)>>, "word")
    [] ar.ar = "noun" -> NounWords(ar.a)
    [] ar.ar = "derived" ->
         LET ops == [i \in DOMAIN ar.ops |-> Spell(ar.ops[i])]
             right == IF Len(ops) = 1 THEN <<>> ELSE OnlyWord(ops[2])
         IN  IF \E i \in DOMAIN ops : ops[i].shape = "none" THEN Unwritable
             ELSE Spelled(Bare1(ops[1]) \o <<ModWord(ar.word)>> \o right, "modified")
    [] ar.ar = "train" /\ ConstantWord(ar) = {} -> TrainWords(Tines(ar))
Linear(v) == Spell(VerbAr(v))
(* What the words are once written in a row.                                *)
AsText(words) ==
  FoldLeft(LAMBDA acc, w :
    IF acc = <<>> THEN <<w>>
    ELSE IF IsNumber(acc[Len(acc)]) /\ IsNumber(w)
         THEN Append(First(Len(acc) - 1, acc), Quoted(Ints(acc[Len(acc)].e.a.data \o w.e.a.data)))
         ELSE Append(acc, w), <<>>, words)
=============================================================================
