---------------------------- MODULE AplSentences ----------------------------
(***************************************************************************)
(* APL's parser (frontend/apl.rs).  A first pass runs from the left and    *)
(* makes each operator, with the operands beside it, one function; a       *)
(* second gives functions the axes in brackets after them; and what is     *)
(* left, values and functions, is read from the right.                     *)
(***************************************************************************)
EXTENDS JSentences

ValueTok(a)   == [k |-> "value", a |-> a]
NumsTok(a)    == [k |-> "nums", a |-> a]
OpTok(o)      == [k |-> "op", o |-> o]
NiladicTok(v) == [k |-> "niladic", v |-> v]
UserOpTok(def, two) == [k |-> "userop", def |-> def, omega |-> two]
Gets      == Word("gets")
LBracket  == Word("lbracket")
RBracket  == Word("rbracket")
Semi      == Word("semi")
LBrace    == Word("lbrace")
RBrace    == Word("rbrace")
Separator == Word("separator")
Colon     == Word("colon")
Del       == Word("del")
Edge      == Word("edge")  \* what stands past the end of a row
FirstTok(ts) == IF ts = <<>> THEN Edge ELSE ts[1]
LastTok(ts)  == IF ts = <<>> THEN Edge ELSE ts[Len(ts)]
Front1(ts)   == First(Len(ts) - 1, ts)

IsLiteral(t)    == t.k \in {"value", "nums"}
IsOperandEndPlain(t) == t.k \in {"value", "nums", "name", "niladic", "quad", "rparen"} \* mutant of IsOperandEnd: an indexed value ends none
IsOperandEnd(t) == t.k \in {"value", "nums", "name", "niladic", "quad", "rparen", "rbracket"}
Count1(ts, k)   == Cardinality({i \in DOMAIN ts : ts[i].k = k})
MatchOpen(ts, close, opener) == \* the place of the bracket that ts[close] closes, or 0
  LET even(i) == Count1(SubSeq(ts, i + 1, close - 1), opener) = Count1(SubSeq(ts, i + 1, close - 1), ts[close].k)
      hits == {i \in 1 .. close - 1 : ts[i].k = opener /\ even(i)}
  IN  IF hits = {} THEN 0 ELSE Max(hits)
MatchClose(ts, open, closer) ==
  LET even(i) == Count1(SubSeq(ts, open + 1, i - 1), closer) = Count1(SubSeq(ts, open + 1, i - 1), ts[open].k)
      hits == {i \in open + 1 .. Len(ts) : ts[i].k = closer /\ even(i)}
  IN  IF hits = {} THEN 0 ELSE Min(hits)
Row(ts) == [toks |-> ts]

(***************************************************************************)
(* What an operand settles, now or at each application.                    *)
(***************************************************************************)
AxisSpec(a) ==
  CASE Rank(a) > 1 \/ ~Numeric(a) -> Refusal("parse")
    [] Rank(a) < 2 /\ a.type \in {"bool", "int"} ->
         IF \E i \in DOMAIN a.data : a.data[i] < 1 THEN Refusal("domain") ELSE [axes |-> [i \in DOMAIN a.data |-> a.data[i] - 1]]
    [] OTHER -> Refusal("notyet")  \* a fraction, the gap between two axes
LeadingAxisForm(v) ==
  CASE v.form = "Rank" -> IF v.n = <<1, Inf, Inf>> THEN v.f ELSE NoVerb
    [] v.form = "Prim" -> IF v.monad = "Reverse" THEN v
                          ELSE IF v.dyad \in {"Copy", "Expand"} THEN [v EXCEPT !.ranks = <<Inf, 1, Inf>>] ELSE NoVerb
    [] OTHER -> NoVerb
ReadsAxis(v) ==
  IF v.form # "Prim" THEN FALSE
  ELSE \/ ScalarOf(v) # None \/ v.monad \in Monads
       \/ v.monad \in {"Ravel", "EncloseExcept", "Split", "Open"} \/ (v.monad = "First" /\ v.name = "up_arrow")
       \/ v.dyad \in {"AppendLast", "AppendLeading", "Take", "Drop", "Squad", "PartitionEnclose", "PartitionCounts"}
AxisVerb(f, spec) ==
  LET lead == LeadingAxisForm(f)
  IN  IF Known(lead) THEN (IF Len(spec.axes) # 1 THEN Refusal("domain") ELSE With("AlongAxis", lead, spec))
      ELSE IF ReadsAxis(f) THEN With("AlongAxis", f, spec) ELSE Refusal("notyet")
BuiltAxis(f, a) ==
  IF f.form = "Explicit" THEN With("BoundAxis", f, a) ELSE Then(AxisSpec(a), LAMBDA spec : AxisVerb(f, spec))
BuiltFoldAxis(f, a) ==
  Then(AxisSpec(a), LAMBDA spec : IF Len(spec.axes) # 1 THEN Refusal("domain") ELSE With("AlongAxis", f, spec))
BuiltPower(f, a) ==
  IF a.type \notin {"bool", "int"} THEN Refusal("parse")
  ELSE IF Count(a) # 1 THEN Refusal("notyet")
  ELSE IF a.data[1] < 0 THEN Power(f, "inverse", -a.data[1]) ELSE Power(f, "times", a.data[1])
ArrayOperand(a) == [form |-> "Value", n |-> a]
UserDerived(def, l, r) == [form |-> "UserDerived", f |-> l, g |-> r, n |-> def]
Built(build, template, a) ==
  CASE build = "axis" -> BuiltAxis(template, a)
    [] build = "fold axis" -> BuiltFoldAxis(template, a)
    [] build = "power" -> BuiltPower(template, a)
    [] build = "choose" -> [form |-> "Choose", n |-> a]
    [] build = "alpha" -> [template EXCEPT !.f = ArrayOperand(a)]
    [] build = "omega" -> [template EXCEPT !.g = ArrayOperand(a)]

Now(a)    == [now |-> a]
Later(e)  == [later |-> e]
Settle(e) == LET a == Settled1(e) IN IF Refused(a) THEN Later(e) ELSE Now(a)
Derive(operand, template, build) ==
  IF "now" \in DOMAIN operand THEN Built(build, template, operand.now) ELSE Deferred(operand.later, template, build)

(***************************************************************************)
(* Trains.  NoVerb is a row that is no train after all.                    *)
(***************************************************************************)
RECURSIVE Train(_)
Train(ts) ==
  LET n == Len(ts) head == ts[1]
      over(k, F(_)) == Then(Train(After(k, ts)), LAMBDA rest : IF Known(rest) THEN F(rest) ELSE NoVerb)
  IN  IF n = 1 THEN (IF IsRealVerb(head) THEN head.v ELSE NoVerb)
      ELSE IF n = 2 THEN (IF IsRealVerb(head) /\ IsRealVerb(ts[2]) THEN AtopAt(head.v, ts[2].v) ELSE NoVerb)
      ELSE IF n % 2 = 0
      THEN IF IsRealVerb(head) THEN over(1, LAMBDA rest : AtopAt(head.v, rest)) ELSE Refusal("parse")
      ELSE over(2, LAMBDA rest :
             IF IsRealVerb(head) THEN Fork(head.v, ts[2].v, rest)
             ELSE IF IsLiteral(head) THEN NounFork(head.a, ts[2].v, rest)
             ELSE IF IsOperandEnd(head) /\ head.k # "quad" THEN Refusal("notyet") ELSE NoVerb)
TineRun(ts, d) ==
  IF ~d.trains \/ ts = <<>> THEN NoVerb
  ELSE IF \E i \in 2 .. Len(ts) : ~IsRealVerb(ts[i]) THEN NoVerb ELSE Train(ts)

(* A closed pair that holds a function, or a train of them, is a function.  *)
CloseParen(out, d) ==
  LET open  == MatchOpen(out, Len(out), "lparen")
      inner == SubSeq(out, open + 1, Len(out) - 1)
      one   == Len(inner) = 1 /\ IsRealVerb(FirstTok(inner))
  IN  IF open = 0 THEN Row(out)
      ELSE IF one THEN Row(First(open - 1, out) \o inner)
      ELSE IF Len(inner) < 2 THEN Row(out)
      ELSE Then(TineRun(inner, d), LAMBDA v : Row(IF Known(v) THEN Append(First(open - 1, out), VerbFrag(v)) ELSE out))
UnwrapLoneOperators(ts) ==
  FoldLeft(LAMBDA out, t :
    IF t.k = "rparen" /\ LastTok(out).k = "op" /\ Len(out) > 1 /\ LastTok(Front1(out)).k = "lparen"
    THEN Append(First(Len(out) - 2, out), LastTok(out)) ELSE Append(out, t), <<>>, ts)

(***************************************************************************)
(* The first pass: each operator takes the function or value folded on its *)
(* left, and one word of those still to come on its right.                 *)
(***************************************************************************)
AplVerb(name, monad, dyad, ranks) == Prim(name, monad, dyad, ranks, 1)
AsFunction == \* the operators that are functions after a value
  [slash     |-> AplVerb("slash", "None", "Copy", <<Inf, 1, 1>>), slashbar |-> AplVerb("slashbar", "None", "Copy", <<Inf, 1, Inf>>),
   backslash |-> AplVerb("backslash", "None", "Expand", <<Inf, 1, 1>>),
   backslashbar |-> AplVerb("backslashbar", "None", "Expand", <<Inf, 1, Inf>>)]
Scanned(f) == With("Windowed", One("Reduce", f), "scan")
Simply(op, f) == \* an operator that takes one function and nothing else
  CASE op = "slash"        -> Ranked(One("NWise", f), <<1, Inf, 1>>)
    [] op = "slashbar"     -> One("NWise", f)
    [] op = "backslash"    -> Ranked(Scanned(f), Same3(1))
    [] op = "backslashbar" -> Scanned(f)
    [] op = "commute"      -> One("Commute", f)
    [] op = "key"          -> One("KeyPairs", f)
    [] op = "each"         -> With("Each", f, "except")
    [] OTHER               -> Refusal("parse")
Composed(op, f, g) ==
  CASE op = "jot"    -> Two("Beside", f, g)
    [] op = "before" -> Two("Before", f, g)
    [] op = "over"   -> Two("Compose", f, g)
    [] op = "dot"    -> Two("InnerProduct", One("Reduce", f), g) @@ [n |-> "APL"]
    [] op = "under"  -> IF Known(Obverse(g)) THEN AtopAt(Obverse(g), Two("Compose", f, g)) ELSE Refusal("domain")
AplRanks(a) ==
  IF a.type \notin {"bool", "int"} \/ Count(a) \notin 1 .. 3 THEN Refusal("parse") ELSE Ints(Triple(a.data))
WithVariant(f, io) == \* the index origin set aside for one application
  IF io \notin {0, 1} THEN Refusal("domain")
  ELSE IF Known(WithOrigin(f, io)) THEN WithOrigin(f, io) ELSE Refusal("domain")

RECURSIVE FoldOperators(_, _, _), FoldAxes(_, _, _), ParseRange(_, _), ParsePrimary(_, _), Leftward(_, _, _)
ParsePrepared(ts, d) ==
  Then(FoldOperators(ts, <<>>, d), LAMBDA r : Then(FoldAxes(r.toks, <<>>, d), LAMBDA q :
    IF q.toks = <<>> THEN Refusal("parse") ELSE ParseRange(q.toks, d)))
Taking(operand, rest) == [operand |-> operand, rest |-> rest]
BracketOperand(rest, d) == \* what the brackets at the head of the row hold
  LET close == MatchClose(rest, 1, "rbracket")
      inner == SubSeq(rest, 2, close - 1)
      one   == Len(inner) = 1 /\ IsLiteral(FirstTok(inner))
  IN  IF close = 0 THEN Refusal("parse")
      ELSE IF one THEN Taking(Now(inner[1].a), After(close, rest))
      ELSE Then(ParsePrepared(inner, d), LAMBDA e : Taking(Settle(e), After(close, rest)))
AsOperand(e, rest) == Taking(Settle(e), rest)
(* None is no operand here at all.                                          *)
TakeValueOperand(rest, d) ==
  LET t == FirstTok(rest)
      close == MatchClose(rest, 1, "rparen")
      inner == SubSeq(rest, 2, close - 1)
      read(r) == IF \A i \in DOMAIN r.toks : IsRealVerb(r.toks[i]) THEN Refusal("notyet")
                 ELSE Then(FoldAxes(r.toks, <<>>, d), LAMBDA q : Then(ParseRange(q.toks, d), LAMBDA e : AsOperand(e, After(close, rest))))
  IN  CASE IsLiteral(t) -> Taking(Now(t.a), Tail(rest))
        [] t.k = "name" -> Taking(Later(NameRead(t.name)), Tail(rest))
        [] t.k = "lparen" -> IF close = 0 THEN Refusal("parse") ELSE IF inner = <<>> THEN Declined ELSE Then(FoldOperators(inner, <<>>, d), read)
        [] OTHER -> Declined
TakeLeftValueOperand(out, d) ==
  LET t == LastTok(out)
      open == MatchOpen(out, Len(out), "lparen")
      inner == SubSeq(out, open + 1, Len(out) - 1)
  IN  CASE IsLiteral(t) -> Taking(Now(t.a), Front1(out))
        [] t.k = "name" -> Taking(Later(NameRead(t.name)), Front1(out))
        [] t.k = "rparen" -> IF open = 0 \/ inner = <<>> THEN Declined
                             ELSE Then(ParsePrepared(inner, d), LAMBDA e : AsOperand(e, First(open - 1, out)))
        [] OTHER -> Declined

(* A function made, and the rows that remain on either side of it.          *)
Formed(v, out, rest) == Then(v, LAMBDA f : [v |-> f, out |-> out, rest |-> rest])
TakeUserOp(t, out, rest, d) ==
  LET verb == FirstTok(rest).k = "verb"
      right == IF ~t.omega THEN Taking(NoVerb, rest)
               ELSE IF verb THEN Taking(rest[1].v, Tail(rest)) ELSE TakeValueOperand(rest, d)
      left == IF LastTok(out).k = "verb" THEN Taking(LastTok(out).v, Front1(out)) ELSE TakeLeftValueOperand(out, d)
      value(o) == "form" \notin DOMAIN o.operand
      late(o) == value(o) /\ "later" \in DOMAIN o.operand
      filled(o) == IF value(o) THEN (IF late(o) THEN ArrayOperand(Empty("int", <<0>>)) ELSE ArrayOperand(o.operand.now)) ELSE o.operand
      whole(r, l) == UserDerived(t.def, filled(l), filled(r))
  IN  IF right = Declined \/ left = Declined THEN Refusal("parse")
      ELSE Then(right, LAMBDA r : Then(left, LAMBDA l :
             IF late(l) /\ late(r) THEN Refusal("notyet")
             ELSE Formed(IF late(l) THEN Deferred(l.operand.later, whole(r, l), "alpha")
                         ELSE IF late(r) THEN Deferred(r.operand.later, whole(r, l), "omega") ELSE whole(r, l), l.rest, r.rest)))
(* What @ takes on its right: a function, a literal, or a pair of either.   *)
AtOperand(rest, d) ==
  LET t == FirstTok(rest)
      close == MatchClose(rest, 1, "rparen")
      one(u, after) == IF IsRealVerb(u) \/ IsLiteral(u) THEN Taking(u, after) ELSE Refusal("parse")
      single(ts) == IF Len(ts) = 1 THEN one(ts[1], After(close, rest)) ELSE Refusal("notyet")
  IN  IF t.k # "lparen" THEN one(t, Tail(rest))
      ELSE IF close = 0 THEN Refusal("parse")
      ELSE Then(FoldOperators(SubSeq(rest, 2, close - 1), <<>>, d), LAMBDA r :
             IF Len(r.toks) < 2 THEN single(r.toks)
             ELSE Then(CloseParen(<<LParen>> \o r.toks \o <<RParen>>, d), LAMBDA q : single(q.toks)))
Placing(left, right) ==
  With("At", IF IsRealVerb(left) THEN left.v ELSE NoVerb,
       [new |-> IF IsLiteral(left) THEN <<left.a>> ELSE <<>>, places |-> IF IsLiteral(right) THEN <<right.a>> ELSE <<>>,
        test |-> IF IsRealVerb(right) THEN right.v ELSE NoVerb])
TakeAt(out, rest, d) ==
  LET pair == LastTok(out).k = "rparen" /\ MatchOpen(out, Len(out), "lparen") = Len(out) - 2
      inside == IF pair THEN out[Len(out) - 1] ELSE Edge
      bare == IF IsLiteral(inside) THEN Append(First(Len(out) - 3, out), inside) ELSE out
      left == LastTok(bare)
  IN  Then(AtOperand(rest, d), LAMBDA r :
        IF IsRealVerb(left) \/ IsLiteral(left) THEN Formed(Placing(left, r.operand), Front1(bare), r.rest) ELSE Refusal("parse"))
TakeVariant(f, out, rest) ==
  LET t == FirstTok(rest) IN
  IF t.k = "option" THEN Formed(WithVariant(f, t.io), out, Tail(rest)) ELSE Refusal("notyet")
TakeWindow(f, out, rest) ==
  LET t == FirstTok(rest)
  IN  IF ~IsLiteral(t) THEN Refusal("parse")
      ELSE IF Rank(t.a) > 1 THEN Refusal("notyet")
      ELSE IF t.a.type \notin {"bool", "int"} THEN Refusal("domain") ELSE Formed(With("Stencil", f, t.a.data), out, Tail(rest))
TakeRank(f, out, rest) ==
  LET t == FirstTok(rest)
  IN  IF IsRealVerb(t) THEN Formed(AtopAt(f, t.v), out, Tail(rest))
      ELSE IF IsLiteral(t) THEN Formed(Then(AplRanks(t.a), LAMBDA r : Ranked(f, r.data)), out, Tail(rest)) ELSE Refusal("parse")
TakePower(f, out, rest, d) ==
  LET t == FirstTok(rest)
      count == TakeValueOperand(rest, d)
  IN  IF IsRealVerb(t) THEN Formed(Two("PowerUntil", f, t.v), out, Tail(rest))
      ELSE IF count = Declined THEN Refusal("parse")
      ELSE Then(count, LAMBDA c : Formed(Derive(c.operand, f, "power"), out, c.rest))
TakeFoldAxis(op, f, out, rest, d) ==
  LET inner == CASE op \in {"slash", "slashbar"} -> One("NWise", f)
                 [] op \in {"backslash", "backslashbar"} -> Scanned(f)
                 [] OTHER -> Refusal("notyet")
  IN  Then(BracketOperand(rest, d), LAMBDA b : Then(inner, LAMBDA v : Formed(Derive(b.operand, v, "fold axis"), out, b.rest)))
TakeOp(op, out, rest, d) ==
  LET l == LastTok(out) r == FirstTok(rest)
      lf == IsRealVerb(l) rf == IsRealVerb(r)
      both(v) == Formed(v, Front1(out), Tail(rest))
  IN  IF op = "jotdot" THEN (IF rf THEN Formed(One("Reduce", r.v), out, Tail(rest)) ELSE Refusal("parse"))
      ELSE IF op = "jot" /\ IsLiteral(l) /\ rf THEN both(BondLeft(l.a, r.v))
      ELSE IF op = "jot" /\ lf /\ IsLiteral(r) THEN both(BondRight(l.v, r.a))
      ELSE IF op = "jot" /\ ~lf /\ ~rf THEN Formed(AplVerb("jot", "None", "MatrixProduct", Same3(Inf)), out, rest)
      ELSE IF op = "at" THEN TakeAt(out, rest, d)
      ELSE IF op \in {"jot", "over", "before", "under", "dot"}
      THEN (IF lf /\ rf THEN both(Composed(op, l.v, r.v)) ELSE Refusal("notyet"))
      ELSE IF ~lf THEN (IF IsOperandEnd(l) /\ op \in DOMAIN AsFunction THEN Formed(AsFunction[op], out, rest) ELSE Refusal("parse"))
      ELSE IF r.k = "lbracket" THEN TakeFoldAxis(op, l.v, Front1(out), rest, d)
      ELSE CASE op = "variant" -> TakeVariant(l.v, Front1(out), rest)
             [] op = "stencil" -> TakeWindow(l.v, Front1(out), rest)
             [] op = "rank"    -> TakeRank(l.v, Front1(out), rest)
             [] op = "power"   -> TakePower(l.v, Front1(out), rest, d)
             [] OTHER          -> Formed(Simply(op, l.v), Front1(out), rest)
FoldOperators(ts, out, d) ==
  LET t == FirstTok(ts)
      go(made) == Then(made, LAMBDA m : FoldOperators(m.rest, Append(m.out, VerbFrag(m.v)), d))
  IN  CASE ts = <<>> -> Row(out)
        [] t.k = "rparen" -> Then(CloseParen(Append(out, t), d), LAMBDA r : FoldOperators(Tail(ts), r.toks, d))
        [] t.k = "userop" -> go(TakeUserOp(t, out, Tail(ts), d))
        [] t.k = "op" -> go(TakeOp(t.o, out, Tail(ts), d))
        [] OTHER -> FoldOperators(Tail(ts), Append(out, t), d)

(* The second pass.  After three functions the brackets name no axis.       *)
EncodeWidth(a) ==
  IF a.type \notin {"bool", "int"} \/ Count(a) # 1 THEN Refusal("parse")
  ELSE IF a.data[1] < 0 THEN Refusal("parse") ELSE AplVerb("represent", "None", <<"EncodeWidth", a.data[1]>>, Same3(Inf))
MatrixDivideGroup(a) ==
  IF a.type \notin {"bool", "int"} \/ Count(a) # 1 THEN Refusal("parse")
  ELSE CASE a.data[1] = 8 -> AplVerb("polynomial_times", "None", "PolyMultiply", Same3(Inf))
         [] a.data[1] = 9 -> AplVerb("polynomial_by", "None", "PolyDivide", Same3(Inf))
         [] OTHER -> Refusal(IF a.data[1] \in {1, 7} THEN "notyet" ELSE "domain")
FoldAxes(ts, out, d) ==
  LET t == FirstTok(ts)
      bracketed == t.k = "verb" /\ FirstTok(Tail(ts)).k = "lbracket"
      name == IF t.v.form = "Prim" THEN t.v.name ELSE ""
      settled(o, F(_)) == IF "now" \in DOMAIN o THEN F(o.now) ELSE Refusal("notyet")
      made(o) == CASE name = "right_tack" -> Derive(o, t.v, "choose")
                   [] name = "represent" -> settled(o, EncodeWidth)
                   [] name = "domino" -> settled(o, MatrixDivideGroup)
                   [] OTHER -> Derive(o, t.v, "axis")
  IN  IF ts = <<>> THEN Row(out)
      ELSE IF ~bracketed THEN FoldAxes(Tail(ts), Append(out, t), d)
      ELSE Then(BracketOperand(Tail(ts), d), LAMBDA b : Then(made(b.operand), LAMBDA v : FoldAxes(b.rest, Append(out, VerbFrag(v)), d)))

(***************************************************************************)
(* The last pass, from the right.                                          *)
(***************************************************************************)
PrintE(value)            == [e |-> "show", value |-> value]
AmendE(n, slots, value)  == [e |-> "amend_index", name |-> n, slots |-> slots, value |-> value]
StrandSeed == AtopAt(VerbFor("comma"), VerbFor("left_shoe"))
StrandVerb == AplVerb("strand", "None", "Strand", Same3(Inf))
SelectAxisVerb(axis, rank) == AplVerb("index", "None", "SelectAxis", Same3(Inf)) @@ [axis |-> axis, whole |-> rank]
ReadTo(e, before) == [e |-> e, before |-> before]
Slots(ts) == \* the rows between the semicolons that stand in no bracket of their own
  LET opened(i) == Count1(First(i, ts), "lparen") + Count1(First(i, ts), "lbracket")
      closed(i) == Count1(First(i, ts), "rparen") + Count1(First(i, ts), "rbracket")
      cuts == SetToSortSeq({i \in DOMAIN ts : ts[i].k = "semi" /\ opened(i) = closed(i)}, <)
      ends == <<0>> \o cuts \o <<Len(ts) + 1>>
  IN  [i \in 1 .. Len(cuts) + 1 |-> SubSeq(ts, ends[i] + 1, ends[i + 1] - 1)]
SlotExprs(rows, d) == \* none for a slot left out
  FoldLeft(LAMBDA acc, row :
    IF row = <<>> THEN (IF Refused(acc) THEN acc ELSE [slots |-> Append(acc.slots, <<>>)])
    ELSE Both(acc, ParseRange(row, d), LAMBDA a, e : [slots |-> Append(a.slots, <<e>>)]), [slots |-> <<>>], rows)
Indexed1(base, slots) == \* the last slot first; the one applied last sees the whole
  LET given1 == SelectSeq([i \in DOMAIN slots |-> i], LAMBDA i : slots[i] # <<>>)
      last == given1[Len(given1)]
  IN  FoldRight(LAMBDA i, acc : DyadE(SelectAxisVerb(i - 1, IF i = last THEN Len(slots) ELSE 0), slots[i][1], acc), given1, base)
IndexBrackets(ts, d) ==
  LET open == MatchOpen(ts, Len(ts), "lbracket")
      rows == Slots(SubSeq(ts, open + 1, Len(ts) - 1))
  IN  IF open < 2 THEN Refusal("parse")
      ELSE IF ~IsOperandEnd(ts[open - 1]) \/ rows = <<<<>>>> THEN Refusal("parse")
      ELSE Then(ParsePrimary(First(open - 1, ts), d), LAMBDA base : Then(SlotExprs(rows, d), LAMBDA s :
             ReadTo(Indexed1(base.e, s.slots), base.before)))
ParsePrimary(ts, d) ==
  LET t == LastTok(ts)
      open == MatchOpen(ts, Len(ts), "lparen")
      names == Len(ts) > 1 /\ LastTok(Front1(ts)).k = "gets"
  IN  CASE IsLiteral(t) -> ReadTo(Literal(t.a), Front1(ts))
        [] t.k = "name" -> ReadTo(NameRead(t.name), Front1(ts))
        [] t.k = "niladic" -> ReadTo(MonadE(t.v, Literal(Empty("int", <<0>>))), Front1(ts))
        [] t.k = "quad" -> ReadTo([e |-> "input"], Front1(ts))
        [] t.k = "rparen" -> IF open = 0 THEN Refusal("parse")
                             ELSE Then(ParseRange(SubSeq(ts, open + 1, Len(ts) - 1), d), LAMBDA e : ReadTo(e, First(open - 1, ts)))
        [] t.k = "rbracket" -> IndexBrackets(ts, d)
        [] OTHER -> Refusal(IF t.k = "verb" /\ names THEN "notyet" ELSE "parse")

(* Values side by side are one, of an item each; the numbers of a list are  *)
(* items of their own.  What begins with such a list is taken for it.       *)
Pushed(e, t) ==
  IF t.k = "nums" /\ Rank(t.a) > 0 THEN [i \in 1 .. Count(t.a) |-> Literal(Atom(t.a, Count(t.a) - i))] ELSE <<e>>
RECURSIVE StrandItems(_, _, _)
StrandItems(items, ts, d) ==
  IF ~IsOperandEnd(LastTok(ts)) THEN [items |-> items, before |-> ts]
  ELSE Then(ParsePrimary(ts, d), LAMBDA p : StrandItems(items \o Pushed(p.e, ts[Len(p.before) + 1]), p.before, d))
StrandOf(items) == FoldLeft(LAMBDA acc, e : DyadE(StrandVerb, e, acc), MonadE(StrandSeed, items[1]), Tail(items))
StrandOnto(e, ts, d) ==
  IF ~IsOperandEnd(LastTok(ts)) THEN ReadTo(e, ts)
  ELSE Then(StrandItems(<<e>>, ts, d), LAMBDA s : ReadTo(StrandOf(s.items), s.before))
ParseOperand(ts, d) ==
  Then(ParsePrimary(ts, d), LAMBDA p :
    IF ~IsOperandEnd(LastTok(p.before)) THEN p
    ELSE Then(StrandItems(Pushed(p.e, ts[Len(p.before) + 1]), p.before, d), LAMBDA s : ReadTo(StrandOf(s.items), s.before)))

(* What an arrow gives its value to, and the row before that.               *)
AmendTo(value, ts, d) ==
  LET open == MatchOpen(ts, Len(ts), "lbracket")
      rows == Slots(SubSeq(ts, open + 1, Len(ts) - 1))
  IN  IF open < 2 THEN Refusal("parse")
      ELSE IF ts[open - 1].k # "name" THEN Refusal("notyet")
      ELSE IF rows = <<<<>>>> THEN Refusal("parse")
      ELSE Then(SlotExprs(rows, d), LAMBDA s : ReadTo(AmendE(ts[open - 1].name, s.slots, value), First(open - 2, ts)))
AssignTo(value, ts, d) ==
  LET t == LastTok(ts)
      open == MatchOpen(ts, Len(ts), "lparen")
      names == SubSeq(ts, open + 1, Len(ts) - 1)
  IN  CASE t.k = "name" -> ReadTo(AssignE(t.name, value, FALSE), Front1(ts))
        [] t.k = "quad" -> ReadTo(PrintE(value), Front1(ts))
        [] t.k = "rbracket" -> AmendTo(value, ts, d)
        [] t.k = "rparen" ->
             IF open = 0 \/ names = <<>> \/ (\E i \in DOMAIN names : names[i].k # "name") THEN Refusal("parse")
             ELSE ReadTo(AssignManyE([i \in DOMAIN names |-> names[i].name], value, FALSE), First(open - 1, ts))
        [] OTHER -> Refusal("parse")
(* e is the value of what was read; ts stands to its left.                  *)
Leftward(e, ts, d) ==
  LET t == LastTok(ts) before == Front1(ts)
  IN  CASE ts = <<>> -> e
        [] t.k = "verb" ->
             IF IsOperandEnd(LastTok(before)) THEN Then(ParseOperand(before, d), LAMBDA x : Leftward(DyadE(t.v, x.e, e), x.before, d))
             ELSE Leftward(MonadE(t.v, e), before, d)
        [] t.k = "gets" -> Then(AssignTo(e, before, d), LAMBDA a : Then(StrandOnto(a.e, a.before, d), LAMBDA s : Leftward(s.e, s.before, d)))
        [] OTHER -> Refusal("parse")
ParseRange(ts, d) == IF ts = <<>> THEN Refusal("parse") ELSE Then(ParseOperand(ts, d), LAMBDA p : Leftward(p.e, p.before, d))

(***************************************************************************)
(* Sentences and braces.  `verbs` holds the functions the sentences so far *)
(* named; `d` the dialect: whether rows of functions are trains, and which *)
(* sentence of a brace is its answer.                                      *)
(***************************************************************************)
AlphaName  == Bare("alpha")
OmegaName  == Bare("omega")
AlphaAlpha == Bare("alphaalpha")
OmegaOmega == Bare("omegaomega")
NamedVerb(n) == [form |-> "Named", n |-> n]
UnappliedOp(def, two) == UserDerived(def, NamedVerb(AlphaAlpha), IF two THEN NamedVerb(OmegaOmega) ELSE NoVerb)
AsUserOp(v) == v.form = "UserDerived" /\ v.f.form = "Named"
VerbTokPlain(v) == VerbFrag(v) \* mutant of VerbTok: a named operator comes back a function
VerbTok(v) == IF AsUserOp(v) THEN UserOpTok(v.n, Known(v.g)) ELSE VerbFrag(v)
SubstituteVerbs(ts, verbs) ==
  [i \in DOMAIN ts |-> IF ts[i].k # "name" \/ FirstTok(After(i, ts)).k = "gets" THEN ts[i]
                       ELSE IF ts[i].name \in DOMAIN verbs THEN VerbTok(verbs[ts[i].name]) ELSE ts[i]]
VerbDefE(n, v) == [e |-> "verbdef", name |-> n, v |-> v]
IsShy(e) == e.e \in {"assign", "assign_many", "amend_index", "show"}
GuardE(test, body) == ControlE("guard", <<<<test>>, <<body, Jump("return.", "")>>>>)
Statements(ts) == \* the rows between the separators that stand in no brace of their own
  LET level(i) == Count1(First(i, ts), "lbrace") - Count1(First(i, ts), "rbrace")
      cuts == SetToSortSeq({i \in DOMAIN ts : ts[i].k = "separator" /\ level(i) = 0}, <)
      ends == <<0>> \o cuts \o <<Len(ts) + 1>>
  IN  SelectSeq([i \in 1 .. Len(cuts) + 1 |-> SubSeq(ts, ends[i] + 1, ends[i + 1] - 1)], LAMBDA row : row # <<>>)
GuardColon(ts) ==
  LET count(i, ks) == Cardinality({j \in 1 .. i : ts[j].k \in ks})
      hits == {i \in DOMAIN ts : ts[i].k = "colon" /\ count(i, {"lbrace", "lparen", "lbracket"}) = count(i, {"rbrace", "rparen", "rbracket"})}
  IN  IF hits = {} THEN 0 ELSE Min(hits)
OwnNames(body) == \* the names a brace says outside the braces in it
  LET level(i) == Count1(First(i, body), "lbrace") - Count1(First(i, body), "rbrace")
  IN  {body[i].name : i \in {j \in DOMAIN body : body[j].k = "name" /\ level(j) = 0}}
Truncated(stmts, d) == \* the answer is the last sentence, or the first that assigns nothing
  LET plain == {i \in DOMAIN stmts : ~IsShy(stmts[i]) /\ stmts[i].e \notin {"control", "verbdef"}}
  IN  IF d.first /\ plain # {} THEN First(Min(plain), stmts) ELSE stmts
Said(e, verbs) == [e |-> e, verbs |-> verbs]

RECURSIVE ParseStatement(_, _, _), FoldDfns(_, _, _)
OneStatement(ts, d, verbs) == IF ts = <<>> THEN Refusal("parse") ELSE ParseStatement(ts, d, verbs)
ParseGuarded(ts, d, verbs) ==
  LET colon == GuardColon(ts)
      default == ts[1].k = "name" /\ FirstTok(Tail(ts)).k = "gets" /\ ts[1].name = AlphaName
      said == OneStatement(ts, d, verbs)
  IN  IF colon > 0
      THEN Then(OneStatement(First(colon - 1, ts), d, verbs), LAMBDA test :
             Then(OneStatement(After(colon, ts), d, test.verbs), LAMBDA body : Said(GuardE(test.e, body.e), body.verbs)))
      ELSE Then(said, LAMBDA s : IF default /\ s.e.e = "assign" THEN Said([s.e EXCEPT !.e = "assign_default"], s.verbs) ELSE s)
ParseDfnBody(body, d, verbs) ==
  LET own(ts) == [i \in DOMAIN ts |-> IF ts[i].k = "del" THEN VerbFrag([form |-> "SelfRef"]) ELSE ts[i]]
  IN  FoldLeft(LAMBDA acc, row : Then(acc, LAMBDA a : Then(ParseGuarded(own(row), d, a.verbs), LAMBDA s :
                 [stmts |-> Append(a.stmts, s.e), verbs |-> s.verbs])),
               [stmts |-> <<>>, verbs |-> verbs], Statements(body))
Dfn(body, dyadic, stmts, d) ==
  LET kept == Truncated(stmts, d)
  IN  [form |-> "Explicit", left |-> dyadic, body |-> kept, home |-> "", pure |-> \A i \in DOMAIN kept : BlockIsPure(kept[i])]
(* A brace that names an operand is an operator, read once for each part of *)
(* speech its operands may be; one of the readings has to make sense.       *)
BuildDfn(body, d, verbs) ==
  LET own == OwnNames(body)
      alphaop == AlphaAlpha \in own
      omegaop == OmegaOmega \in own
      inner(av, ov) == (IF alphaop /\ ~av THEN AlphaAlpha :> NamedVerb(AlphaAlpha) ELSE NoNames)
                       @@ (IF (alphaop \/ omegaop) /\ ~ov THEN OmegaOmega :> NamedVerb(OmegaOmega) ELSE NoNames) @@ verbs
      reading(av, ov) == Then(ParseDfnBody(body, d, inner(av, ov)), LAMBDA p : Dfn(body, AlphaName \in own, p.stmts, d))
      readings == <<reading(FALSE, FALSE), reading(TRUE, FALSE), reading(FALSE, TRUE), reading(TRUE, TRUE)>>
  IN  IF ~alphaop /\ ~omegaop THEN Then(readings[1], LAMBDA v : VerbFrag(v))
      ELSE IF \A i \in 1 .. 4 : Refused(readings[i]) THEN Refusal("parse") ELSE UserOpTok(readings, omegaop)
FoldDfns(ts, d, verbs) ==
  LET opens == {i \in DOMAIN ts : ts[i].k = "lbrace"}
      open == Min(opens)
      close == MatchClose(ts, open, "rbrace")
  IN  IF opens = {} THEN Row(ts)
      ELSE IF close = 0 THEN Refusal("parse")
      ELSE Then(BuildDfn(SubSeq(ts, open + 1, close - 1), d, verbs), LAMBDA t :
             FoldDfns(First(open - 1, ts) \o <<t>> \o After(close, ts), d, verbs))
ParseStatement(ts, d, verbs) ==
  LET names(row) == Len(row) > 2 /\ row[1].k = "name" /\ row[2].k = "gets"
      named(n, v) == Said(VerbDefE(n, v), (n :> v) @@ verbs)
      lone(row) == row[3].k = "userop" \/ IsRealVerb(row[3])
      read(row) == IF row = <<>> THEN Refusal("parse") ELSE Then(ParseRange(row, d), LAMBDA e : Said(e, verbs))
      tines(row) == Then(TineRun(After(2, row), d), LAMBDA v : IF Known(v) THEN named(row[1].name, v) ELSE read(row))
  IN  Then(FoldDfns(SubstituteVerbs(ts, verbs), d, verbs), LAMBDA f :
        IF Len(f.toks) = 3 /\ names(f.toks) /\ lone(f.toks)
        THEN named(f.toks[1].name, IF IsRealVerb(f.toks[3]) THEN f.toks[3].v ELSE UnappliedOp(f.toks[3].def, f.toks[3].omega))
        ELSE Then(FoldOperators(UnwrapLoneOperators(f.toks), <<>>, d), LAMBDA g : Then(FoldAxes(g.toks, <<>>, d), LAMBDA r :
               IF names(r.toks) THEN tines(r.toks) ELSE read(r.toks))))
=============================================================================
