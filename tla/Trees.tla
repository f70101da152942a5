------------------------------- MODULE Trees -------------------------------
(***************************************************************************)
(* Verbs as values (verb.rs): the trees the frontends build from           *)
(* primitives and modifiers, the primitive tables of both languages, and   *)
(* what a tree says of itself: its ranks, whether running it changes       *)
(* anything, and its obverse, which is a tree again.                       *)
(***************************************************************************)
EXTENDS Selecting

Inf == 99  \* RANK_INF

(* A tree is its form, the trees it is made of and the noun, ranks, rule,   *)
(* count or kind it holds.                                                  *)
One(form, f)      == [form |-> form, f |-> f]
Two(form, f, g)   == [form |-> form, f |-> f, g |-> g]
Fork(f, g, h)     == [form |-> "Fork", f |-> f, g |-> g, h |-> h]
With(form, f, n)  == [form |-> form, f |-> f, n |-> n]
Constant(n)       == [form |-> "Constant", n |-> n]
NounFork(n, g, h) == [form |-> "NounFork", n |-> n, f |-> g, g |-> h]
Cycle(vs)         == [form |-> "Cycle", vs |-> vs]
Ranked(f, ranks)  == With("Rank", f, ranks)
Same3(r)          == <<r, r, r>>
AtopAt(f, g)      == With("Atop", f, "at") @@ [g |-> g]
AtopCap(f, g)     == With("Atop", f, "cap") @@ [g |-> g]
BondLeft(n, f)    == With("BondLeft", f, n)
BondRight(f, n)   == With("BondRight", f, n)
Power(f, by, n)   == With("PowerN", f, [by |-> by, n |-> n])
NoVerb            == [form |-> "none"]
Known(v)          == v.form # "none"

Prim(name, monad, dyad, ranks, origin) ==
  [form |-> "Prim", name |-> name, monad |-> monad, dyad |-> dyad, ranks |-> ranks, origin |-> origin]
Reads(v, op) == v.form = "Prim" /\ v.dyad = op

(***************************************************************************)
(* The primitives.                                                         *)
(***************************************************************************)
Atomic == {
  <<"+", "Conj", "Add">>, <<"-", "Neg", "Sub">>, <<"*", "Signum", "Mul">>, <<"%", "Recip", "Div">>,
  <<"^", "Exp", "Pow">>, <<"%:", "Sqrt", "Root">>, <<"^.", "Ln", "Log">>, <<"|", "Abs", "Residue">>,
  <<"<.", "Floor", "Min">>, <<">.", "Ceil", "Max">>, <<">", "Open", "Gt">>, <<"<:", "Dec", "Le">>,
  <<">:", "Inc", "Ge">>, <<"+:", "Double", "Nor">>, <<"*:", "Square", "Nand">>, <<"*.", "PolarParts", "Lcm">>,
  <<"+.", "ComplexParts", "Gcd">>, <<"!", "Factorial", "Binomial">>, <<"o.", "Pi", "Circle">>,
  <<"j.", "Imaginary", "MakeComplex">>, <<"r.", "Polar", "PolarBy">>}
Pervading == {<<"=", "SelfClassify", "Eq">>, <<"<", "Enclose", "Lt">>, <<"~:", "NubSieve", "Ne">>,
  <<"q:", "PrimeFactors", "PrimeExponents">>, <<"?", "Roll", "Deal">>, <<"?.", "RollFixed", "DealFixed">>}
LeftLists == {<<"$", "ShapeOf", "Reshape">>, <<"#", "Tally", "Copy">>, <<"{.", "Head", "Take">>,
  <<"}.", "Behead", "Drop">>, <<"|.", "Reverse", "Rotate">>, <<"|:", "TransposeAxes", "TransposeJ">>,
  <<"\":", "Format", "FormatSpecJ">>, <<"{::", "MapPaths", "Fetch">>}
Wholes == {<<"~.", "Nub", "None">>, <<",", "Ravel", "AppendLeading">>, <<",:", "Itemize", "Laminate">>,
  <<"{:", "Tail", "None">>, <<"}:", "Curtail", "None">>, <<"x:", "ToExact", "ExactForm">>,
  <<"$.", "Sparse", "SparseForm">>, <<"e.", "RazeIn", "MemberJ">>, <<"/:", "GradeUp", "GradeSelectUp">>,
  <<"\\:", "GradeDown", "GradeSelectDown">>, <<";", "Raze", "Link">>, <<"L.", "LevelOf", "None">>,
  <<"E.", "None", "FindSeq">>, <<"u:", "Unicode", "UnicodeForm">>, <<"s:", "Symbols", "SymbolForm">>,
  <<"]", "Same", "Right">>, <<"[", "Same", "Left">>, <<"echo", "Echo", "None">>}
Ones == {<<"-:", "Halve", "Match", 0, Inf, Inf>>, <<"-.", "OneMinus", "Less", 0, Inf, Inf>>,
  <<",.", "RavelItems", "AppendLeading", Inf, -1, -1>>, <<"#.", "DecodeBits", "Decode", 1, 1, 1>>,
  <<"#:", "EncodeBits", "Encode", Inf, 1, 0>>, <<"{", "Catalogue", "From", 1, 0, Inf>>,
  <<"i.", "IotaJ", "IndexOf", 1, Inf, Inf>>, <<"i:", "Steps", "IndexOfLast", 0, Inf, Inf>>,
  <<"I.", "Indices", "IntervalIndex", 1, Inf, Inf>>, <<"p:", "NthPrime", "PrimeMeta", 0, Inf, Inf>>,
  <<"p.", "PolyRoots", "PolyEval", 1, 1, 0>>, <<"p..", "PolyDeriv", "PolyIntegral", 1, 0, 1>>,
  <<"%.", "MatrixInverse", "MatrixDivide", 2, Inf, 2>>, <<";:", "Words", "SequentialMachine", 1, Inf, Inf>>,
  <<"\".", "Execute", "ParseNumbers", 1, Inf, 1>>, <<"A.", "AnagramIndex", "AnagramFrom", 1, 0, Inf>>,
  <<"C.", "CycleForm", "Permute", 1, 1, Inf>>}
Rows6(rows, a, b, c) == {<<r[1], r[2], r[3], a, b, c>> : r \in rows}
Table6 == Rows6(Atomic, 0, 0, 0) \cup Rows6(Pervading, Inf, 0, 0) \cup Rows6(LeftLists, Inf, 1, Inf)
          \cup Rows6(Wholes, Inf, Inf, Inf) \cup Ones
Indexed(rows, origin) ==
  [w \in {r[1] : r \in rows} |->
    LET r == CHOOSE r \in rows : r[1] = w IN Prim(r[1], r[2], r[3], <<r[4], r[5], r[6]>>, origin)]
JPrims == Indexed(Table6, 0)
Named(word) == IF word \in DOMAIN JPrims THEN JPrims[word] ELSE NoVerb

(* APL's, under its dialect's readings: which arrow opens, what encloses    *)
(* and indexes, and what a lookup's left argument is.                       *)
AplWholes == {<<"iota", "IotaApl", "IndexOf">>, <<"epsilon", "Enlist", "MemberApl">>, <<"down_shoe", "Nub", "Union">>,
  <<"up_shoe", "None", "Intersect">>, <<"equivalent", "Depth", "Match">>, <<"grade_up", "GradeUp", "CollateUp">>,
  <<"grade_down", "GradeDown", "CollateDown">>, <<"circle_bar", "Reverse", "RotateFirst">>,
  <<"comma_bar", "TableOf", "AppendLeading">>, <<"base", "None", "DecodeApl">>, <<"represent", "None", "EncodeApl">>,
  <<"transpose", "TransposeAxes", "TransposeApl">>, <<"left_shoe_underbar", "Nest", "PartitionEnclose">>,
  <<"squad", "Same", "Squad">>, <<"domino", "MatrixInverse", "MatrixDivide">>, <<"comma", "Ravel", "AppendLast">>,
  <<"not_equivalent", "Tally", "NotMatch">>, <<"right_tack", "Same", "Right">>, <<"left_tack", "Same", "Left">>,
  <<"find", "None", "FindSeq">>, <<"circle_stile", "Reverse", "RotateLast">>}
AplAtomic == {<<"plus", "Conj", "Add">>, <<"minus", "Neg", "Sub">>, <<"times", "Signum", "Mul">>,
  <<"divide", "Recip", "DivApl">>, <<"ceiling", "Ceil", "Max">>, <<"floor", "Floor", "Min">>, <<"star", "Exp", "Pow">>,
  <<"stile", "Abs", "Residue">>, <<"equal", "None", "Eq">>, <<"less", "None", "Lt">>, <<"not_more", "None", "Le">>,
  <<"more", "None", "Gt">>, <<"not_less", "None", "Ge">>, <<"and", "None", "Lcm">>, <<"or", "None", "Gcd">>,
  <<"nor", "None", "Nor">>, <<"nand", "None", "Nand">>, <<"log", "Ln", "Log">>, <<"bang", "Factorial", "Binomial">>,
  <<"circle", "Pi", "Circle">>}
AplLeftLists == {<<"rho", "ShapeOf", "Reshape">>, <<"format", "Format", "FormatSpec">>, <<"down_arrow", "Split", "Drop">>}
AplReadings(d) == {
  <<"not_equal", "NubSieve", "Ne", Inf, 0, 0>>, <<"tilde", "Not", "Less", 0, Inf, Inf>>, <<"question", "Roll", "Deal", Inf, 0, 0>>,
  <<"hydrant", "Execute", "None", 1, Inf, Inf>>,
  <<"up_arrow", IF d.mix THEN "Open" ELSE "First", "Take", IF d.mix THEN 0 ELSE Inf, 1, Inf>>,
  <<"right_shoe", IF d.mix THEN "First" ELSE "Open", "Pick", IF d.mix THEN Inf ELSE 0, Inf, Inf>>,
  <<"left_shoe", "EncloseExcept", IF d.counts THEN "PartitionCounts" ELSE "PartitionEnclose", Inf, Inf, Inf>>,
  <<"iota_underbar", "IndicesBoxed", "IntervalIndex", Inf, IF d.major THEN Inf ELSE 1, Inf>>}
AplTable(d) == Rows6(AplAtomic, 0, 0, 0) \cup Rows6(AplWholes, Inf, Inf, Inf) \cup Rows6(AplLeftLists, Inf, 1, Inf)
               \cup AplReadings(d)
Apl2 == [mix |-> FALSE, counts |-> FALSE, major |-> FALSE]
AplPrims == Indexed(AplTable(Apl2), 1)
VerbFor(glyph) == IF glyph = "circle_stile" THEN Ranked(AplPrims[glyph], <<1, Inf, Inf>>) ELSE AplPrims[glyph]

(***************************************************************************)
(* What a tree says of itself.                                             *)
(***************************************************************************)
RECURSIVE VerbRanks(_)
VerbRanks(v) ==
  CASE v.form = "Prim" -> v.ranks
    [] v.form = "Rank" -> v.n
    [] v.form = "Windowed" /\ v.n # "scan" -> <<Inf, 0, Inf>>
    [] v.form = "Each" -> Same3(0)
    [] v.form \in {"Fit", "Fill", "Memo"} \/ v.form = "WithObverse" -> VerbRanks(v.f)
    [] v.form = "ShiftFill" -> <<Inf, 1, Inf>>
    [] v.form = "Commute" -> LET r == VerbRanks(v.f) IN <<Inf, r[3], r[2]>>
    [] v.form = "Cut" -> <<Inf, IF v.n \in {1, -1, 2, -2} THEN 1 ELSE 2, Inf>>
    [] v.form = "InnerProduct" -> <<2, Inf, Inf>>
    [] OTHER -> Same3(Inf)

Parts(v) ==
  {v[k] : k \in DOMAIN v \cap {"f", "g", "h"}} \cup (IF v.form = "Cycle" THEN Range(v.vs) ELSE {})
Effects == {"Echo", "Roll", "RollFixed"}
RECURSIVE IsPure(_)
IsPure(v) == IF v.form = "Prim" THEN v.monad \notin Effects /\ v.dyad \notin {"Deal", "DealFixed"}
             ELSE \A p \in Parts(v) : IsPure(p)

ScalarOps == Comparisons \cup Arithmetic \cup {"Sub", "Div", "DivApl", "Root", "Log", "Circle", "MakeComplex", "PolarBy"}
RECURSIVE ScalarOp(_)
ScalarOp(v) == CASE v.form = "Prim" -> IF v.dyad \in ScalarOps THEN v.dyad ELSE None
                 [] v.form = "Rank" -> ScalarOp(v.f)
                 [] OTHER -> None
ScalarOf(v) == IF v.form = "Prim" THEN ScalarOp(v) ELSE None
FoldsWith(u, op) == u.form = "Reduce" /\ ScalarOf(u.f) = op

(* The same verb counting from another origin, where it counts at all.      *)
Counting == {"GradeUp", "GradeDown", "IotaApl", "Indices", "IndicesBoxed", "Roll", "RollFixed"}
CountingDyads == {"IndexOf", "IndexOfLast", "CollateUp", "CollateDown", "Squad", "Pick", "Deal", "DealFixed"}
RECURSIVE WithOrigin(_, _)
WithOrigin(v, origin) ==
  CASE v.form = "Prim" /\ (v.monad \in Counting \/ v.dyad \in CountingDyads) -> [v EXCEPT !.origin = origin]
    [] v.form \in {"Rank", "Reduce", "NWise", "Windowed", "Commute", "Each", "Fit", "Fill", "AlongAxis"} ->
         LET u == WithOrigin(v.f, origin) IN IF Known(u) THEN [v EXCEPT !.f = u] ELSE NoVerb
    [] OTHER -> NoVerb

(* f/ and f~/ of a scalar verb.                                             *)
FoldedStep(u) ==
  LET inner == IF u.form = "Reduce" /\ u.f.form = "Commute" THEN u.f.f ELSE u.f
  IN  IF u.form # "Reduce" \/ ScalarOf(inner) = None THEN NoVerb
      ELSE [form |-> "step", op |-> ScalarOf(inner), swap |-> u.f.form = "Commute"]

(***************************************************************************)
(* Obverses.                                                               *)
(***************************************************************************)
SelfInverse == {"Conj", "Neg", "Recip", "OneMinus", "Reverse", "TransposeAxes", "GradeUp", "CycleForm",
                "MatrixInverse", "PolyRoots", "Same"}
ByMonad == [Exp |-> "^.", Ln |-> "^", Sqrt |-> "*:", Square |-> "%:", Double |-> "-:", Halve |-> "+:", Inc |-> "<:",
            Dec |-> ">:", Enclose |-> ">", EncloseExcept |-> ">", Open |-> "<", DecodeBits |-> "#:", EncodeBits |-> "#.",
            Itemize |-> "{.", Head |-> ",:"]
Made(name, monad, ranks) == Prim(name, monad, "None", ranks, 0)
ExpandVerb == Prim("#^:_1", "None", "Expand", <<Inf, 1, Inf>>, 0)
Reduced(word) == One("Reduce", Named(word))
PrimObverse(v) ==
  CASE v.monad \in SelfInverse -> v
    [] v.monad \notin SelfInverse /\ v.dyad = "Copy" -> ExpandVerb
    [] v.monad = "Imaginary" -> AtopAt(BondLeft(Scalar("int", 0), Named("-")), Named("j."))
    [] v.monad = "Polar" -> AtopAt(AtopAt(Named("-"), Named("j.")), Named("^."))
    [] v.monad \in {"ComplexParts", "PolarParts"} ->
         Ranked(Reduced(IF v.monad = "PolarParts" THEN "r." ELSE "j."), <<1, Inf, Inf>>)
    [] v.monad = "GradeDown" -> AtopAt([Named("/:") EXCEPT !.origin = v.origin], Named("|."))
    [] v.monad = "PrimeFactors" -> Ranked(Reduced("*"), <<1, Inf, Inf>>)
    [] v.monad = "Words" ->
         AtopAt(Named("}:"), AtopAt(Named(";"), With("Each", BondRight(Named(","), Arr("char", <<1>>, <<Blank>>)), "always")))
    [] v.monad = "ToExact" -> BondLeft(Scalar("int", -1), Named("x:"))
    [] v.monad = "Unicode" -> BondLeft(Scalar("int", 3), Named("u:"))
    [] v.monad = "Symbols" -> BondLeft(Scalar("int", 5), Named("s:"))
    [] v.monad = "NthPrime" -> Made("p:^:_1", "PrimeCount", Same3(0))
    [] v.monad = "Sparse" -> Made("$.^:_1", "Dense", Same3(Inf))
    [] v.monad = "Indices" /\ v.origin = 0 -> Made("I.^:_1", "IndicesInverse", <<1, Inf, Inf>>)
    [] v.monad = "Factorial" -> Made("!^:_1", "FactorialInverse", Same3(0))
    [] v.monad = "FactorialInverse" -> Named("!")
    [] v.monad = "Format" -> IF v.name = "format" THEN AplPrims["hydrant"] ELSE Named("\".")
    [] v.monad = "Execute" -> IF v.name = "hydrant" THEN AplPrims["format"] ELSE Named("\":")
    [] v.monad \in DOMAIN ByMonad -> Named(ByMonad[v.monad])
    [] OTHER -> NoVerb

(* A scan is undone by differences between neighbours, of lists and more.   *)
ScanObverse(v) ==
  LET op == ScalarOf(v.f.f)
      suffix == v.n = "suffix"
      shift == [form |-> "ShiftFill", n |-> Scalar("int", IF op \in {"Add", "Sub"} THEN 0 ELSE 1)]
      neighbour == IF suffix THEN BondLeft(Scalar("int", 1), shift) ELSE shift
      step == CASE op = "Add" \/ (op = "Sub" /\ ~suffix) -> "-"
                [] op = "Sub" /\ suffix -> "+"
                [] op = "Mul" \/ (op \in {"Div", "DivApl"} /\ ~suffix) -> "%"
                [] OTHER -> "*"
      differences == Two("Hook", Named(step), neighbour)
      signs == AtopAt(BondRight(Named("$"), Ints(<<1, -1>>)), Named("#"))
      undo == IF suffix \/ op \in {"Add", "Mul"} THEN differences
              ELSE Fork(differences, Named(IF op = "Sub" THEN "*" ELSE "^"), signs)
      ranked == AtopAt(AtopAt(BondLeft(Scalar("int", 0), Named("<")), AtopAt(Named("#"), Named("$"))),
                       BondLeft(Scalar("int", 0), Named("+")))
  IN  IF v.f.form # "Reduce" \/ op \notin {"Add", "Sub", "Mul", "Div", "DivApl"} THEN NoVerb
      ELSE Two("PowerV", undo, ranked)

Negated(n) == [n EXCEPT !.data = [i \in DOMAIN n.data |-> -n.data[i]]]
(* A bond on one of the verbs on structure, under a rank of its own or not. *)
DropObverseKeeping(n) == \* mutant of DropObverse: as many items as were dropped are put back on the wrong side
  Two("Hook", One("Commute", Named("{.")), AtopAt(BondLeft(Scalar("int", Abs(n)), Named("+")), Named("#")))
DropObverse(n) ==
  LET size == AtopAt(BondLeft(Scalar("int", Abs(n)), Named("+")), Named("#"))
  IN  Two("Hook", One("Commute", Named("{.")), IF n >= 0 THEN AtopAt(Named("-"), size) ELSE size)
StructuralObverse(n, f, left) ==
  LET p == IF f.form = "Rank" THEN f.f ELSE f
      items == IF Rank(n) = 0 THEN 1 ELSE n.shape[1]
      whole(words) == AtopAt(Named("/:"), AtopAt(BondLeft(n, Named(words)), AtopAt(Named("i."), Named("#"))))
      width == AtopAt(BondRight(Named("$"), n), AtopAt(Named(">:"), AtopAt(Named("<."),
        AtopAt(BondLeft(n, Named("^.")), AtopAt(BondLeft(Scalar("int", 1), Named(">.")),
          AtopAt(Reduced(">."), AtopAt(Named("|"), Named(","))))))))
  IN  CASE p.form # "Prim" -> NoVerb
        [] p.form = "Prim" /\ p.dyad \in {"AppendLeading", "AppendLast"} ->
             BondLeft(Scalar("int", IF left THEN items ELSE -items), Named("}."))
        [] p.form = "Prim" /\ p.dyad \in {"Rotate", "RotateFirst", "RotateLast"} /\ left -> BondLeft(Negated(n), f)
        [] p.form = "Prim" /\ p.dyad = "Copy" /\ left -> BondLeft(n, ExpandVerb)
        [] p.form = "Prim" /\ p.dyad = "Drop" /\ left -> IF Count(n) = 1 /\ Rank(n) < 2 THEN DropObverse(n.data[1]) ELSE NoVerb
        [] p.form = "Prim" /\ p.dyad = "Decode" /\ left -> Fork(width, Named("#:"), Named("]"))
        [] p.form = "Prim" /\ p.dyad = "Encode" /\ left -> BondLeft(n, Named("#."))
        [] p.form = "Prim" /\ p.dyad \in {"AnagramFrom", "Permute"} /\ left ->
             Fork(whole(IF p.dyad = "Permute" THEN "C." ELSE "A."), Named("{"), Named("]"))
        [] OTHER -> NoVerb

(* On a scalar verb; the noun of a commuted one is on the other side.       *)
RECURSIVE BondObverse(_, _, _)
BondObverse(n, f, left) ==
  LET other(word) == IF left THEN BondLeft(n, Named(word)) ELSE BondRight(Named(word), n)
      op == ScalarOf(f)
  IN  CASE f.form = "Commute" -> IF left THEN NoVerb ELSE BondObverse(n, f.f, TRUE)
        [] f.form # "Commute" /\ Known(StructuralObverse(n, f, left)) -> StructuralObverse(n, f, left)
        [] Reads(f, "PolyIntegral") /\ left -> Named("p..")
        [] op \in {"Sub", "Div", "DivApl"} /\ left -> BondLeft(n, f)
        [] op = "Add" -> BondRight(Named("-"), n)
        [] op = "Mul" -> BondRight(Named("%"), n)
        [] op = "Sub" /\ ~left -> other("+")
        [] op \in {"Div", "DivApl"} /\ ~left -> other("*")
        [] op = "Pow" -> BondLeft(n, Named(IF left THEN "^." ELSE "%:"))
        [] op = "Log" -> IF left THEN BondLeft(n, Named("^")) ELSE BondRight(Named("%:"), n)
        [] op = "Root" -> BondRight(Named(IF left THEN "^" ELSE "^."), n)
        [] op = "Circle" /\ left -> BondLeft(Negated(n), Named("o."))
        [] OTHER -> NoVerb

ConstantNoun(v) ==
  CASE v.form = "Constant" -> v.n
    [] v.form = "NounFork" -> IF v.f.form = "Prim" /\ v.f.name = "[" /\ v.g.form = "Prim" /\ v.g.name = "]" THEN v.n ELSE Declined
    [] OTHER -> Declined
CommuteObverse(f) ==
  CASE f.form # "Prim" -> NoVerb
    [] f.form = "Prim" /\ f.name = "+" -> Named("-:")
    [] f.form = "Prim" /\ f.name = "*" -> Named("%:")
    [] f.form = "Prim" /\ f.name = "," -> Fork(AtopAt(Named("<."), AtopAt(Named("-:"), Named("#"))), Named("{."), Named("]"))
    [] f.form = "Prim" /\ f.name = ",:" -> Named("{.")
    [] f.form = "Prim" /\ f.name = ";" -> AtopAt(Named(">"), Named("{."))
    [] OTHER -> NoVerb

RECURSIVE Obverse(_)
(* The parts of a composition are undone in the other order.                *)
Undone(last, first) ==
  LET a == Obverse(last) b == Obverse(first) IN IF Known(a) /\ Known(b) THEN AtopAt(a, b) ELSE NoVerb
(* g^:_1 @ f & g: one verb under another.                                   *)
UnderParts(f, g) == g.form = "Compose" /\ Obverse(g.g) = f
WithinObverse(v, u) == IF Known(u) THEN [v EXCEPT !.f = u] ELSE NoVerb
RankObverse(v) ==
  LET f == v.f
      inner == IF f.form = "Atop" /\ UnderParts(f.f, f.g) THEN Undone(f.g, f.f) ELSE Obverse(f)
      built == \/ f.form = "Atop" /\ f.n = "at" /\ v.n = VerbRanks(f.g)
               \/ f.form \in {"Compose", "Beside"} /\ v.n = Same3(VerbRanks(f.g)[1])
  IN  CASE ~Known(inner) -> NoVerb
        [] Known(inner) /\ built /\ inner.form = "Atop" /\ inner.n = "at" -> Ranked(inner, VerbRanks(inner.g))
        [] OTHER -> Ranked(inner, v.n)
Obverse(v) ==
  CASE v.form = "Prim" -> PrimObverse(v)
    [] v.form = "WithObverse" -> v.g
    [] v.form = "Atop" -> IF UnderParts(v.f, v.g) THEN NoVerb ELSE Undone(v.g, v.f)
    [] v.form \in {"Compose", "Beside"} -> Undone(v.g, v.f)
    [] v.form = "Rank" -> RankObverse(v)
    [] v.form = "Fit" -> IF v.f.form = "Prim" THEN WithinObverse(v, Obverse(v.f)) ELSE NoVerb
    [] v.form \in {"Fill", "Each"} -> WithinObverse(v, Obverse(v.f))
    [] v.form = "Reduce" -> IF Reads(v.f, "Mul") THEN Named("q:") ELSE NoVerb
    [] v.form = "Windowed" -> ScanObverse(v)
    [] v.form = "PowerN" /\ v.n.by = "times" -> WithinObverse(v, Obverse(v.f))
    [] v.form = "PowerN" /\ v.n.by = "inverse" -> Power(v.f, "times", v.n.n)
    [] v.form = "BondLeft" -> BondObverse(v.n, v.f, TRUE)
    [] v.form = "BondRight" -> BondObverse(v.n, v.f, FALSE)
    [] v.form = "Fork" /\ ~Refused(ConstantNoun(v.h)) -> Undone(BondRight(v.g, ConstantNoun(v.h)), v.f)
    [] v.form = "Fork" /\ Refused(ConstantNoun(v.h)) ->
         IF Refused(ConstantNoun(v.f)) THEN NoVerb ELSE Undone(BondLeft(ConstantNoun(v.f), v.g), v.h)
    [] v.form = "NounFork" -> Undone(BondLeft(v.n, v.f), v.g)
    [] v.form = "Commute" -> CommuteObverse(v.f)
    [] OTHER -> NoVerb
=============================================================================
