------------------------------- MODULE Verbs -------------------------------
(***************************************************************************)
(* Running a tree (verb.rs): one argument or two are handed to the verb,   *)
(* its rank cuts them into cells, its parts answer in their order, and a   *)
(* refusal anywhere is the answer.  Several trees are recognised and       *)
(* answered in one pass over the buffer.                                   *)
(***************************************************************************)
EXTENDS Trees

CONSTANT ConvergeLimit  \* steps an iteration may take (CONVERGE_LIMIT)
ASSUME ConvergeLimitAssumption == ConvergeLimit \in Nat \ {0}

RECURSIVE Monad(_, _), Dyad(_, _, _)
Scalars(op, x, y) == ScalarDyad(op, FALSE, x, y)

(***************************************************************************)
(* Primitives on one cell.  A boxed array of simple scalars one type holds *)
(* is in APL that simple array, and beside one that is not its elements    *)
(* are boxed for a comparison.                                             *)
(***************************************************************************)
HoldsScalarBoxes(a) ==
  a.type = "box" /\ a.data # <<>> /\ \A i \in DOMAIN a.data : Rank(a.data[i]) = 0 /\ a.data[i].type # "box"
Tightened(a) ==
  IF Refused(a) \/ lang # "APL" THEN a
  ELSE IF ~HoldsScalarBoxes(a) THEN a
  ELSE LET t == FrameType(a.data)
       IN  IF t = None THEN a ELSE [a EXCEPT !.type = t, !.data = [i \in DOMAIN a.data |-> a.data[i].data[1]]]
Aligned(a, other) ==
  IF lang = "APL" /\ HoldsScalarBoxes(other) /\ a.type # "box" THEN BoxedElements(a) ELSE a

GradeBy == IF lang = "J" THEN "J" ELSE "APL2"
Graded(p, y, down) ==
  IF lang = "APL" /\ Rank(y) = 0 THEN Refusal("domain")
  ELSE LET order == GradeOrder(GradeBy, y, down) IN Ints([i \in DOMAIN order |-> p.origin + order[i]])
BoxMonads(p, y) ==
  CASE p.monad = "IndicesInverse" -> IndicesInverse(y)
    [] p.monad = "Same" -> y
    [] p.monad = "Itemize" -> Arr(y.type, <<1>> \o y.shape, y.data)
    [] p.monad = "Enclose" -> Enclose(y, "always")
    [] p.monad = "EncloseExcept" -> Enclose(y, "except")
    [] p.monad = "Open" -> OpenCell(y)
    [] p.monad = "Raze" -> Raze(y)
    [] p.monad = "Catalogue" -> Catalogue(y)
    [] p.monad = "RazeIn" -> RazeIn(y)
    [] p.monad = "First" -> FirstOf(y)
    [] p.monad = "Enlist" -> Enlist(y)
    [] p.monad = "Depth" -> Scalar("int", Depth(y))
    [] p.monad = "Indices" -> Indices(y, p.origin, FALSE)
    [] p.monad = "IndicesBoxed" -> Indices(y, p.origin, TRUE)
    [] p.monad = "Steps" -> Steps(y)
    [] p.monad = "SelfClassify" -> SelfClassify(y)
    [] p.monad = "NubSieve" -> NubSieve(y, FALSE)
    [] p.monad = "MapPaths" -> MapPaths(y)
    [] OTHER -> Refusal("domain")
MonadTable(p, y) ==
  CASE p.monad \in Monads -> ScalarMonad(p.monad, y)
    [] p.monad = "ShapeOf" -> Ints(y.shape)
    [] p.monad = "Tally" -> Scalar("int", Items(y))
    [] p.monad = "Ravel" -> Arr(y.type, <<Count(y)>>, y.data)
    [] p.monad \in {"RavelItems", "TableOf"} -> TableOf(y)
    [] p.monad = "TransposeAxes" -> TransposeAxes(y)
    [] p.monad = "Head" -> HeadItem(y)
    [] p.monad = "Behead" -> Behead(y)
    [] p.monad = "Tail" -> TailItem(y)
    [] p.monad = "Curtail" -> Curtail(y)
    [] p.monad = "Reverse" -> Turned(y)
    [] p.monad = "Nub" -> Nub(y)
    [] p.monad = "GradeUp" -> Graded(p, y, FALSE)
    [] p.monad = "GradeDown" -> Graded(p, y, TRUE)
    [] p.monad = "IotaJ" -> IotaJ(y)
    [] OTHER -> BoxMonads(p, y)

(* A verb that ran on nothing settled no type by running: J declares one.   *)
EmptyTypes(op, t) ==
  CASE op \in Monads -> EmptyMonadType(op, t)
    [] op = "EncodeBits" -> t
    [] op = "DecodeBits" -> "int"
    [] op \in {"Raze", "PrimeFactors"} -> "bool"
    [] op = "ToExact" -> IF t \in {"bool", "int", "ext"} THEN "ext" ELSE "rat"
    [] op = "IotaJ" /\ t = "rat" -> "ext"
    [] OTHER -> None
MonadOp(p, y) ==
  LET r == MonadTable(p, y)
      t == EmptyTypes(p.monad, y.type)
      zeros == t \in NumTypes \/ Count(r) = 0
  IN  IF lang = "APL" THEN Tightened(r)
      ELSE IF Refused(r) THEN r
      ELSE IF Count(y) = 0 /\ t \notin {None, r.type} /\ zeros
           THEN [r EXCEPT !.type = t, !.data = Copies(Count(r), 0)]
           ELSE r

SetVerb(x, y, F(_, _)) == IF SetRank(x, y) THEN Refusal("rank") ELSE F(Aligned(x, y), Aligned(y, x))
Matches(x, y) ==
  /\ lang = "APL" /\ Count(x) = 0 /\ Count(y) = 0 => (x.type = "char") = (y.type = "char")
  /\ Match(x, y)
SearchDyads(p, x, y) ==
  CASE p.dyad = "IndexOfLast" -> IndexOfLast(x, y, p.origin)
    [] p.dyad = "Fetch" -> Fetch(x, y)
    [] p.dyad = "Squad" -> Squad(x, y, p.origin, FALSE, <<>>)
    [] p.dyad = "PartitionEnclose" -> PartitionEnclose(x, y)
    [] p.dyad = "PartitionCounts" -> PartitionCounts(x, y)
    [] p.dyad = "IntervalIndex" -> IntervalIndex(GradeBy, x, y, 0, lang = "APL", lang = "J")
    [] p.dyad = "Less" -> SetVerb(x, y, SetLess)
    [] p.dyad = "Union" -> SetVerb(x, y, UnionItems)
    [] p.dyad = "Intersect" -> SetVerb(x, y, IntersectItems)
    [] p.dyad = "FindSeq" -> FindSeq(Aligned(x, y), Aligned(y, x))
    [] p.dyad = "Expand" -> Expand(x, y, FALSE)
    [] OTHER -> Refusal("domain")
DyadTable(p, x, y) ==
  CASE p.dyad \in Comparisons \cup Arithmetic -> Scalars(p.dyad, x, y)
    [] p.dyad = "Reshape" -> Reshape(x, y, lang = "J")
    [] p.dyad = "Take" -> Take(x, y)
    [] p.dyad = "Drop" -> Drop(x, y)
    [] p.dyad = "Right" -> y
    [] p.dyad = "Left" -> x
    [] p.dyad = "Rotate" -> Rotate(x, y)
    [] p.dyad = "RotateFirst" -> RotateApl(x, y, FALSE)
    [] p.dyad = "RotateLast" -> RotateApl(x, y, TRUE)
    [] p.dyad = "AppendLeading" -> Catenate(x, y, TRUE)
    [] p.dyad = "AppendLast" -> Catenate(x, y, FALSE)
    [] p.dyad = "IndexOf" ->
         IF lang = "APL" /\ Rank(x) > 1 THEN IndexOfCoords(Aligned(x, y), Aligned(y, x), p.origin)
         ELSE IndexOf(Aligned(x, y), Aligned(y, x), p.origin, lang = "J")
    [] p.dyad = "MemberJ" -> MemberJ(x, y)
    [] p.dyad = "MemberApl" -> MemberApl(Aligned(x, y), Aligned(y, x))
    [] p.dyad = "From" -> FromIndex(x, y)
    [] p.dyad = "Encode" -> Encode(x, y)
    [] p.dyad = "Decode" -> Decode(x, y)
    [] p.dyad = "EncodeApl" -> EncodeApl(x, y)
    [] p.dyad = "DecodeApl" -> DecodeApl(x, y)
    [] p.dyad = "Match" -> Scalar("bool", Flag(Matches(x, y)))
    [] p.dyad = "NotMatch" -> Scalar("bool", Flag(~Match(x, y)))
    [] p.dyad = "GradeSelectUp" -> GradeSelect(GradeBy, x, y, FALSE)
    [] p.dyad = "GradeSelectDown" -> GradeSelect(GradeBy, x, y, TRUE)
    [] p.dyad = "Copy" -> CopyItems(x, y)
    [] p.dyad = "CollateUp" -> CollateGrade(x, y, FALSE, p.origin)
    [] p.dyad = "CollateDown" -> CollateGrade(x, y, TRUE, p.origin)
    [] p.dyad = "TransposeJ" -> TransposeJ(x, y)
    [] p.dyad = "TransposeApl" -> TransposeApl(x, y, 1)
    [] p.dyad = "Laminate" -> Laminate(x, y)
    [] p.dyad = "Link" -> Link(x, y)
    [] OTHER -> SearchDyads(p, x, y)
DyadOp(p, x, y) == Tightened(DyadTable(p, x, y))

(***************************************************************************)
(* One argument.                                                           *)
(***************************************************************************)
OpensToItself(v, y) == v.form = "Prim" /\ v.monad = "Open" /\ y.type = "box" /\ Count(y) = 0 /\ lang = "J"
Cycled(v, i) == IF v.form = "Cycle" THEN v.vs[((i - 1) % Len(v.vs)) + 1] ELSE v
Stopping(cells, F(_)) == IF AnyRefused(cells) THEN FirstRefusal(cells) ELSE F(cells)

PrimMonadFrame(p, frame, y) ==
  LET f == First(frame, y.shape)
      cell == FillCell(y, frame, IsPure(p))
      cells == [i \in 1 .. Product(f) |-> MonadOp(p, CellAt(y, frame, i - 1))]
      first == IF Refused(cell) THEN cell ELSE MonadOp(p, cell)
      empty == EmptyFrame(f, y.type, cell, ShapeRefusal(first, FALSE, TRUE), lang = "J", Nothing, first,
                          IF Refused(cell) THEN cell ELSE MonadOp(p, NumericLike(cell)))
      t == EmptyTypes(p.monad, y.type)
  IN  IF Product(f) = 0
      THEN IF Refused(empty) \/ lang # "J" \/ t = None THEN empty ELSE [empty EXCEPT !.type = t]
      ELSE Stopping(cells, LAMBDA cs : IF p.monad = "Open" /\ lang = "APL" THEN AssembleMixed(f, cs) ELSE Assemble(f, cs))
PrimMonad(p, y) ==
  LET frame == Rank(y) - EffectiveRank(p.ranks[1], Rank(y))
  IN  CASE p.monad \in Monads -> ScalarMonad(p.monad, y)
        [] p.monad = "Open" /\ (MixedSimple(y) \/ OpensToItself(p, y)) -> y
        [] OTHER -> IF frame = 0 THEN MonadOp(p, y) ELSE PrimMonadFrame(p, frame, y)

(* A fold under a rank is one pass over the runs of the buffer.             *)
ScalarFold(v) == v.form = "Reduce" /\ ScalarOf(v.f) # None
ReduceVectorCells(u, y, frame) ==
  LET m == y.shape[frame + 1]
      f == First(frame, y.shape)
      r == FoldRunsData(ScalarOf(u.f), y.type, y.data, Product(f), m)
  IN  IF ~ScalarFold(u) \/ Rank(y) # frame + 1 \/ y.type \notin NumTypes THEN Declined
      ELSE IF m = 0 \/ ScalarOf(u.f) \notin Foldable THEN Declined
      ELSE IF m = 1 THEN Arr(y.type, f, y.data)
      ELSE IF Refused(r) THEN Declined ELSE Arr(r.type, f, r.data)
RankMonad(v, rank, y) ==
  LET eff == EffectiveRank(rank, Rank(y))
      frame == Rank(y) - eff
      own == VerbRanks(v)[1]
      f == First(frame, y.shape)
      cell == FillCell(y, frame, IsPure(v))
      fast == ReduceVectorCells(v, y, frame)
      cells == [i \in 1 .. Product(f) |-> Monad(Cycled(v, i), CellAt(y, frame, i - 1))]
  IN  CASE OpensToItself(v, y) -> y
        [] ~OpensToItself(v, y) /\ (frame = 0 \/ (own >= 0 /\ eff >= own)) -> Monad(v, y)
        [] OTHER ->
             IF ~Refused(fast) THEN fast
             ELSE IF Product(f) = 0
                  THEN LET first == IF Refused(cell) THEN cell ELSE Monad(v, cell)
                       IN  EmptyFrame(f, y.type, cell, ShapeRefusal(first, FALSE, TRUE), FALSE, Nothing, first, NoCell)
                  ELSE Stopping(cells, LAMBDA cs : Assemble(f, cs))

(* An argument by columns: what reads no element, what reads every one      *)
(* alike, and the folds whose runs lie together that way.                   *)
ReduceColumns(v, y) ==
  LET op == ScalarOf(v) n == y.shape[1] m == ItemSize(y) s == After(1, y.shape)
      r == FoldColumnsData(op, y.type, y.data, m, n, LaneWork)
  IN  IF op = None \/ y.type \notin NumTypes \/ n = 0 \/ m = 0 THEN Declined
      ELSE IF n = 1 THEN ColMajor(y.type, s, y.data)
      ELSE IF Refused(r) THEN Declined ELSE ColMajor(r.type, s, r.data)
ReduceRowsColumns(v, y) ==
  LET op == ScalarOf(v.f) rows == y.shape[1] cols == y.shape[2] r == FoldAcrossData(op, y.type, y.data, rows, cols)
  IN  IF ~ScalarFold(v) \/ Rank(y) # 2 \/ y.type \notin NumTypes THEN Declined
      ELSE IF rows = 0 \/ cols = 0 THEN Declined
      ELSE IF cols = 1 THEN Arr(y.type, <<rows>>, y.data)
      ELSE IF Refused(r) THEN Declined ELSE Arr(r.type, <<rows>>, r.data)
MonadColumns(v, y) ==
  CASE v.form = "Prim" /\ v.monad \in Monads -> ScalarMonad(v.monad, y)
    [] v.form = "Prim" /\ v.monad \in {"ShapeOf", "Tally"} -> MonadOp(v, y)
    [] v.form = "Prim" /\ v.monad = "TransposeAxes" -> TransposeAxes(y)
    [] v.form \in {"Reduce", "NWise"} -> ReduceColumns(v.f, y)
    [] v.form = "Rank" /\ Rank(y) = EffectiveRank(v.n[1], Rank(y)) + 1 -> ReduceRowsColumns(v.f, y)
    [] OTHER -> Declined

(***************************************************************************)
(* Insert.  What an empty argument folds to is the verb's identity.        *)
(***************************************************************************)
Extremity == 1000000  \* an infinity, or the dialect's largest number
Identity(t, e) == Scalar(t, e)
ScalarIdentity(op) ==
  CASE op \in {"Add", "Sub", "Gcd", "Residue", "Lt", "Gt", "Ne", "MakeComplex", "PolarBy"} -> Identity("bool", 0)
    [] op \in {"Mul", "Div", "DivApl", "Pow", "Lcm", "Root", "Binomial", "Eq", "Le", "Ge"} -> Identity("bool", 1)
    [] op = "Min" -> Identity("float", Extremity)
    [] op = "Max" -> Identity("float", -Extremity)
    [] OTHER -> Declined
RECURSIVE ReduceIdentity(_)
ReduceIdentity(v) ==
  CASE v.form = "Rank" -> IF v.n = Same3(0) THEN ReduceIdentity(v.f) ELSE Declined
    [] v.form \in {"Memo", "Reduce", "WithObverse"} -> ReduceIdentity(v.f)
    [] v.form = "Cycle" -> ReduceIdentity(v.vs[1])
    [] v.form = "Commute" /\ lang = "J" ->
         IF ScalarOf(v.f) \in {"Pow", "Residue"} THEN Identity("float", Extremity)
         ELSE IF ScalarOf(v.f) = "Root" THEN Identity("bool", 0) ELSE ReduceIdentity(v.f)
    [] v.form = "Prim" -> IF v.dyad = "MatrixDivide" THEN IF lang = "J" THEN Identity("bool", 1) ELSE Declined
                          ELSE ScalarIdentity(v.dyad)
    [] OTHER -> Declined

Diagonal(k) == Arr("bool", <<k, k>>, [i \in 1 .. k * k |-> Flag((i - 1) \div k = (i - 1) % k)])
ReduceNothing(v, y) ==
  LET cell == After(1, y.shape)
      k == IF cell = <<>> THEN 1 ELSE cell[1]
      e == ReduceIdentity(v)
  IN  CASE v.form = "Prim" /\ v.dyad \in {"AppendLeading", "AppendLast"} /\ v.name # ",." ->
             Empty(y.type, <<0>> \o After(1, cell))
        [] lang = "J" /\ (Reads(v, "From") \/ Reads(v, "Permute")) -> Ints(Iota(k))
        [] lang = "J" /\ Reads(v, "MatrixDivide") -> Diagonal(k)
        [] OTHER -> IF Refused(e) THEN Refusal("domain") ELSE Arr(e.type, cell, Copies(Product(cell), e.data[1]))
EmptyCellFoldType(op, t) ==
  LET turned == op \in {"Root", "MakeComplex", "PolarBy"}
      cell == Empty(IF turned THEN t ELSE "bool", <<0>>)
  IN  IF turned /\ t \notin NumTypes THEN IF op = "MakeComplex" THEN "int" ELSE "bool"
      ELSE EmptyScalarType(op, FALSE, cell, cell)

FoldItemsRight(y, F(_, _)) ==
  LET n == Items(y)
      acc[i \in 1 .. n] == IF i = n THEN Item(y, n - 1) ELSE Then(acc[i + 1], LAMBDA a : F(Item(y, i - 1), a))
  IN  acc[1]
(* APL folds the elements at each place of the items, opened, and encloses. *)
ItemFold(v, y) ==
  LET n == Items(y) frame == After(1, y.shape) m == Product(frame)
      opened(i, j) == OpenCell(Atom(y, (i - 1) * m + j - 1))
      fold(j) == LET acc[i \in 1 .. n] == IF i = n THEN opened(n, j)
                                          ELSE Then(acc[i + 1], LAMBDA a : Dyad(v, opened(i, j), a))
                 IN  Then(acc[1], LAMBDA a : Enclose(a, "except"))
  IN  IF m = 0 THEN Assemble(frame, <<>>)
      ELSE Stopping([j \in 1 .. m |-> fold(j)], LAMBDA cs : AssembleItems(frame, cs))
Reduce(v, y) ==
  LET n == Items(y) m == ItemSize(y) cell == After(1, y.shape) op == ScalarOf(v)
      fast == IF y.type \in NumTypes THEN ReduceTyped(op, y.type, y.data, n, m, LaneWork) ELSE Declined
  IN  IF Rank(y) = 0 THEN y
      ELSE IF n = 1 THEN Item(y, 0)
      ELSE IF n = 0 THEN ReduceNothing(v, y)
      ELSE IF m = 0 /\ lang = "J" /\ op # None THEN Empty(EmptyCellFoldType(op, y.type), cell)
      ELSE IF y.type \in NumTypes /\ op # None
           THEN IF ~Refused(fast) THEN Arr(fast.type, cell, fast.data)
                ELSE FoldItemsRight(y, LAMBDA a, b : Scalars(op, a, b))
      ELSE IF lang = "APL" THEN ItemFold(v, y) ELSE FoldItemsRight(y, LAMBDA a, b : Dyad(v, a, b))

(***************************************************************************)
(* Prefixes and suffixes, forwards or back.                                *)
(***************************************************************************)
MachineTypes == {"bool", "int", "float", "complex"}
(* x + c * y, either way round, is one more term of a series.               *)
Scaled(v) ==
  IF v.form = "NounFork" /\ Rank(v.n) = 0 /\ v.n.type \in MachineTypes
     /\ Reads(v.f, "Mul") /\ v.f.ranks = Same3(0) /\ Reads(v.g, "Right") THEN v.n ELSE Declined
AffineStep(v) ==
  IF v.form # "Fork" THEN Declined
  ELSE IF ~(Reads(v.g, "Add") /\ v.g.ranks = Same3(0)) THEN Declined
  ELSE IF Reads(v.f, "Left") THEN Scaled(v.h) ELSE IF Reads(v.h, "Left") THEN Scaled(v.f) ELSE Declined
AffineScan(c, y, back) ==
  LET t == Promote(c.type, y.type)
  IN  IF Items(y) = 0 \/ y.type \notin MachineTypes \/ t \notin {"float", "complex"} THEN Declined
      ELSE Arr(t, y.shape, AffineFlat(y.data, c.data[1], Items(y), ItemSize(y), back))

FoldedOp(u) == LET s == FoldedStep(u) IN IF ~Known(s) \/ s.swap THEN None ELSE s.op
InsertedOp(u) == IF u.form = "Reduce" THEN ScalarOp(u.f) ELSE None
RunsOfNothing(u, base, back) ==
  LET first == IF IsPure(u) THEN Monad(u, base) ELSE NoCell
      again == IF IsPure(u) THEN Monad(u, NumericLike(base)) ELSE NoCell
      left == IF lang = "J" /\ ~back THEN NoIntegers ELSE Nothing
      framed == EmptyFrame(<<0>>, base.type, IF IsPure(u) THEN base ELSE NoCell, FALSE, lang = "J", left, first, again)
      op == InsertedOp(u)
      t == IF op \in {"Root", "MakeComplex", "PolarBy"} THEN "bool" ELSE IF op # None THEN base.type ELSE framed.type
  IN  IF lang = "APL" THEN Empty(base.type, base.shape)
      ELSE IF back /\ u.form = "Cycle" THEN Empty("box", <<0>>) ELSE Empty(t, framed.shape)
(* Backwards, each step takes the answer of the run one item shorter.       *)
RunsFromBack(v, base) ==
  LET n == Items(base)
      acc[i \in 1 .. n] == IF i = n THEN Item(base, n - 1) ELSE Then(acc[i + 1], LAMBDA a : Dyad(v, Item(base, i - 1), a))
  IN  Stopping([i \in 1 .. n |-> acc[i]], LAMBDA cs : Assemble(<<n>>, cs))
RunsOneByOne(u, base, back) ==
  LET n == Items(base)
      part(i) == IF back THEN Section(base, i - 1, n) ELSE Section(base, 0, i)
  IN  Stopping([i \in 1 .. n |-> Monad(Cycled(u, i), part(i))],
        LAMBDA cs : IF lang = "APL" THEN AssembleItems(<<n>>, cs) ELSE Assemble(<<n>>, cs))
Runs(u, y, back) ==
  LET base == AsList(y) n == Items(base) m == ItemSize(base) op == FoldedOp(u)
      named == InsertedOp(u) \in {"Root", "MakeComplex", "PolarBy"}
      scan == IF base.type \in NumTypes /\ op # None /\ (back \/ IsAssociative(op))
              THEN ScanTyped(op, base.type, base.data, n, m, back) ELSE Declined
      c == IF u.form = "Reduce" /\ base.type \in NumTypes THEN AffineStep(u.f) ELSE Declined
      affine == IF Refused(c) THEN c ELSE AffineScan(c, base, back)
  IN  IF n = 0 THEN RunsOfNothing(u, base, back)
      ELSE IF m = 0 /\ lang = "J" /\ InsertedOp(u) # None
           THEN Empty(IF named /\ base.type \in NumTypes THEN EmptyCellFoldType(InsertedOp(u), base.type) ELSE base.type,
                      base.shape)
      ELSE IF ~Refused(scan) THEN Arr(scan.type, base.shape, scan.data)
      ELSE IF ~Refused(affine) THEN affine
      ELSE IF back /\ u.form = "Reduce" /\ IsPure(u) THEN RunsFromBack(u.f, base)
      ELSE RunsOneByOne(u, base, back)

(***************************************************************************)
(* Windows.                                                                *)
(***************************************************************************)
ProbeWindows(u, y, w) ==
  LET s == <<w>> \o After(1, y.shape)
      cell == Monad(u, Arr(y.type, s, Copies(Product(s), FillOf(y.type))))
  IN  IF ~IsPure(u) THEN Declined ELSE IF Refused(cell) THEN Declined ELSE Empty(cell.type, <<0>> \o cell.shape)
EmptyWindows(u, y, w, axis) ==
  LET probed == ProbeWindows(u, y, w)
  IN  IF Refused(probed) THEN Empty("int", IF axis THEN <<0, 0>> ELSE <<0>>) ELSE probed
WindowSize(x) ==
  IF Count(x) > 0 /\ x.type \notin NumTypes THEN Refusal("domain")
  ELSE IF Count(x) # 1 THEN Refusal("length") ELSE x

(* A weighted sum of each window: the weights are bonded to the verb that   *)
(* combines, or are the left side of an inner product.                      *)
RealSteps == {"Add", "Sub", "Mul", "Min", "Max"}
Reals == {"bool", "int", "float"}
Weighted(v) ==
  LET bond(n, f, left) == [n |-> n, op |-> ScalarOf(f), left |-> left, fold |-> FoldedStep(v.f)]
  IN  CASE v.form = "Atop" /\ v.g.form = "BondLeft" -> bond(v.g.n, v.g.f, TRUE)
        [] v.form = "Atop" /\ v.g.form = "BondRight" -> bond(v.g.n, v.g.f, FALSE)
        [] v.form = "NounFork" /\ v.f.form = "InnerProduct" /\ v.g.form = "Prim" ->
             IF v.f.n = "J" /\ v.g.monad = "Same"
             THEN [n |-> v.n, op |-> ScalarOf(v.f.g), left |-> TRUE, fold |-> FoldedStep(v.f.f)] ELSE NoVerb
        [] OTHER -> NoVerb
CorrelationOf(u, w, t) ==
  LET v == IF u.form = "Rank" /\ u.n[1] >= 1 THEN u.f ELSE u
      k == Weighted(v)
  IN  IF "n" \notin DOMAIN k THEN Declined
      ELSE IF ~Known(k.fold) THEN Declined
      ELSE IF ~({k.op, k.fold.op} \subseteq RealSteps) \/ ~({t, k.n.type} \subseteq Reals) THEN Declined
      ELSE IF Rank(k.n) > 1 \/ Count(k.n) # w \/ "float" \notin {t, k.n.type} THEN Declined
      ELSE Correlation(k.fold.op, k.fold.swap, k.op, k.left, k.n.data)

InfixCells(u, base, cut(_), count) ==
  Stopping([i \in 1 .. count |-> Monad(Cycled(u, i), cut(i))], LAMBDA cs : Assemble(<<count>>, cs))
InfixBlocks(u, base, w) ==
  LET n == Items(base) count == (n + w - 1) \div w
      single == IF w = 1 THEN ProbeWindows(u, base, 1) ELSE Declined
  IN  IF count = 0 THEN IF Refused(single) THEN EmptyWindows(u, base, 0, lang = "J") ELSE single
      ELSE InfixCells(u, base, LAMBDA i : Section(base, (i - 1) * w, Min({i * w, n})), count)
InfixWindows(u, base, w) ==
  LET n == Items(base) m == ItemSize(base) count == n - w + 1 step == FoldedStep(u)
      fast == IF w > 0 /\ base.type \in NumTypes /\ Known(step)
              THEN WindowTyped(step.op, step.swap, base.type, base.data, n, m, w, LaneWork) ELSE Declined
      k == IF w > 0 /\ Rank(base) = 1 /\ u.form # "Cycle" THEN CorrelationOf(u, w, base.type) ELSE Declined
  IN  IF n < w THEN EmptyWindows(u, base, w, lang = "J")
      ELSE IF ~Refused(fast) THEN Arr(fast.type, <<count>> \o After(1, base.shape), fast.data)
      ELSE IF ~Refused(k) THEN Arr("float", <<count>>, Correlate(k, base.data, w))
      ELSE InfixCells(u, base, LAMBDA i : Section(base, i - 1, i - 1 + w), count)
Infix(u, x, y) ==
  Then(WindowSize(x), LAMBDA k :
    IF k.data[1] < 0 THEN InfixBlocks(u, AsList(y), -k.data[1]) ELSE InfixWindows(u, AsList(y), k.data[1]))

NWise(f, x, y) ==
  LET inner == IF f.form = "Commute" THEN f.f ELSE f
      base == ToRows(AsList(y)) n == Items(base) m == ItemSize(base) fold == One("Reduce", f)
      sized(k) ==
        LET w == Abs(k) count == n + 1 - w op == ScalarOf(inner)
            fast == IF w > 0 /\ base.type \in NumTypes /\ op # None /\ (k > 0 \/ IsAssociative(op))
                    THEN WindowTyped(op, f.form = "Commute", base.type, base.data, n, m, w, LaneWork) ELSE Declined
            win(i) == LET s == Section(base, i - 1, i - 1 + w) IN IF k < 0 THEN Turned(s) ELSE s
        IN  IF w > n + 1 THEN Refusal("domain")
            ELSE IF count = 0 THEN EmptyWindows(fold, base, w, FALSE)
            ELSE IF ~Refused(fast) THEN Arr(fast.type, <<count>> \o After(1, base.shape), fast.data)
            ELSE InfixCells(fold, base, win, count)
  IN  IF Count(x) # 1 THEN Refusal("length")
      ELSE Then(WindowSize(x), LAMBDA k : IF Rank(y) = 0 /\ Abs(k.data[1]) = 1 THEN y ELSE sized(k.data[1]))

(* All but a run of items; some folds refuse what they are not given.       *)
FoldsEagerly(u, n, k, starts) ==
  IF u.form # "Reduce" THEN FALSE
  ELSE CASE ScalarOf(u.f) = "Add" -> n >= 1 /\ (n >= 2 \/ starts # <<>>)
         [] ScalarOf(u.f) \in {"Mul", "Min", "Max", "Gcd"} -> n >= 2 /\ n > Abs(k)
         [] OTHER -> FALSE
Outfix(u, x, y) ==
  LET list == AsList(y) n == Items(y)
      left(k) ==
        LET starts == IF k < 0 THEN [i \in 1 .. (n - k - 1) \div Abs(k) |-> (i - 1) * Abs(k)] ELSE Iota(Max({n - k + 1, 0}))
            keep(s) == SelectSeq(Iota(n), LAMBDA i : i < s \/ i >= s + Abs(k))
            checked == list.type \notin NumTypes /\ IsPure(u) /\ FoldsEagerly(u, n, k, starts)
            eager == IF checked THEN Monad(u, IF n = 1 THEN SelectItems(list, <<0, 0>>) ELSE list) ELSE list
            none == IF IsPure(u) THEN SelectItems(list, <<>>) ELSE NoCell
            first == IF IsPure(u) THEN Monad(u, none) ELSE NoCell
            again == IF IsPure(u) THEN Monad(u, NumericLike(none)) ELSE NoCell
        IN  IF Refused(eager) THEN eager
            ELSE IF starts = <<>> THEN EmptyFrame(<<0>>, list.type, none, FALSE, lang = "J", Nothing, first, again)
            ELSE InfixCells(u, list, LAMBDA i : SelectItems(list, keep(starts[i])), Len(starts))
  IN  Then(WindowSize(x), LAMBDA k : left(k.data[1]))

(***************************************************************************)
(* Tables and products.                                                    *)
(***************************************************************************)
(* APL's elements are opened for the verb, and what it answers is enclosed. *)
ItemDyad(u, x, y) == Then(Dyad(u, OpenCell(x), OpenCell(y)), LAMBDA a : Enclose(a, "except"))
OuterProduct(u, x, y) ==
  LET frame == x.shape \o y.shape ny == Count(y)
  IN  IF Product(frame) = 0 THEN Assemble(frame, <<>>)
      ELSE Stopping([i \in 1 .. Product(frame) |-> ItemDyad(u, Atom(x, (i - 1) \div ny), Atom(y, (i - 1) % ny))],
             LAMBDA cs : AssembleItems(frame, cs))
FillStandIn(a) == IF Count(a) = 0 THEN Empty(a.type, <<0>>) ELSE Atom(a, 0)
TableOfCells(u, x, y) ==
  LET whole(r, a) == IF r < 0 THEN Rank(a) ELSE EffectiveRank(r, Rank(a))
      fx == Rank(x) - whole(VerbRanks(u)[2], x)
      fy == Rank(y) - whole(VerbRanks(u)[3], y)
      frame == First(fx, x.shape) \o First(fy, y.shape)
      ny == Product(First(fy, y.shape))
      right == FillCell(y, fy, IsPure(u))
      left == IF Refused(right) THEN right ELSE FillCell(x, fx, IsPure(u))
      first == IF Refused(left) THEN left ELSE Dyad(u, left, right)
  IN  IF Product(frame) = 0
      THEN IF ScalarOp(u) # None THEN Empty(EmptyScalarType(ScalarOp(u), FALSE, FillStandIn(x), FillStandIn(y)), frame)
           ELSE EmptyFrame(frame, x.type, left, FALSE, FALSE, Nothing, first, NoCell)
      ELSE IF frame = <<>> THEN Dyad(u, x, y)
      ELSE Stopping([i \in 1 .. Product(frame) |->
                      Dyad(u, CellAt(x, fx, (i - 1) \div ny), CellAt(y, fy, (i - 1) % ny))],
             LAMBDA cs : Assemble(frame, cs))
Table(u, x, y) == IF lang = "APL" THEN OuterProduct(u, x, y) ELSE TableOfCells(u, x, y)

(* +/ . * of machine numbers is one pass; whole ones that leave the machine *)
(* integers make it a pass of floats.                                       *)
MatrixProduct(u, v, x, y) ==
  LET k == x.shape[Rank(x)]
      cols == ItemSize(y)
      s == First(Rank(x) - 1, x.shape) \o After(1, y.shape)
      term(i, t) == <<x.data[((i - 1) \div cols) * k + t], y.data[(t - 1) * cols + ((i - 1) % cols) + 1]>>
      sums(i) == LET f[t \in 0 .. k] == IF t = 0 THEN 0 ELSE f[t - 1] + term(i, t)[1] * term(i, t)[2] IN f
      whole == Whole(x.type) /\ Whole(y.type)
        /\ \A i \in 1 .. Product(s) : \A t \in 1 .. k :
             sums(i)[t] \in Machine /\ term(i, t)[1] * term(i, t)[2] \in Machine
  IN  IF ~FoldsWith(u, "Add") \/ ScalarOf(v) # "Mul" \/ Rank(x) = 0 \/ Rank(y) = 0 THEN Declined
      ELSE IF k # y.shape[1] \/ ~({x.type, y.type} \subseteq Reals) THEN Declined
      ELSE Arr(IF whole THEN "int" ELSE "float", s, [i \in 1 .. Product(s) |-> sums(i)[k]])

InnerCells(u, v, apl, x, y) ==
  LET frame == Rank(x) - EffectiveRank(Max({VerbRanks(v)[2], 1}), Rank(x))
      f == First(frame, x.shape)
      cell == FillCell(x, frame, IsPure(u) /\ IsPure(v))
      inner(c) == Then(Dyad(v, c, y), LAMBDA a : Monad(u, a))
      first == IF Refused(cell) THEN cell ELSE inner(cell)
  IN  IF frame = 0 THEN inner(x)
      ELSE IF Product(f) = 0 THEN EmptyFrame(f, x.type, cell, FALSE, FALSE, Nothing, first, NoCell)
      ELSE Stopping([i \in 1 .. Product(f) |-> inner(CellAt(x, frame, i - 1))],
             LAMBDA cs : IF apl THEN AssembleItems(f, cs) ELSE Assemble(f, cs))
(* APL's vectors are paired element by element, opened.                     *)
AplInnerProduct(u, v, x, y) ==
  LET k == IF Rank(x) > 0 THEN x.shape[Rank(x)] ELSE IF Rank(y) > 0 THEN y.shape[1] ELSE 1
      lead == IF Rank(x) = 0 THEN <<>> ELSE First(Rank(x) - 1, x.shape)
      frame == lead \o After(1, y.shape)
      cols == ItemSize(y)
      left(r) == Arr(x.type, <<k>>, [t \in 1 .. k |-> IF Rank(x) = 0 THEN x.data[1] ELSE x.data[r * k + t]])
      right(c) == Arr(y.type, <<k>>, [t \in 1 .. k |-> IF Rank(y) = 0 THEN y.data[1] ELSE y.data[(t - 1) * cols + c + 1]])
      paired == With("Each", v, "except")
  IN  IF Rank(x) > 0 /\ Rank(y) > 0 /\ k # Items(y) THEN Refusal("length")
      ELSE IF Product(frame) = 0 THEN Assemble(frame, <<>>)
      ELSE Stopping([i \in 1 .. Product(frame) |->
                      Then(Dyad(paired, left((i - 1) \div cols), right((i - 1) % cols)), LAMBDA a : Monad(u, a))],
             LAMBDA cs : AssembleItems(frame, cs))
InnerProduct(v, x, y) ==
  LET product == MatrixProduct(v.f, v.g, x, y)
  IN  IF ~Refused(product) THEN product
      ELSE IF v.n = "APL" /\ ScalarOf(v.g) = None THEN AplInnerProduct(v.f, v.g, x, y)
      ELSE InnerCells(v.f, v.g, v.n = "APL", x, y)

(* u . v y: by minors, with those of the same rows worked once; -/ . * of a *)
(* square of machine numbers is eliminated, and that is a float.            *)
Minors(v, y) ==
  LET rows == Items(y) cols == ItemSize(y)
      at(r, c) == Scalar(y.type, y.data[(r - 1) * cols + c])
      chosen(left) == SelectSeq([r \in 1 .. rows |-> r], LAMBDA r : r \in left)
      minor[left \in SUBSET (1 .. rows)] ==
        LET column == rows - Cardinality(left) + 1 rs == chosen(left)
            term(r) == Then(minor[left \ {r}], LAMBDA m : Dyad(v.g, at(r, column), m))
        IN  IF column > cols
            THEN LET e == ReduceIdentity(v.g) IN IF Refused(e) THEN Refusal("notyet") ELSE e
            ELSE IF column = cols
                 THEN Monad(v.f, Assemble(<<Len(rs)>>, [i \in DOMAIN rs |-> at(rs[i], column)]))
            ELSE IF left = {} THEN Monad(v.f, Empty("int", <<0>>))
            ELSE Stopping([i \in DOMAIN rs |-> term(rs[i])],
                   LAMBDA ts : Then(Assemble(<<Len(ts)>>, ts), LAMBDA a : Monad(v.f, a)))
  IN  minor[1 .. rows]
LaplaceOf(y) ==
  LET n == y.shape[1]
      d[rows \in SUBSET (1 .. n)] ==
        IF rows = {} THEN 1
        ELSE LET c == n - Cardinality(rows) + 1
                 sign(r) == IF Cardinality({q \in rows : q < r}) % 2 = 0 THEN 1 ELSE -1
                 part[k \in 0 .. n] == IF k = 0 THEN 0
                   ELSE part[k - 1] + IF k \in rows THEN sign(k) * y.data[(k - 1) * n + c] * d[rows \ {k}] ELSE 0
             IN  part[n]
  IN  d[1 .. n]
RECURSIVE Determinant(_, _)
Determinant(v, y) ==
  LET frame == First(Rank(y) - 2, y.shape)
      direct == FoldsWith(v.f, "Sub") /\ ScalarOf(v.g) = "Mul" /\ Items(y) = ItemSize(y) /\ Items(y) >= 3
                  /\ y.type \in Reals
  IN  IF v.n = "APL" THEN Refusal("domain")
      ELSE IF Rank(y) > 2
           THEN Stopping([i \in 1 .. Product(frame) |-> Determinant(v, CellAt(y, Rank(y) - 2, i - 1))],
                  LAMBDA cs : Assemble(frame, cs))
      ELSE IF direct THEN Scalar("float", LaplaceOf(y)) ELSE Minors(v, y)

(***************************************************************************)
(* Power.                                                                  *)
(***************************************************************************)
Left(x) == [left |-> <<x>>]
NoLeft  == [left |-> <<>>]
Step(u, l, y) == IF l.left = <<>> THEN Monad(u, y) ELSE Dyad(u, l.left[1], y)
InverseOf(u, l) == Obverse(IF l.left = <<>> THEN u ELSE BondLeft(l.left[1], u))
Repeated(n, y, F(_)) ==
  LET acc[i \in 0 .. n] == IF i = 0 THEN y ELSE Then(acc[i - 1], F) IN acc
Backwards(u, l, n, y) ==
  LET back == InverseOf(u, l)
  IN  IF Known(back) THEN Repeated(n, y, LAMBDA a : Monad(back, a))[n] ELSE Refusal("language")
(* The answers of each step up to the first that matches its argument.      *)
Settled(u, l, y) ==
  LET steps == Repeated(ConvergeLimit, y, LAMBDA a : Step(u, l, a))
      still(i) == \/ Refused(steps[i])
                  \/ ~Refused(steps[i]) /\ Match(steps[i], steps[i - 1])
      ends == {i \in 1 .. ConvergeLimit : still(i) /\ \A j \in 1 .. i - 1 : ~still(j)}
      last == CHOOSE i \in ends : TRUE
  IN  IF ends = {} THEN [last |-> Refusal("domain"), trace |-> <<>>]
      ELSE [last |-> steps[last], trace |-> [i \in 1 .. last |-> steps[i - 1]]]
PowerEachBySteps(u, l, counts, y) == \* mutant of PowerEach: the steps are counted from the last answer
  LET ordered == SortSeq(counts, <)
      at(k) == IF k >= 0 THEN Repeated(k + 1, y, LAMBDA a : Step(u, l, a))[k + 1] ELSE Backwards(u, l, -k, y)
  IN  Stopping([i \in DOMAIN counts |-> at(counts[i])], LAMBDA cs : Assemble(<<Len(cs)>>, cs))
PowerEach(u, l, counts, y) ==
  LET most == Max({0} \cup ToSet(counts))
      least == Max({0} \cup {-counts[i] : i \in DOMAIN counts})
      back == InverseOf(u, l)
      up == Repeated(most, y, LAMBDA a : Step(u, l, a))
      down == Repeated(least, y, LAMBDA a : Monad(back, a))
      first == IF Refused(up[most]) THEN up[most] ELSE IF least > 0 /\ ~Known(back) THEN Refusal("language") ELSE down[least]
  IN  IF Refused(first) THEN first
      ELSE Assemble(<<Len(counts)>>, [i \in DOMAIN counts |-> IF counts[i] >= 0 THEN up[counts[i]] ELSE down[-counts[i]]])
PowerBy(u, p, l, y) ==
  CASE p.by = "times" -> Repeated(p.n, y, LAMBDA a : Step(u, l, a))[p.n]
    [] p.by = "inverse" -> Backwards(u, l, p.n, y)
    [] p.by = "converge" -> Settled(u, l, y).last
    [] p.by = "trace" -> LET s == Settled(u, l, y) IN IF Refused(s.last) THEN s.last ELSE Assemble(<<Len(s.trace)>>, s.trace)
    [] p.by = "each" -> PowerEach(u, l, p.n, y)
PowerV(u, v, l, y) ==
  Then(Step(v, l, y), LAMBDA c :
    LET n == ToRows(c).data
    IN  IF Count(c) > 0 /\ c.type \notin NumTypes THEN Refusal("domain")
        ELSE IF Len(n) # 1 THEN PowerEach(u, l, n, y)
        ELSE IF n[1] = Extremity THEN PowerBy(u, [by |-> "converge", n |-> 0], l, y)
        ELSE IF n[1] < 0 THEN Backwards(u, l, -n[1], y)
        ELSE PowerBy(u, [by |-> "times", n |-> n[1]], l, y))
PowerUntil(u, test, y) ==
  LET run[i \in 0 .. ConvergeLimit] ==
        IF i = 0 THEN [acc |-> y, done |-> FALSE]
        ELSE IF run[i - 1].done \/ Refused(run[i - 1].acc) THEN run[i - 1]
        ELSE LET next == Monad(u, run[i - 1].acc)
                 stop == IF Refused(next) THEN next ELSE Dyad(test, next, run[i - 1].acc)
             IN  IF Refused(stop) THEN [acc |-> stop, done |-> TRUE]
                 ELSE IF Count(stop) > 0 /\ stop.type \notin NumTypes THEN [acc |-> Refusal("domain"), done |-> TRUE]
                 ELSE [acc |-> next, done |-> stop.data # <<>> /\ \A k \in DOMAIN stop.data : stop.data[k] # 0]
      last == run[ConvergeLimit]
  IN  IF last.done \/ Refused(last.acc) THEN last.acc ELSE Refusal("domain")

(***************************************************************************)
(* Pieces: groups of equal keys, diagonals, what lies between frets, blocks *)
(* and windows.  A verb that only counts its piece is not run.             *)
(***************************************************************************)
Tallies(u) == u.form = "Prim" /\ u.monad = "Tally"
NoPieces(u, shape, type) ==
  LET answer == IF IsPure(u) THEN Monad(u, Empty(type, <<0>> \o shape)) ELSE NoCell
  IN  IF Refused(answer) THEN Empty("int", <<0, 0>>) ELSE Empty(answer.type, <<0>> \o answer.shape)
OnPieces(u, pieces) ==
  Stopping([i \in DOMAIN pieces |-> Monad(Cycled(u, i), pieces[i])], LAMBDA cs : Assemble(<<Len(cs)>>, cs))
GroupPositions(keys) == \* each place is grouped with the first distinct item it matches
  LET cells == ItemsOf(keys) n == Len(cells)
      fresh == FreshMarks(cells)
      firsts == SelectSeq([i \in 1 .. n |-> i], LAMBDA i : fresh[i])
      first(i) == Min({j \in Range(firsts) : Match(cells[j], cells[i])})
  IN  [g \in DOMAIN firsts |-> SelectSeq(Iota(n), LAMBDA i : first(i + 1) = firsts[g])]
Key(u, x, y) ==
  LET keys == AsList(x) items == AsList(y) groups == GroupPositions(keys)
  IN  IF Items(keys) # Items(y) THEN Refusal("length")
      ELSE IF groups = <<>> THEN NoPieces(u, After(1, items.shape), items.type)
      ELSE IF Tallies(u) THEN Ints([g \in DOMAIN groups |-> Len(groups[g])])
      ELSE OnPieces(u, [g \in DOMAIN groups |-> SelectItems(items, groups[g])])
KeyPairs(u, keys, value) ==
  LET base == AsList(keys) groups == GroupPositions(base)
      group(g) == IF value.left = <<>> THEN Ints([i \in DOMAIN g |-> 1 + g[i]]) ELSE SelectItems(value.left[1], g)
  IN  IF value.left # <<>> /\ Items(value.left[1]) # Items(base) THEN Refusal("length")
      ELSE Stopping([i \in DOMAIN groups |-> Dyad(u, ItemOrSelf(base, groups[i][1]), group(groups[i]))],
             LAMBDA cs : Assemble(<<Len(cs)>>, cs))
Oblique(u, y) ==
  LET base == AsList(y)
      pieces == IF Rank(y) < 2 THEN [i \in 1 .. Items(base) |-> SelectItems(base, <<i - 1>>)]
                ELSE [d \in 1 .. y.shape[1] + y.shape[2] - 1 |-> Diagonal1(y, d - 1)]
  IN  IF (Rank(y) < 2 /\ Items(base) = 0) \/ (Rank(y) > 1 /\ (y.shape[1] = 0 \/ y.shape[2] = 0))
      THEN NoPieces(u, IF Rank(y) < 2 THEN <<>> ELSE After(2, y.shape), y.type) ELSE OnPieces(u, pieces)

CutEmptyType(u, t) ==
  LET op == InsertedOp(u) IN
  IF \/ lang # "J"
     \/ ~(\/ op \in {"Add", "Sub", "Mul", "Div"} /\ t \in MachineTypes
          \/ op \in {"Min", "Max"} /\ t \in Reals \cup {"ext"})
  THEN None ELSE EmptyScalarType(op, FALSE, Empty(t, <<0>>), Empty(t, <<0>>))
RetypedCut(out, u, y, t) == IF Refused(out) \/ t = None THEN out ELSE Empty(t, out.shape)
EmptyCut(u, frame, y, cell, left) ==
  EmptyFrame(frame, y.type, IF IsPure(u) THEN cell ELSE NoCell, FALSE, lang = "J", left, Monad(u, cell),
             Monad(u, NumericLike(cell)))
FretsOf(x, y, mode) == \* x as Left or NoLeft
  LET items == AsList(y) n == Items(items) mark == Item(items, IF Abs(mode) = 1 THEN 0 ELSE n - 1)
      flags == x.left[1] d == ToRows(flags).data
  IN  CASE x.left = <<>> ->
             [ranges |-> IF n = 0 THEN <<>> ELSE CutRanges([i \in 1 .. n |-> Match(Item(items, i - 1), mark)], mode)]
        [] OTHER ->
             IF NotWhole(flags) \/ \E i \in DOMAIN d : d[i] \notin {0, 1} THEN Refusal("domain")
             ELSE IF Rank(flags) = 1 /\ d = <<>> THEN [ranges |-> IF n > 0 THEN <<<<0, n>>>> ELSE <<>>]
             ELSE IF d = <<>> THEN [ranges |-> <<>>]
             ELSE IF Rank(flags) > 0 /\ Len(d) # n THEN Refusal("length")
             ELSE [ranges |-> CutRanges([i \in 1 .. n |-> d[IF Rank(flags) = 0 THEN 1 ELSE i] = 1], mode)]
CutPieces(u, x, y, mode) ==
  LET items == AsList(y)
  IN  Then(FretsOf(x, y, mode), LAMBDA r :
        IF r.ranges = <<>>
        THEN RetypedCut(EmptyCut(u, <<0>>, y, Section(items, 0, 0), IF lang = "J" THEN NoIntegers ELSE Nothing),
                        u, y, CutEmptyType(u, y.type))
        ELSE IF Tallies(u) THEN Ints([g \in DOMAIN r.ranges |-> r.ranges[g][2] - r.ranges[g][1]])
        ELSE OnPieces(u, [g \in DOMAIN r.ranges |-> Section(items, r.ranges[g][1], r.ranges[g][2])]))
Blocks(u, y, frame, origin(_, _), size(_, _)) == \* a verb on the block at each place of the frame
  Stopping([i \in 1 .. Product(frame) |->
             LET at == Coord(frame, i - 1)
                 from == [k \in DOMAIN frame |-> origin(at, k)]
             IN  Then(Subarray(y, from, [k \in DOMAIN frame |-> size(at, k)]), LAMBDA b : Monad(Cycled(u, i), b))],
    LAMBDA cs : Assemble(frame, cs))
PerAxisCut(u, x, y, mode) ==
  LET boxes == ToRows(x).data
      axes == [k \in DOMAIN boxes |-> AxisRanges(boxes[k], y.shape[k], mode)]
      counts == [k \in DOMAIN axes |-> Len(axes[k].ranges)]
      frame == IF counts = <<>> /\ Items(y) = 0 THEN <<0>> ELSE counts
      none == Subarray(y, Copies(Len(frame), 0), Copies(Len(frame), 0))
      out == IF Product(frame) = 0
             THEN IF Refused(none) /\ IsPure(u) THEN none ELSE EmptyCut(u, frame, y, none, Nothing)
             ELSE Blocks(u, y, frame, LAMBDA at, k : axes[k].ranges[at[k] + 1][1],
                    LAMBDA at, k : axes[k].ranges[at[k] + 1][2] - axes[k].ranges[at[k] + 1][1])
  IN  IF Rank(x) > 1 THEN Refusal("rank")
      ELSE IF Len(boxes) > Rank(y) THEN Refusal("length")
      ELSE IF AnyRefused(axes) THEN FirstRefusal(axes)
      ELSE IF Refused(out) THEN out
      ELSE RetypedCut(out, u, y, IF Count(out) = 0 /\ Count(y) = 0 THEN CutEmptyType(u, y.type) ELSE None)
Tessellate(u, x, y, complete) ==
  Then(Rectangle(x), LAMBDA r :
    LET n == Len(r.size)
        step == IF r.origin = <<>> THEN Copies(n, 1) ELSE r.origin[1]
        size == [k \in 1 .. n |-> IF r.origin = <<>> /\ r.size[k] < 0 THEN -y.shape[k] ELSE r.size[k]]
        block(k) == Max({Abs(size[k]), 1})
        count(k) == IF ~complete THEN (y.shape[k] + step[k] - 1) \div step[k]
                    ELSE IF y.shape[k] < block(k) THEN 0 ELSE (y.shape[k] - block(k)) \div step[k] + 1
        frame == [k \in 1 .. n |-> count(k)]
        clipped(at, k) == Min({Abs(size[k]), y.shape[k] - at[k] * step[k]})
    IN  IF n > Rank(y) THEN Refusal("rank")
        ELSE IF \E k \in 1 .. n : step[k] <= 0 THEN Refusal("domain")
        ELSE IF Product(frame) = 0 THEN EmptyCut(u, frame, y, y, Nothing)
        ELSE Blocks(u, y, frame, LAMBDA at, k : at[k] * step[k],
               LAMBDA at, k : IF size[k] < 0 THEN -clipped(at, k) ELSE clipped(at, k)))
Cut(u, x, y, mode) ==
  CASE mode = 0 /\ x.left = <<>> -> Monad(u, ReverseAllAxes(y))
    [] mode = 0 /\ x.left # <<>> ->
         Then(Rectangle(x.left[1]), LAMBDA r :
           Then(RectangleBlock(y, IF r.origin = <<>> THEN Copies(Len(r.size), 0) ELSE r.origin[1], r.size), LAMBDA b :
             Then(Subarray(y, b.start, b.block), LAMBDA part : Monad(u, part))))
    [] Abs(mode) = 3 ->
         LET side == Min(ToSet(y.shape))
             whole == Arr("int", <<2, Rank(y)>>, Copies(Rank(y), 1) \o Copies(Rank(y), IF Rank(y) = 0 THEN 1 ELSE side))
         IN  Tessellate(u, IF x.left = <<>> THEN whole ELSE x.left[1], y, mode < 0)
    [] Abs(mode) \in {1, 2} ->
         IF x.left # <<>> /\ x.left[1].type = "box" THEN PerAxisCut(u, x.left[1], y, mode) ELSE CutPieces(u, x, y, mode)
    [] OTHER -> Refusal("notyet")
Stencil(u, w, y) ==
  LET frame == First(Len(w), y.shape)
  IN  IF Len(w) > Rank(y) THEN Refusal("rank")
      ELSE IF \E k \in DOMAIN w : w[k] <= 0 THEN Refusal("domain")
      ELSE Stopping([i \in 1 .. Product(frame) |-> Monad(u, StencilWindow(y, w, Coord(frame, i - 1)))],
             LAMBDA cs : Assemble(frame, cs))

(***************************************************************************)
(* The fold family.  A step is kept, kept as the last one, left out of the  *)
(* answer, or not taken at all, as the fold stop inside it asks.           *)
(***************************************************************************)
Progress(acc, out, done, omitted) == [acc |-> acc, out |-> out, done |-> done, omitted |-> omitted]
StopOf(v, x, y) == \* what the stop on the left of a fork asks for
  IF v.form # "Fork" THEN [control |-> <<>>]
  ELSE IF v.f.form # "FoldStop" THEN [control |-> <<>>]
  ELSE IF v.f.n \notin -2 .. 1 THEN Refusal("domain")
  ELSE Then(Dyad(v.f.f, x, y), LAMBDA said :
         IF Rank(said) # 0 \/ said.type \notin NumTypes THEN Refusal("domain")
         ELSE IF said.data[1] \notin {0, 1} THEN Refusal("domain")
         ELSE [control |-> IF said.data[1] = 1 THEN <<v.f.n>> ELSE <<>>])
FoldStep(u, v, st, item) ==
  LET stepped == Dyad(v, item, st.acc) asked == StopOf(v, item, st.acc)
      kept(done) == Then(Monad(u, stepped), LAMBDA a : Progress(stepped, Append(st.out, a), done, st.omitted))
  IN  IF Refused(stepped) THEN stepped
      ELSE CASE asked.control = <<>>   -> kept(FALSE)
             [] asked.control = <<1>>  -> kept(TRUE)
             [] asked.control = <<0>>  -> Progress(stepped, st.out, FALSE, TRUE)
             [] asked.control = <<-1>> -> Progress(st.acc, st.out, FALSE, TRUE)
             [] OTHER                  -> Progress(st.acc, st.out, TRUE, TRUE)
(* A verb on two numbers and nothing kept of its answers but themselves is   *)
(* one pass, unless it overflows.                                          *)
FoldTyped(u, v, multiple, reverse, x, y) ==
  LET inner == IF v.form = "Commute" THEN v.f ELSE v
      op == ScalarOf(inner) n == Items(y)
      at(i) == y.data[IF reverse THEN n + 1 - i ELSE i]
      from == IF x.left = <<>> THEN 1 ELSE 0
      pass[i \in from .. n] ==
        IF i = from THEN IF from = 1 THEN at(1) ELSE x.left[1].data[1]
        ELSE IF v.form = "Commute" THEN Value(op, FALSE, pass[i - 1], at(i)) ELSE Value(op, FALSE, at(i), pass[i - 1])
      seeds == IF y.type = "float" THEN Reals ELSE {"bool", "int"}
  IN  IF ~(u.form = "Prim" /\ op \in RealSteps /\ Rank(y) = 1 /\ y.rows /\ y.type \in {"int", "float"}) THEN Declined
      ELSE IF u.monad # "Same" \/ n <= from THEN Declined
      ELSE IF x.left # <<>> /\ ~(Rank(x.left[1]) = 0 /\ x.left[1].type \in seeds) THEN Declined
      ELSE IF y.type = "int" /\ \E i \in from .. n : pass[i] \notin Machine THEN Declined
      ELSE IF multiple THEN Arr(y.type, <<n - from>>, [i \in 1 .. n - from |-> pass[from + i]])
      ELSE Scalar(y.type, pass[n])
FoldFamily(u, v, multiple, reverse, x, y) ==
  LET n == Items(y) from == IF x.left = <<>> THEN 1 ELSE 0
      item(i) == IF Rank(y) = 0 THEN y ELSE Item(y, IF reverse THEN n - i ELSE i - 1)
      fast == FoldTyped(u, v, multiple, reverse, x, y)
      run[i \in from .. Max({n, from})] ==
        IF i = from THEN Progress(IF from = 1 THEN item(1) ELSE x.left[1], <<>>, FALSE, FALSE)
        ELSE Then(run[i - 1], LAMBDA st : IF st.done THEN st ELSE FoldStep(u, v, st, item(i)))
  IN  IF ~Refused(fast) THEN fast
      ELSE IF n = 0 /\ x.left = <<>>
           THEN IF multiple THEN Refusal("domain") ELSE Then(Reduce(v, y), LAMBDA s : Monad(u, s))
      ELSE Then(run[n], LAMBDA st :
             IF st.omitted /\ st.out = <<>> THEN Refusal("domain")
             ELSE IF st.out = <<>>
                  THEN Then(Monad(u, st.acc), LAMBDA c : IF multiple THEN Empty(c.type, <<0>> \o c.shape) ELSE c)
             ELSE IF multiple THEN Assemble(<<Len(st.out)>>, st.out) ELSE st.out[Len(st.out)])

(***************************************************************************)
(* Levels of boxing.                                                       *)
(***************************************************************************)
RECURSIVE BoxingLevel(_)
BoxingLevel(y) ==
  IF y.type # "box" \/ y.data = <<>> THEN 0 ELSE 1 + Max({BoxingLevel(y.data[i]) : i \in DOMAIN y.data})
LevelOf(y, n) == IF n = Inf THEN BoxingLevel(y) ELSE IF n < 0 THEN Max({BoxingLevel(y) + n, 0}) ELSE n
Deeper(y, n) == y.type = "box" /\ BoxingLevel(y) > n
RECURSIVE MapLevel(_, _, _), CollectLevel(_, _, _), MapPairs(_, _, _, _, _), CollectPairs(_, _, _, _, _)
MapLevel(u, n, y) ==
  IF ~Deeper(y, n) THEN Monad(u, y)
  ELSE Stopping([i \in DOMAIN y.data |-> MapLevel(u, n, ToRows(y.data[i]))], LAMBDA cs : Arr("box", y.shape, cs))
(* The answers in order, the first refusal in place of what comes after it. *)
CollectLevel(u, n, y) ==
  IF ~Deeper(y, n) THEN <<Monad(u, y)>> ELSE FlattenSeq([i \in DOMAIN y.data |-> CollectLevel(u, n, ToRows(y.data[i]))])
AtLevel(u, l, y) ==
  LET collected == IF l.levels[1] = Inf THEN <<Monad(u, y)>> ELSE CollectLevel(u, LevelOf(y, l.levels[1]), y)
  IN  IF l.spread THEN Stopping(collected, LAMBDA cs : Assemble(<<Len(cs)>>, cs))
      ELSE IF l.levels[1] = Inf THEN Monad(u, y) ELSE MapLevel(u, LevelOf(y, l.levels[1]), y)
LevelPairs(nx, ny, x, y) ==
  LET p == AgreePrefix(x.shape, y.shape)
      opened(a, i) == ToRows(a.data[IF Rank(a) = 0 THEN 1 ELSE i])
  IN  CASE Deeper(x, nx) /\ ~Deeper(y, ny) -> [pairs |-> [i \in DOMAIN x.data |-> <<opened(x, i), y>>], shape |-> x.shape]
        [] ~Deeper(x, nx) /\ Deeper(y, ny) -> [pairs |-> [i \in DOMAIN y.data |-> <<x, opened(y, i)>>], shape |-> y.shape]
        [] Deeper(x, nx) /\ Deeper(y, ny) ->
             IF Rank(x) = 0 THEN [pairs |-> [i \in DOMAIN y.data |-> <<opened(x, 1), opened(y, i)>>], shape |-> y.shape]
             ELSE IF Rank(y) = 0 THEN [pairs |-> [i \in DOMAIN x.data |-> <<opened(x, i), opened(y, 1)>>], shape |-> x.shape]
             ELSE Then(p, LAMBDA q :
               [pairs |-> [i \in 1 .. q.n |-> <<opened(x, (i - 1) \div q.xdiv + 1), opened(y, (i - 1) \div q.ydiv + 1)>>],
                shape |-> q.frame])
MapPairs(u, nx, ny, x, y) ==
  IF ~Deeper(x, nx) /\ ~Deeper(y, ny) THEN Dyad(u, x, y)
  ELSE Then(LevelPairs(nx, ny, x, y), LAMBDA step :
         Stopping([i \in DOMAIN step.pairs |-> MapPairs(u, nx, ny, step.pairs[i][1], step.pairs[i][2])],
           LAMBDA cs : Arr("box", step.shape, cs)))
CollectPairs(u, nx, ny, x, y) ==
  LET step == LevelPairs(nx, ny, x, y)
  IN  IF ~Deeper(x, nx) /\ ~Deeper(y, ny) THEN <<Dyad(u, x, y)>>
      ELSE IF Refused(step) THEN <<step>>
      ELSE FlattenSeq([i \in DOMAIN step.pairs |-> CollectPairs(u, nx, ny, step.pairs[i][1], step.pairs[i][2])])
AtLevelDyad(u, l, x, y) ==
  LET nx == LevelOf(x, l.levels[2]) ny == LevelOf(y, l.levels[3]) whole == l.levels[2] = Inf /\ l.levels[3] = Inf
      collected == IF whole THEN <<Dyad(u, x, y)>> ELSE CollectPairs(u, nx, ny, x, y)
  IN  IF l.spread THEN Stopping(collected, LAMBDA cs : Assemble(<<Len(cs)>>, cs))
      ELSE IF whole THEN Dyad(u, x, y) ELSE MapPairs(u, nx, ny, x, y)

(***************************************************************************)
(* Gerunds, and a verb at chosen items.                                    *)
(***************************************************************************)
PickGerund(vs, at) == IF Place(at, Len(vs)) \in 0 .. Len(vs) - 1 THEN vs[Place(at, Len(vs)) + 1] ELSE Refusal("domain")
AgendaPick(vs, w, l, y) ==
  Then(Step(w, l, y), LAMBDA c : WithIndices(c, LAMBDA ks : IF ks = <<>> THEN Refusal("domain") ELSE PickGerund(vs, ks[1])))
Evoke(vs, form, l, y) ==
  LET items == IF Rank(y) = 0 THEN <<y>> ELSE ItemsOf(y) n == Len(items)
      acc[i \in 1 .. n] == IF i = n THEN items[n]
                           ELSE Then(acc[i + 1], LAMBDA a : Dyad(vs[((i - 1) % Len(vs)) + 1], items[i], a))
  IN  IF vs = <<>> THEN Refusal("domain")
      ELSE IF form = 0 THEN Stopping([i \in DOMAIN vs |-> Step(vs[i], l, y)], LAMBDA cs : Assemble(<<Len(cs)>>, cs))
      ELSE IF l.left # <<>> THEN Refusal("domain")
      ELSE IF n = 0 THEN Monad(One("Reduce", vs[1]), y) ELSE acc[1]
AmendGerundMonad(vs, y) ==
  IF Len(vs) \notin {2, 3} THEN Refusal("length")
  ELSE Then(Monad(vs[Len(vs) - 1], y), LAMBDA at : Then(Monad(vs[Len(vs)], y), LAMBDA into : ItemSelect(at, into)))
AmendGerund(vs, x, y) ==
  LET new == Dyad(vs[1], x, y) at == Dyad(vs[2], x, y) into == Dyad(vs[3], x, y)
  IN  IF Len(vs) # 3 THEN Refusal("notyet")
      ELSE Stopping(<<new, at, into>>, LAMBDA rs : Amend(at, new, into))
(* n: [new |-> <<value>> or <<>>, places |-> the same, test |-> the mask verb] *)
AtSelection(ks, y) ==
  IF \E i \in DOMAIN ks : ks[i] \notin 0 .. Items(y) - 1 THEN Refusal("domain")
  ELSE Assemble(<<Len(ks)>>, [i \in DOMAIN ks |-> ItemOrSelf(y, ks[i])])
AtPlaces(u, n, y) ==
  LET written == IF n.places = <<>> THEN Monad(n.test, y) ELSE n.places[1]
      origin == IF lang = "APL" THEN 1 ELSE 0
      replaced(ks) == Then(IF n.new # <<>> THEN n.new[1] ELSE Then(AtSelection(ks, y), LAMBDA c : Monad(u, c)),
                           LAMBDA new : Amend(Ints(ks), new, y))
  IN  Then(written, LAMBDA w : WithIndices(w, LAMBDA ks :
        IF n.places # <<>> THEN replaced([i \in DOMAIN ks |-> ks[i] - origin])
        ELSE IF Len(ks) # Items(y) THEN Refusal("length")
        ELSE replaced(SelectSeq(Iota(Len(ks)), LAMBDA i : ks[i + 1] # 0))))

(***************************************************************************)
(* A verb along an axis: [axes |-> ks] names whole ones, [between |-> pos]  *)
(* a place between two.                                                    *)
(***************************************************************************)
OneAxis(spec, rank) ==
  IF "axes" \notin DOMAIN spec THEN Refusal("length")
  ELSE IF Len(spec.axes) # 1 THEN Refusal("length")
  ELSE IF spec.axes[1] \notin 1 .. rank THEN Refusal("rank") ELSE [k |-> spec.axes[1]]
NamedAxes(spec, rank) == IF "axes" \in DOMAIN spec THEN AxisList(spec.axes, rank) ELSE Refusal("rank")
MixedAlong(p, u, y, spec) ==
  Then(Monad(u, y), LAMBDA mixed :
    IF "between" \in DOMAIN spec
    THEN IF p.name = "up_arrow" THEN MixBetween(mixed, y.shape, spec.between) ELSE Refusal("domain")
    ELSE IF p.name = "up_arrow" THEN MixAxes(mixed, Rank(y), spec.axes)
    ELSE Then(AxisList(spec.axes, Max({Rank(mixed), 1})), LAMBDA l :
           IF Len(l.axes) > Rank(mixed) THEN Refusal("length") ELSE MixPlaces(mixed, l.axes)))
AxisMonad(p, u, y, spec) ==
  CASE p.monad \in {"Ravel", "TableOf"} ->
         IF "between" \in DOMAIN spec THEN RavelBetween(y, spec.between) ELSE RavelAxes(y, spec.axes, p.monad = "TableOf")
    [] p.monad \in {"Enclose", "EncloseExcept"} -> Then(NamedAxes(spec, Rank(y)), LAMBDA l : EncloseAxes(y, l.axes))
    [] p.monad = "Split" -> Then(OneAxis(spec, Rank(y)), LAMBDA a : EncloseAxes(y, <<a.k>>))
    [] p.monad = "Open" -> MixedAlong(p, u, y, spec)
    [] p.monad \in {"Same", "Nest"} -> Refusal("notyet")
    [] p.monad \in Monads -> Refusal("domain")
    [] p.monad = "First" /\ p.name = "up_arrow" ->
         Then(NamedAxes(spec, Rank(y)), LAMBDA l :
           IF Rank(y) = 0 THEN Refusal("rank")
           ELSE Take(Ints([k \in 1 .. Rank(y) |-> IF k \in ToSet(l.axes) THEN 1 ELSE y.shape[k]]), y))
    [] OTHER -> Declined
AxisDyad(p, u, x, y, spec) ==
  LET between == "between" \in DOMAIN spec
  IN  CASE ScalarOf(u) # None ->
             IF between THEN Refusal("domain")
             ELSE Then(ScalarAxis(x, y, spec.axes, TRUE), LAMBDA b : Dyad(u, b.left, b.right))
        [] p.dyad \in {"AppendLast", "AppendLeading"} ->
             IF between THEN LaminateAxis(x, y, spec.between)
             ELSE Then(OneAxis(spec, Max({Rank(x), Rank(y), 1})), LAMBDA a : CatenateAt(x, y, a.k))
        [] p.dyad \in {"Take", "Drop"} ->
             IF between THEN Refusal("rank")
             ELSE Then(CountsAt(x, y, spec.axes, p.dyad = "Take"), LAMBDA c : IF p.dyad = "Take" THEN Take(c, y) ELSE Drop(c, y))
        [] p.dyad = "Squad" -> Then(NamedAxes(spec, Rank(y)), LAMBDA l : Squad(x, y, p.origin, FALSE, l.axes))
        [] p.dyad \in {"PartitionEnclose", "PartitionCounts"} ->
             Then(OneAxis(spec, Rank(y)), LAMBDA a : PartitionAt(p.dyad = "PartitionCounts", x, y, a.k))
        [] OTHER -> Declined
AlongAxis(u, l, y, spec) ==
  LET own == IF u.form # "Prim" THEN Declined
             ELSE IF l.left = <<>> THEN AxisMonad(u, u, y, spec) ELSE AxisDyad(u, u, l.left[1], y, spec)
      along(k) == LET moved == AxisToFront(y, k)
                  IN  Then(Step(u, l, moved), LAMBDA out : IF Rank(out) = Rank(moved) THEN FrontToAxis(out, k) ELSE out)
  IN  IF own # Declined THEN own ELSE Then(OneAxis(spec, Rank(y)), LAMBDA a : along(a.k))

(***************************************************************************)
(* The two ways in.                                                        *)
(***************************************************************************)
UnderRavel(u, y) ==
  Then(Monad(u, Arr(y.type, <<Count(y)>>, y.data)), LAMBDA r :
    IF Count(r) = 0 /\ Count(y) > 0 THEN Refusal("length") ELSE Reshape(Ints(y.shape), r, FALSE))
EachMonad(u, rule, y) ==
  IF Count(y) = 0 /\ rule = "always" THEN Empty("box", y.shape)
  ELSE Stopping([i \in 1 .. Count(y) |-> Then(Monad(u, OpenCell(Atom(y, i - 1))), LAMBDA a : Enclose(a, rule))],
         LAMBDA cs : AssembleEach(y.shape, cs))
(* The other verb answers for one that refuses, unless what it refused is   *)
(* only not there yet.                                                     *)
OrElse(r, other) == IF ~Refused(r) THEN r ELSE IF r.kind = "notyet" THEN r ELSE other
MonadRows(v, y) ==
  CASE v.form = "Prim"        -> PrimMonad(v, y)
    [] v.form = "Constant"    -> v.n
    [] v.form = "Rank"        -> RankMonad(v.f, v.n[1], y)
    [] v.form \in {"Reduce", "NWise"} -> Reduce(v.f, y)
    [] v.form = "Windowed"    -> Runs(v.f, y, v.n = "suffix")
    [] v.form = "Commute"     -> Dyad(v.f, y, y)
    [] v.form = "PowerN"      -> PowerBy(v.f, v.n, NoLeft, y)
    [] v.form = "Fork"        -> Then(Monad(v.f, y), LAMBDA l : Then(Monad(v.h, y), LAMBDA r : Dyad(v.g, l, r)))
    [] v.form = "NounFork"    -> Then(Monad(v.g, y), LAMBDA r : Dyad(v.f, v.n, r))
    [] v.form = "Hook"        -> Then(Monad(v.g, y), LAMBDA r : Dyad(v.f, y, r))
    [] v.form \in {"Atop", "Compose", "Beside"} -> Then(Monad(v.g, y), LAMBDA r : Monad(v.f, r))
    [] v.form = "Before"      -> Then(Monad(v.f, y), LAMBDA l : Dyad(v.g, l, y))
    [] v.form = "BondLeft"    -> Dyad(v.f, v.n, y)
    [] v.form = "BondRight"   -> Dyad(v.f, y, v.n)
    [] v.form = "Each"        -> EachMonad(v.f, v.n, y)
    [] v.form = "UnderRavel"  -> UnderRavel(v.f, y)
    [] v.form \in {"Fill", "WithObverse", "Memo", "Ambivalent"} -> Monad(v.f, y)
    [] v.form = "ShiftFill"   -> ShiftFill(Scalar("int", -1), y, v.n)
    [] v.form = "Amend"       -> ItemSelect(v.n, y)
    [] v.form = "AmendVerb"   -> Then(Monad(v.f, y), LAMBDA m : ItemSelect(m, y))
    [] v.form = "AmendGerund" -> AmendGerundMonad(v.vs, y)
    [] v.form = "PowerV"      -> PowerV(v.f, v.g, NoLeft, y)
    [] v.form = "PowerUntil"  -> PowerUntil(v.f, v.g, y)
    [] v.form = "AlongAxis"   -> AlongAxis(v.f, NoLeft, y, v.n)
    [] v.form = "Adverse"     -> OrElse(Monad(v.f, y), Monad(v.g, y))
    [] v.form = "Cycle"       -> IF v.vs = <<>> THEN Refusal("domain") ELSE Monad(v.vs[1], y)
    [] v.form = "InnerProduct" -> Determinant(v, y)
    [] v.form = "Level"       -> AtLevel(v.f, v.n, y)
    [] v.form = "Key"         -> Oblique(v.f, y)
    [] v.form = "KeyPairs"    -> KeyPairs(v.f, y, NoLeft)
    [] v.form = "Cut"         -> Cut(v.f, NoLeft, y, v.n)
    [] v.form = "Stencil"     -> Stencil(v.f, v.n, y)
    [] v.form = "At"          -> AtPlaces(v.f, v.n, y)
    [] v.form = "Agenda"      -> Then(AgendaPick(v.vs, v.f, NoLeft, y), LAMBDA u : Monad(u, y))
    [] v.form = "Evoke"       -> Evoke(v.vs, v.n, NoLeft, y)
    [] v.form = "Fold"        -> FoldFamily(v.f, v.g, v.n.multiple, v.n.reverse, NoLeft, y)
    [] v.form = "FoldStop"    -> Empty("int", <<0>>)
    [] OTHER                  -> Refusal("domain")
Monad(v, y) ==
  LET byColumns == MonadColumns(v, y)
  IN  IF y.rows THEN MonadRows(v, y) ELSE IF byColumns # Declined THEN byColumns ELSE MonadRows(v, ToRows(y))

(* x ,. y of two tables of one type is their rows end to end.               *)
Stitched(v, x, y) ==
  LET ca == ItemSize(x) cb == ItemSize(y) n == Items(x)
      row(i) == SubSeq(x.data, (i - 1) * ca + 1, i * ca) \o SubSeq(y.data, (i - 1) * cb + 1, i * cb)
  IN  IF ~Reads(v, "AppendLeading") \/ x.type # y.type \/ ~({Rank(x), Rank(y)} \subseteq {1, 2}) THEN Declined
      ELSE IF v.ranks[2] # -1 \/ v.ranks[3] # -1 \/ n # Items(y) \/ n = 0 \/ ca + cb = 0 THEN Declined
      ELSE IF x.type \in {"ext", "rat", "box", "symbol"} THEN Declined
      ELSE Arr(x.type, <<n, ca + cb>>, FlattenSeq([i \in 1 .. n |-> row(i)]))
DyadCell(v, x, y) ==
  CASE v.form = "Prim" -> DyadOp(v, x, y)
    [] v.form = "Rank" -> Dyad(v.f, x, y)
    [] v.form = "Windowed" -> IF v.n = "suffix" THEN Outfix(v.f, x, y) ELSE Infix(v.f, x, y)
    [] v.form = "Each" -> Then(Dyad(v.f, OpenCell(x), OpenCell(y)), LAMBDA a : Enclose(a, v.n))
    [] v.form = "Cut" -> Cut(v.f, Left(x), y, v.n)
    [] v.form = "ShiftFill" -> ShiftFill(x, y, v.n)
RECURSIVE UnderRanks(_)
UnderRanks(v) == IF v.form = "Rank" THEN UnderRanks(v.f) ELSE v
(* No pair of cells: cells of fills stand for them.                         *)
DyadNothing(v, x, y, frame, fxl, fyl) ==
  LET op == ScalarOp(v) inner == UnderRanks(v)
      right == FillCell(y, fyl, IsPure(v))
      cell == IF Refused(right) THEN right ELSE FillCell(x, fxl, IsPure(v))
      joining == inner.form = "Prim" /\ (Reads(inner, "AppendLeading") \/ Reads(inner, "AppendLast"))
      type == IF joining THEN EmptyType(x, y) ELSE y.type
      first == IF Refused(cell) THEN cell ELSE DyadCell(v, cell, right)
      numbers(a) == IF a.type \in NumTypes THEN a ELSE NumericLike(a)
      again == IF Refused(cell) THEN cell ELSE DyadCell(v, numbers(cell), numbers(right))
      framed == EmptyFrame(frame, type, cell, ShapeRefusal(first, op # None, Count(x) > 0), op \notin {"Log", "Root"},
                           Nothing, first, again)
  IN  IF Refused(framed) THEN framed
      ELSE IF joining THEN Empty(type, framed.shape)
      ELSE IF Refused(first) /\ ~Refused(again) /\ lang = "J" THEN Empty(again.type, framed.shape)
      ELSE IF ~Refused(first) /\ op # None THEN Empty(EmptyScalarType(op, FALSE, x, y), framed.shape)
      ELSE framed
DyadRanked(v, x, y) ==
  LET r == VerbRanks(v)
      el == EffectiveRank(r[2], Rank(x)) er == EffectiveRank(r[3], Rank(y))
      fxl == Rank(x) - el fyl == Rank(y) - er
      framed(p) ==
        IF p.frame = <<>> THEN DyadCell(v, x, y)
        ELSE IF p.n = 0 THEN DyadNothing(v, x, y, p.frame, fxl, fyl)
        ELSE Stopping([i \in 1 .. p.n |->
                        DyadCell(v, CellAt(x, fxl, (i - 1) \div p.xdiv), CellAt(y, fyl, (i - 1) \div p.ydiv))],
               LAMBDA cs : IF v.form = "Each" THEN AssembleEach(p.frame, cs) ELSE Assemble(p.frame, cs))
  IN  IF el = 0 /\ er = 0 /\ ScalarOp(v) # None THEN Scalars(ScalarOp(v), x, y)
      ELSE Then(Agree(First(fxl, x.shape), First(fyl, y.shape)), framed)
FillDyad(v, fill, x, y) ==
  IF v.form = "Prim" /\ v.dyad \in {"Take", "Drop"} /\ Count(y) > 0 /\ Refused(Fitted(y, fill)) THEN Fitted(y, fill)
  ELSE IF Reads(v, "Take") /\ Rank(x) < 2 THEN TakeFilled(x, y, fill) ELSE Dyad(v, x, y)
DyadRows(v, x, y) ==
  LET stitched == Stitched(v, x, y)
  IN  CASE stitched # Declined -> stitched
        [] v.form \in {"Prim", "Rank", "Each", "Cut", "ShiftFill"} -> IF stitched = Declined THEN DyadRanked(v, x, y) ELSE stitched
        [] v.form = "Windowed"    -> IF v.n = "scan" THEN Refusal("notyet") ELSE DyadRanked(v, x, y)
        [] v.form = "Constant"    -> v.n
        [] v.form = "Commute"     -> Dyad(v.f, y, x)
        [] v.form = "PowerN"      -> PowerBy(v.f, v.n, Left(x), y)
        [] v.form = "Reduce"      -> Table(v.f, x, y)
        [] v.form = "NWise"       -> NWise(v.f, x, y)
        [] v.form = "Fork"        -> Then(Dyad(v.f, x, y), LAMBDA l : Then(Dyad(v.h, x, y), LAMBDA r : Dyad(v.g, l, r)))
        [] v.form = "NounFork"    -> Then(Dyad(v.g, x, y), LAMBDA r : Dyad(v.f, v.n, r))
        [] v.form \in {"Hook", "Beside"} -> Then(Monad(v.g, y), LAMBDA r : Dyad(v.f, x, r))
        [] v.form = "Atop"        -> Then(Dyad(v.g, x, y), LAMBDA r : Monad(v.f, r))
        [] v.form = "Compose"     -> Then(Monad(v.g, x), LAMBDA l : Then(Monad(v.g, y), LAMBDA r : Dyad(v.f, l, r)))
        [] v.form = "Before"      -> Then(Monad(v.f, x), LAMBDA l : Dyad(v.g, l, y))
        [] v.form = "Fill"        -> FillDyad(v.f, v.n, x, y)
        [] v.form = "Amend"       -> Amend(v.n, x, y)
        [] v.form = "AmendVerb"   -> Then(Dyad(v.f, x, y), LAMBDA m : Amend(m, x, y))
        [] v.form = "AmendGerund" -> AmendGerund(v.vs, x, y)
        [] v.form = "PowerV"      -> PowerV(v.f, v.g, Left(x), y)
        [] v.form = "AlongAxis"   -> AlongAxis(v.f, Left(x), y, v.n)
        [] v.form \in {"WithObverse", "Memo"} -> Dyad(v.f, x, y)
        [] v.form = "Adverse"     -> OrElse(Dyad(v.f, x, y), Dyad(v.g, x, y))
        [] v.form = "Ambivalent"  -> Dyad(v.g, x, y)
        [] v.form = "Cycle"       -> IF v.vs = <<>> THEN Refusal("domain") ELSE Dyad(v.vs[1], x, y)
        [] v.form = "InnerProduct" -> InnerProduct(v, x, y)
        [] v.form = "Level"       -> AtLevelDyad(v.f, v.n, x, y)
        [] v.form = "Key"         -> Key(v.f, x, y)
        [] v.form = "KeyPairs"    -> KeyPairs(v.f, x, Left(y))
        [] v.form = "Agenda"      -> Then(AgendaPick(v.vs, v.f, Left(x), y), LAMBDA u : Dyad(u, x, y))
        [] v.form = "Evoke"       -> Evoke(v.vs, v.n, Left(x), y)
        [] v.form = "Fold"        -> FoldFamily(v.f, v.g, v.n.multiple, v.n.reverse, Left(x), y)
        [] v.form = "FoldStop"    -> Empty("int", <<0>>)
        [] v.form \in {"PowerUntil", "At"} -> Refusal("notyet")
        [] OTHER                  -> Refusal("domain")
Dyad(v, x, y) ==
  LET op == ScalarOf(v)
  IN  IF op # None /\ v.ranks[2] = 0 /\ v.ranks[3] = 0 /\ Rank(x) = 0 /\ Rank(y) = 0 THEN Scalars(op, x, y)
      ELSE IF x.rows /\ y.rows THEN DyadRows(v, x, y)
      ELSE IF op # None /\ Alike(x, y) THEN DyadEntry(op, FALSE, x, y)
      ELSE DyadRows(v, ToRows(x), ToRows(y))
-----------------------------------------------------------------------------
(* The trees the laws are about: in either language they mean the same.     *)
SumOf    == Reduced("+")
FromBack == Reduced("-")
Least    == Reduced("<.")
Affine   == Fork(Named("["), Named("+"), NounFork(Scalar("float", 2), Named("*"), Named("]")))
Folds    == {SumOf, FromBack, Least, One("Reduce", One("Commute", Named("-"))), One("Reduce", Affine)}
Plain    == Folds \cup {Named("|."), Named("#"), Named("$"), Named(","), One("NWise", Named(">.")),
                        Two("Hook", Named("+"), Named("|.")), Fork(SumOf, Named(","), Named("{."))}
Slow(u)  == Two("Compose", u, Named("]")) \* the same verb, recognised by nothing
Calm(a)  == a.type \in {"bool", "int", "float"} /\ SmallData(a.data)
Agrees(a, b) == /\ Refused(a) = Refused(b)
                /\ ~Refused(a) => /\ a.shape = b.shape
                                  /\ ToRows(a).data = ToRows(b).data

(* A rank is its cells one by one, each in the order of the frame, and an   *)
(* argument kept by columns is answered as the one kept by rows is.         *)
RanksAreCells(M(_, _)) ==
  LET y == ToRows(omega)
      one(v, r) == LET frame == Rank(y) - EffectiveRank(r, Rank(y)) f == First(frame, y.shape)
                   IN  [n |-> Product(f), answer |->
                         Stopping([i \in 1 .. Product(f) |-> M(v, CellAt(y, frame, i - 1))], LAMBDA cs : Assemble(f, cs))]
  IN  Calm(omega) => \A v \in Plain :
        /\ Agrees(M(v, omega), M(v, y))
        /\ \A r \in {1, -1} : one(v, r).n > 0 => Agrees(M(Ranked(v, Same3(r)), omega), one(v, r).answer)

(* A frame with no cell keeps the axes of the cells it would have had, and  *)
(* in J the refusals of cells that do not pair: an argument with an axis of *)
(* its frame at zero is answered as the one with cells is, that axis at     *)
(* zero (empty_frame, "an empty of the frame's shape alone drops whatever   *)
(* axes the cells carried").                                                *)
WithNoCell(a, frame) == Empty(a.type, [a.shape EXCEPT ![frame] = 0])
EmptyFramesKeepCells(M(_, _), D(_, _, _)) ==
  LET y == ToRows(omega)
      kept(none, some, frame) == ~Refused(none) /\ none.shape = [some.shape EXCEPT ![frame] = 0]
  IN  \A r \in {1, -1} :
        LET frame == Rank(y) - EffectiveRank(r, Rank(y)) empty == WithNoCell(y, frame) IN
        frame > 0 /\ Count(y) > 0 =>
          /\ \A v \in Plain \cup {Named("{."), Named("<")} :
               LET u == Ranked(v, Same3(r)) some == M(u, y) IN
               Refused(some) \/ kept(M(u, empty), some, frame)
          /\ Calm(y) => \A x \in {Scalar("int", 3), Ints(<<1, 2>>)}, v \in {Named("+"), Named(",")} :
               LET u == Ranked(v, <<Inf, Inf, r>>) some == D(u, x, y) none == D(u, x, empty) IN
               IF Refused(some) THEN lang = "J" => Refused(none) ELSE kept(none, some, frame)

(* The passes over the runs, windows and products of a buffer answer what   *)
(* the verb answers on each of them.                                       *)
PassesAreRuns(M(_, _), D(_, _, _)) ==
  LET y == ToRows(omega)
      runs(u, kind) == M(With("Windowed", u, kind), y)
      windows(u, w) == D(With("Windowed", u, "prefix"), Scalar("int", w), y)
      table == Arr("int", <<3, 3>>, [i \in 1 .. 9 |-> IF y.data = <<>> THEN i ELSE y.data[(i % Len(y.data)) + 1] + (i % 4)])
      det(u) == Two("InnerProduct", u, Named("*")) @@ [n |-> "J"]
  IN  Calm(omega) =>
        /\ lang = "J" /\ Items(y) > 0 => \A u \in Folds :
             /\ \A kind \in {"prefix", "suffix"} : Agrees(runs(u, kind), runs(Slow(u), kind))
             /\ \A w \in {1, 2, -2} : Agrees(windows(u, w), windows(Slow(u), w))
        /\ Agrees(M(det(FromBack), table), M(det(Slow(FromBack)), table))
ProductsAreFolds(D(_, _, _)) ==
  LET x == ToRows(alpha) y == ToRows(omega)
      dot(u) == Two("InnerProduct", u, Named("*")) @@ [n |-> "J"]
      joined == Ranked(Fork(Named("["), Named(","), Named("]")), <<Inf, -1, -1>>)
  IN  /\ lang = "J" /\ Calm(alpha) /\ Calm(omega) /\ Rank(x) > 0 /\ Rank(y) > 0 =>
           Agrees(D(dot(SumOf), x, y), D(dot(Slow(SumOf)), x, y))
      /\ lang = "J" /\ x.type # "box" /\ y.type # "box" => Agrees(D(Named(",."), x, y), D(joined, x, y))

(* A list of powers is each power alone; a fold back over the items is an   *)
(* insert, and a fold recognised is the fold step by step from either end.  *)
RepeatsAreSteps(M(_, _)) ==
  LET y == ToRows(omega)
      step == Two("Hook", Named("+"), Named("|."))
      counts == <<2, 0, 1>>
      fold(u, v, multiple, reverse) ==
        M(Two("Fold", u, v) @@ [n |-> [multiple |-> multiple, reverse |-> reverse]], y)
  IN  Calm(omega) =>
        /\ Agrees(M(Power(step, "each", counts), y),
                  Stopping([i \in DOMAIN counts |-> M(Power(step, "times", counts[i]), y)],
                    LAMBDA cs : Assemble(<<Len(cs)>>, cs)))
        /\ \A v \in {Named("+"), Named("-"), One("Commute", Named("-"))} :
             /\ Items(y) > 0 => Agrees(fold(Named("]"), v, FALSE, TRUE), M(One("Reduce", v), y))
             /\ \A multiple, reverse \in BOOLEAN :
                  Agrees(fold(Named("]"), v, multiple, reverse), fold(Slow(Named("]")), v, multiple, reverse))

(* Cut at its own frets an argument razes to itself; one axis' frets in a   *)
(* box cut as they do alone; the leaves of the answer at a level are in     *)
(* their places; keys share the items out.                                 *)
PiecesAreWhole(M(_, _), D(_, _, _)) ==
  LET y == ToRows(omega) box == Named("<") n == Items(y)
      frets == Arr("bool", <<n>>, [i \in 1 .. n |-> i % 2])
      cut(mode, x) == D(With("Cut", box, mode), x, y)
      keyed == D(One("Key", box), SelectItems(AsList(y), Iota(n)), y)
      level == M(With("Level", Named("|."), [levels |-> <<0, Inf, Inf>>, spread |-> FALSE]), y)
  IN  lang = "J" /\ Rank(y) > 0 /\ n > 0 =>
        /\ \A mode \in {1, 2} : Agrees(Raze(M(With("Cut", box, mode), y)), y)
        /\ \A mode \in {1, -1, 2, -2} : Agrees(cut(mode, frets), cut(mode, Arr("box", <<1>>, <<frets>>)))
        /\ Sum([g \in DOMAIN keyed.data |-> Items(keyed.data[g])]) = n
        /\ \A g \in DOMAIN keyed.data : Items(Nub(keyed.data[g])) = 1
        /\ ~Refused(level) /\ y.type # "box" => Agrees(level, Turned(y))

(* What an obverse undoes, the verb does again.                            *)
Dropping == {BondLeft(Scalar("int", k), Named("}.")) : k \in {1, -2}} \* what they drop is filled in
Undoable == {BondLeft(Scalar("int", 2), Named("+")), BondRight(Named("-"), Scalar("int", 3)),
             BondLeft(Scalar("int", 5), Named("-")), BondLeft(Scalar("int", 1), Named("|.")), Named("|."), Named("|:"),
             With("Windowed", SumOf, "prefix"), With("Windowed", FromBack, "suffix"), With("Windowed", SumOf, "suffix"),
             AtopAt(Named("|."), BondLeft(Scalar("int", 1), Named("+"))), Ranked(Named("|."), Same3(1)), Named("<"),
             Ranked(BondLeft(Scalar("int", 1), Named("|.")), <<1, 1, 1>>), Named(">:")}
ObversesUndo(M(_, _)) ==
  LET y == ToRows(omega)
  IN  lang = "J" /\ Calm(omega) /\ Rank(y) > 0 /\ Count(y) > 0 => \A v \in Undoable \cup Dropping :
        LET done == M(v, y) back == M(Obverse(v), done)
        IN  ~Refused(done) =>
              /\ Known(Obverse(v)) /\ ~Refused(back) /\ Agrees(M(v, back), done)
              /\ v \in Undoable => Agrees(back, y)

(* What a tree is recognised as answers what running it would.  The laws    *)
(* of one argument are asked of each argument once.                        *)
Alone == alpha = Scalar("int", 3)
VerbsMeanTheirCells ==
  [][(/\ ProductsAreFolds(Dyad)
      /\ Alone => /\ RanksAreCells(Monad) /\ EmptyFramesKeepCells(Monad, Dyad) /\ PassesAreRuns(Monad, Dyad) /\ RepeatsAreSteps(Monad)
                  /\ PiecesAreWhole(Monad, Dyad) /\ ObversesUndo(Monad))]_given

=============================================================================
