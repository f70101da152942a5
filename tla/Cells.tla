------------------------------- MODULE Cells -------------------------------
(***************************************************************************)
(* The rank machinery (verb.rs): an argument is a frame of cells, a verb   *)
(* runs on each cell, the frames of two arguments are paired, and the      *)
(* answers are framed back into one array.  A frame with no cell in it     *)
(* learns the shape of an answer from a cell of fills.                     *)
(***************************************************************************)
EXTENDS Values

EffectiveRank(r, n) == IF r >= 0 THEN Min({r, n}) ELSE Max({n + r, 0})

(***************************************************************************)
(* Agreement.  J pairs frames of which one begins with the other, APL      *)
(* equal ones and a frame of one cell with any.                            *)
(***************************************************************************)
Mismatch(fx, fy) == Refusal(IF Len(fx) = 1 /\ Len(fy) = 1 THEN "length" ELSE "shape")
Pairing(f, xdiv, ydiv) == [frame |-> f, n |-> Product(f), xdiv |-> xdiv, ydiv |-> ydiv]

AgreePrefixWhole(fx, fy) == \* mutant of AgreePrefix: the shorter frame is stretched over every cell
  LET long == IF Len(fx) >= Len(fy) THEN fx ELSE fy
      div  == Max({Product(long), 1})
  IN  IF ~(IsPrefix(fx, fy) \/ IsPrefix(fy, fx)) THEN Mismatch(fx, fy)
      ELSE IF Len(fx) >= Len(fy) THEN Pairing(long, 1, div) ELSE Pairing(long, div, 1)
AgreePrefix(fx, fy) ==
  LET long    == IF Len(fx) >= Len(fy) THEN fx ELSE fy
      short   == IF Len(fx) >= Len(fy) THEN fy ELSE fx
      surplus == Max({Product(After(Len(short), long)), 1})
  IN  IF ~IsPrefix(short, long) THEN Mismatch(fx, fy)
      ELSE IF Len(fx) >= Len(fy) THEN Pairing(long, 1, surplus) ELSE Pairing(long, surplus, 1)

AgreeExact(fx, fy) ==
  CASE fx = fy -> Pairing(fx, 1, 1)
    [] fx # fy /\ (fx = <<>> \/ (Product(fx) = 1 /\ fy # <<>>)) -> Pairing(fy, Max({Product(fy), 1}), 1)
    [] fx # fy /\ fx # <<>> /\ (fy = <<>> \/ (Product(fx) # 1 /\ Product(fy) = 1)) ->
         Pairing(fx, 1, Max({Product(fx), 1}))
    [] OTHER -> Mismatch(fx, fy)

Agree(fx, fy) == IF lang = "J" THEN AgreePrefix(fx, fy) ELSE AgreeExact(fx, fy)

(***************************************************************************)
(* Assembly.                                                               *)
(***************************************************************************)
WithElements(cells) == SelectSeq(cells, LAMBDA c : Count(c) > 0)

(* The type of a frame is that of the cells that have elements; where none *)
(* has any, the greatest in the order of the empty joins.                  *)
FrameTypeOfAll(cells) == \* mutant of FrameType: a cell with no element clashes too
  FoldLeft(LAMBDA t, c : IF t = None THEN None ELSE Promote(t, c.type), cells[1].type, cells)
FrameType(cells) ==
  LET full == WithElements(cells)
  IN  IF full = <<>>
      THEN EmptyOrder[Max({Standing(cells[i].type) : i \in DOMAIN cells})]
      ELSE FoldLeft(LAMBDA t, c : IF t = None THEN None ELSE Promote(t, c.type), full[1].type, full)

(* A cell of lower rank is given leading axes of one. *)
Raised(a, rank) == Arr(a.type, Copies(rank - Rank(a), 1) \o a.shape, ToRows(a).data)
CommonShape(cells) ==
  LET rank == Max({Rank(cells[i]) : i \in DOMAIN cells})
      up   == [i \in DOMAIN cells |-> Raised(cells[i], rank).shape]
  IN  [k \in 1 .. rank |-> Max({up[i][k] : i \in DOMAIN up})]
PaddedTo(a, s, t) ==
  LET up == Raised(a, Len(s))
  IN  [i \in 1 .. Product(s) |->
         LET c == Coord(s, i - 1) IN IF Inside(c, up.shape) THEN Element(up, c) ELSE FillOf(t)]

Assemble(frame, cells) ==
  IF cells = <<>> THEN Empty("int", frame) ELSE
  LET t == FrameType(cells) s == CommonShape(cells)
  IN  IF t = None THEN Refusal("type")
      ELSE Arr(t, frame \o s, FlattenSeq([i \in DOMAIN cells |-> PaddedTo(cells[i], s, t)]))

BoxedElements(a) == Arr("box", a.shape, [i \in 1 .. Count(a) |-> Atom(ToRows(a), i - 1)])
SomeBoxed(cells) ==
  {cells[i].type = "box" : i \in DOMAIN cells} = BOOLEAN

(* APL's items: the elements of a simple one are boxed beside boxed ones. *)
AssembleItems(frame, cells) ==
  Assemble(frame, [i \in DOMAIN cells |->
    IF SomeBoxed(cells) /\ cells[i].type # "box" THEN BoxedElements(cells[i]) ELSE cells[i]])

(* An each's: a simple answer is one box beside the boxed ones. *)
AssembleEach(frame, cells) ==
  Assemble(frame, [i \in DOMAIN cells |->
    IF SomeBoxed(cells) /\ cells[i].type # "box" THEN Box(cells[i]) ELSE cells[i]])

(* APL's mix: characters beside numbers, each padded with its own fill, make *)
(* a table of boxed scalars.                                                 *)
Clashing(cells) ==
  /\ \A i \in DOMAIN cells : cells[i].type # "box"
  /\ WithElements(cells) # <<>> /\ FrameType(cells) = None
AssembleMixed(frame, cells) ==
  IF cells = <<>> \/ ~Clashing(cells) THEN Assemble(frame, cells) ELSE
  LET s == CommonShape(cells)
  IN  Assemble(frame, [i \in DOMAIN cells |->
        BoxedElements(Arr(cells[i].type, s, PaddedTo(cells[i], s, cells[i].type)))])

(***************************************************************************)
(* A frame with no cell.                                                   *)
(***************************************************************************)
NoCell == Refusal("no cell")

(* The first cell where the argument has one, a cell of fills otherwise, and *)
(* nothing for a verb that must not be run to learn a shape.                *)
FillCell(a, frame, pure) ==
  LET s == After(frame, a.shape)
  IN  IF ~pure THEN NoCell
      ELSE IF Product(First(frame, a.shape)) # 0 THEN CellAt(a, frame, 0)
      ELSE Arr(a.type, s, Copies(Product(s), FillOf(a.type)))
NumericLike(a) == Arr("bool", a.shape, Copies(Count(a), 0))

(* Which refusal of a fill run the sentence keeps. *)
ShapeRefusal(r, agreeing, indexing) ==
  \/ agreeing /\ r.kind \in {"length", "shape"}
  \/ indexing /\ r.kind = "index"

(* What the maker of the frame leaves where the fill run says nothing. *)
Nothing   == Empty("bool", <<>>)
NoIntegers == Empty("int", <<0>>)

EmptyFrameAlone(frame, type, cell, kept, probe, left, first, again) == \* mutant of EmptyFrame: no axes of a cell
  IF ~Refused(cell) /\ Refused(first) /\ lang = "J" /\ kept THEN first ELSE Empty(type, frame)

(* first is the verb's answer for the cell, again its answer for numbers of  *)
(* the cell's shape; kept says whether the first refusal is the sentence's.  *)
EmptyFrame(frame, type, cell, kept, probe, left, first, again) ==
  LET Shaped(t, s) == Empty(t, frame \o s)
  IN  CASE Refused(cell) -> Shaped(type, <<>>)
        [] ~Refused(cell) /\ ~Refused(first) -> Shaped(first.type, first.shape)
        [] ~Refused(cell) /\ Refused(first) /\ lang = "J" /\ kept -> first
        [] OTHER ->
             IF probe /\ first.kind \notin {"rank", "length", "shape"} /\ ~Refused(again)
             THEN Shaped(type, again.shape)
             ELSE Shaped(left.type, left.shape)

(* u"r: a rank at or above the verb's own leaves it the whole argument. *)
WholeArgument(own, rank, y) ==
  LET eff == EffectiveRank(rank, Rank(y)) IN eff = Rank(y) \/ (own >= 0 /\ eff >= own)

(***************************************************************************)
(* Two arguments.                                                          *)
(***************************************************************************)
EmptyType(x, y) ==
  IF Count(x) > 0 THEN x.type
  ELSE IF Count(y) > 0 THEN y.type
  ELSE EmptyOrder[Max({Standing(x.type), Standing(y.type)})]

(***************************************************************************)
(* Boxes.                                                                  *)
(***************************************************************************)
(* "always" is J's <, "except" APL's enclose, which leaves a simple scalar. *)
Enclose(y, rule) ==
  IF rule = "except" /\ Rank(y) = 0 /\ y.type # "box" THEN y ELSE Box(y)
OpenCellFlat(y) == \* mutant of OpenCell: what was held comes out as a list
  IF y.type = "box" /\ y.data # <<>> THEN Arr(y.data[1].type, <<Count(y.data[1])>>, ToRows(y.data[1]).data) ELSE y
OpenCell(y) == IF y.type = "box" /\ y.data # <<>> THEN ToRows(y.data[1]) ELSE y
FirstOf(y)  == IF Count(y) = 0 THEN OpenCell(Scalar(y.type, FillOf(y.type))) ELSE OpenCell(Atom(y, 0))

(* A simple array whose elements no type holds together is boxed scalars,  *)
(* and stays so; an empty array of boxes has nothing to open.              *)
MixedSimple(y) ==
  /\ y.type = "box" /\ y.data # <<>> /\ \A i \in DOMAIN y.data : Rank(y.data[i]) = 0 /\ y.data[i].type # "box"
  /\ FrameType(y.data) = None
Open(y) ==
  CASE MixedSimple(y) \/ (y.type = "box" /\ Count(y) = 0 /\ lang = "J") -> y
    [] ~MixedSimple(y) /\ Count(y) = 0 /\ (y.type # "box" \/ lang = "APL") ->
         LET fill == FillCell(y, Rank(y), TRUE)
         IN  EmptyFrame(y.shape, y.type, fill, FALSE, lang = "J", Nothing, OpenCell(fill), NumericLike(fill))
    [] OTHER -> LET cells == [i \in 1 .. Count(y) |-> OpenCell(Atom(y, i - 1))]
                IN  IF lang = "J" THEN Assemble(y.shape, cells) ELSE AssembleMixed(y.shape, cells)

RECURSIVE Depth(_)
Depth(y) ==
  IF y.type # "box" THEN IF Rank(y) > 0 THEN 1 ELSE 0
  ELSE 1 + Max({0} \cup {Depth(y.data[i]) : i \in DOMAIN y.data})

RECURSIVE Uniform(_)
Uniform(y) ==
  y.type = "box" /\ y.data # <<>> =>
    \A i \in DOMAIN y.data : Depth(y.data[i]) = Depth(y.data[1]) /\ Uniform(y.data[i])

RECURSIVE LeavesAsTheyLie(_)
LeavesAsTheyLie(y) == \* mutant of Leaves: a leaf by columns is read as rows
  IF y.type # "box" THEN <<y>>
  ELSE FlattenSeq([i \in 1 .. Count(y) |-> LeavesAsTheyLie(y.data[i])])
RECURSIVE Leaves(_)
Leaves(y) ==
  IF y.type # "box" THEN <<ToRows(y)>>
  ELSE FlattenSeq([i \in 1 .. Count(y) |-> Leaves(ToRows(y).data[i])])

(* Every element of every leaf, as boxes where no type holds them all. *)
Enlist(y) ==
  LET leaves == Leaves(y)
      full   == WithElements(leaves)
      t      == IF leaves = <<>> THEN "int" ELSE IF full = <<>> THEN leaves[1].type ELSE FrameType(leaves)
      elems(a) == IF t = None THEN BoxedElements(a).data ELSE a.data
      all    == FlattenSeq([i \in DOMAIN full |-> elems(full[i])])
  IN  Arr(IF t = None THEN "box" ELSE t, <<Len(all)>>, all)

-----------------------------------------------------------------------------
Frames(a) == {First(k, a.shape) : k \in 0 .. Rank(a)}

(* Every cell of a paired frame is a cell each argument has, in either      *)
(* language, and the frames that agree are the ones that agree the other    *)
(* way round, with frames of the same number of cells: agree's divisions    *)
(* index both buffers, and nothing else bounds them.                        *)
PairsAreCells ==
  \A fx \in Frames(alpha), fy \in Frames(omega) :
    LET p == Agree(fx, fy) q == Agree(fy, fx)
    IN  /\ Refused(p) <=> Refused(q)
        /\ ~Refused(p) =>
             /\ p.n = q.n
             /\ \A i \in 0 .. p.n - 1 : i \div p.xdiv < Product(fx) /\ i \div p.ydiv < Product(fy)
             /\ p.n > 0 => {i \div p.xdiv : i \in 0 .. p.n - 1} = 0 .. Product(fx) - 1
             /\ p.n > 0 => {i \div p.ydiv : i \in 0 .. p.n - 1} = 0 .. Product(fy) - 1

(* Framing what differs in shape, and in type as far as one holds no        *)
(* element, drops and moves nothing: where each answer's own axes reach, it *)
(* is there, and the rest is fill.  A cell with no element refuses nothing. *)
Kept(frame, cells, a) ==
  LET c == CommonShape(cells) r == Len(c)
  IN  \A i \in DOMAIN cells : \A k \in 0 .. Product(c) - 1 :
        LET up == Raised(cells[i], r) e == At(CellAt(a, Len(frame), i - 1), k)
        IN  IF Inside(Coord(c, k), up.shape) THEN e = Element(up, Coord(c, k)) ELSE e = FillOf(a.type)
AssemblyKeepsCells ==
  LET cells == <<alpha, omega, alpha>> a == Assemble(<<3>>, cells)
  IN  /\ ~Refused(a) => Kept(<<3>>, cells, a)
      /\ Refused(a) => Count(alpha) > 0 /\ Count(omega) > 0 /\ Promote(alpha.type, omega.type) = None

(* Taken apart into cells of any rank and framed again an argument with a   *)
(* cell is the same argument, and opening what was enclosed gives it back.  *)
FramedAgain ==
  LET y == ToRows(omega)
  IN  /\ \A k \in 0 .. Rank(y) :
           Product(First(k, y.shape)) > 0 => Same(Assemble(First(k, y.shape), CellsOf(y, k)), y)
      /\ Same(OpenCell(Enclose(omega, "always")), omega)
      /\ omega.type # "box" => Same(OpenCell(Enclose(omega, "except")), omega)

(* Enlist reads the leaves in order whatever the depths, the order of the   *)
(* buffers and the empty leaves between them; a simple array is ravelled.   *)
EnlistFlattens ==
  LET y == Arr("box", <<2>>, <<alpha, Box(omega)>>)
      z == Arr("box", <<1, 3>>, <<Box(alpha), omega, Empty("char", <<0>>)>>)
  IN  /\ WithElements(Leaves(y)) # <<>> => Same(Enlist(y), Enlist(z))
      /\ omega.type # "box" => Enlist(omega).data = ToRows(omega).data

(* Taken apart, paired and framed again, arguments keep what they hold.     *)
CellsComeBack ==
  [][(PairsAreCells /\ AssemblyKeepsCells /\ FramedAgain /\ EnlistFlattens)]_given

=============================================================================
