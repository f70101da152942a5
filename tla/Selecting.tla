----------------------------- MODULE Selecting -----------------------------
(***************************************************************************)
(* Selecting by index and writing back what was selected (verb.rs): APL's  *)
(* index in brackets and squad, J's index specifications and amendment,    *)
(* paths into boxes, partitions, and the blocks a cut or a tessellation    *)
(* takes.  Digits of a number in a base are selected from it too.          *)
(***************************************************************************)
EXTENDS Folding

NotWhole(x) == Count(x) > 0 /\ x.type \notin NumTypes
WithIndices(x, F(_)) == IF NotWhole(x) THEN Refusal("domain") ELSE F(ToRows(x).data)
AllPlaces(ks, n) == \A i \in DOMAIN ks : Place(ks[i], n) \in 0 .. n - 1

(***************************************************************************)
(* APL's indices.  Each slot keeps the shape of what was written in it, and *)
(* an axis with no slot is taken whole.                                    *)
(***************************************************************************)
Slot(x, i) == LET item == IF Rank(x) = 0 THEN x ELSE Item(x, i - 1)
              IN  IF item.type = "box" /\ Rank(item) = 0 THEN ToRows(item.data[1]) ELSE item
Reached(slots, y, origin) ==
  LET shape == FlattenSeq([k \in DOMAIN slots |-> slots[k].shape])
      from(k) == Sum([j \in 1 .. k - 1 |-> Rank(slots[j])])
      part(c, k) == SubSeq(c, from(k) + 1, from(k) + Rank(slots[k]))
  IN  Filled(y.type, shape, LAMBDA c :
        Element(y, [k \in DOMAIN slots |-> Element(slots[k], part(c, k)) - origin]))
Squad(x, y, origin, leading, axes) == \* axes: 1-based, or none of them named
  LET named == Items(x)
      slot(k) == IF axes # <<>> THEN {i \in DOMAIN axes : axes[i] = k} ELSE {k} \cap 1 .. named
      all(k) == Ints([i \in 1 .. y.shape[k] |-> i - 1 + origin])
      slots == [k \in 1 .. Rank(y) |-> IF slot(k) = {} THEN all(k) ELSE Slot(x, CHOOSE i \in slot(k) : TRUE)]
      within(k) == \A i \in DOMAIN slots[k].data : slots[k].data[i] - origin \in 0 .. y.shape[k] - 1
  IN  IF Rank(x) > 1 THEN Refusal("rank")
      ELSE IF axes # <<>> /\ named # Len(axes) THEN Refusal("length")
      ELSE IF axes = <<>> /\ (named > Rank(y) \/ (~leading /\ named # Rank(y))) THEN Refusal("rank")
      ELSE IF \E k \in DOMAIN slots : IF NotWhole(slots[k]) THEN TRUE ELSE ~within(k) THEN Refusal("domain")
      ELSE Reached(slots, ToRows(y), origin)
SelectAxisFlat(x, y, axis, rank, origin) == \* mutant of SelectAxis: what is chosen comes out as a list
  Arr(y.type, First(axis - 1, y.shape) \o <<Count(x)>> \o After(axis, y.shape),
      Squad(Arr("box", <<1>>, <<Arr(x.type, <<Count(x)>>, x.data)>>), y, origin, TRUE, <<axis>>).data)
SelectAxis(x, y, axis, rank, origin) ==
  LET before == First(axis - 1, y.shape) after == After(axis, y.shape) s == before \o x.shape \o after
      to(c) == SubSeq(c, axis, axis - 1 + Rank(x))
  IN  IF (rank # 0 /\ Rank(y) # rank) \/ axis \notin 1 .. Rank(y) THEN Refusal("rank")
      ELSE WithIndices(x, LAMBDA idx :
        IF \E i \in DOMAIN idx : idx[i] - origin \notin 0 .. y.shape[axis] - 1 THEN Refusal("domain")
        ELSE Filled(y.type, s, LAMBDA c : Element(y,
               First(axis - 1, c) \o <<Element(ToRows(x), to(c)) - origin>> \o After(axis - 1 + Rank(x), c))))

(***************************************************************************)
(* J's index specifications: how many axes are reached, the cells and the  *)
(* shape they are laid out in.  A box in an axis' box is what to leave out. *)
(***************************************************************************)
Spec1(width, cells, shape) == [width |-> width, cells |-> cells, shape |-> shape]
AxisChoice(c, n) ==
  LET excluded == c.type = "box"
      idx == IF excluded THEN OpenCell(c) ELSE c
      places == [i \in DOMAIN idx.data |-> Place(ToRows(idx).data[i], n)]
      kept == SelectSeq(Iota(n), LAMBDA i : i \notin ToSet(places))
  IN  WithIndices(idx, LAMBDA ks :
        IF ~AllPlaces(ks, n) THEN Refusal("domain")
        ELSE IF excluded THEN [places |-> kept, shape |-> <<Len(kept)>>] ELSE [places |-> places, shape |-> c.shape])
Crossed(axes) ==
  FoldLeft(LAMBDA cells, axis :
             FlattenSeq([i \in DOMAIN cells |-> [j \in DOMAIN axis.places |-> Append(cells[i], axis.places[j])]]),
           <<<<>>>>, axes)
IndexSpec(content, y) ==
  LET r == Rank(content)
      width == IF r = 0 THEN 1 ELSE content.shape[r]
      shape == IF r = 0 THEN <<>> ELSE First(r - 1, content.shape)
      ks == ToRows(content).data
      cell(i) == [k \in 1 .. width |-> Place(ks[(i - 1) * width + k], y.shape[k])]
      axes == [k \in DOMAIN content.data |-> AxisChoice(content.data[k], y.shape[k])]
  IN  IF content.type = "box"
      THEN IF Len(content.data) > Rank(y) THEN Refusal("rank")
           ELSE IF AnyRefused(axes) THEN FirstRefusal(axes)
           ELSE Spec1(Len(axes), Crossed(axes), FlattenSeq([k \in DOMAIN axes |-> axes[k].shape]))
      ELSE IF NotWhole(content) THEN Refusal("domain")
      ELSE IF width > Rank(y) THEN Refusal("rank")
      ELSE IF \E i \in 1 .. Product(shape) : \E k \in 1 .. width : cell(i)[k] \notin 0 .. y.shape[k] - 1 THEN Refusal("domain")
      ELSE Spec1(width, [i \in 1 .. Product(shape) |-> cell(i)], shape)
MergeSpecs(specs, m) ==
  IF specs = <<>> THEN Refusal("domain")
  ELSE IF AnyRefused(specs) THEN FirstRefusal(specs)
  ELSE IF \E i \in DOMAIN specs : specs[i].width # specs[1].width THEN Refusal("rank")
  ELSE Spec1(specs[1].width, FlattenSeq([i \in DOMAIN specs |-> specs[i].cells]), m.shape \o specs[1].shape)
CellOf(y, cell) == CellAt(y, Len(cell), Dot(cell, [k \in DOMAIN cell |-> Product(SubSeq(y.shape, k + 1, Len(cell)))]))
SelectSpec(spec, y) ==
  Arr(y.type, spec.shape \o After(spec.width, y.shape),
      FlattenSeq([i \in DOMAIN spec.cells |-> CellOf(y, spec.cells[i]).data]))
FromIndex(x, y) ==
  IF x.type = "box" THEN Then(IndexSpec(ToRows(x.data[1]), y), LAMBDA s : SelectSpec(s, y)) ELSE ItemAt(x, y)

(* One atom goes everywhere, one cell into every cell, or each cell its own; *)
(* of two writes to one cell the later stays.                               *)
WrittenFirst(spec, x, y, t) == \* mutant of Written: of two writes to one cell the earlier stays
  LET size == Product(After(spec.width, y.shape))
      at(i) == Dot(spec.cells[i], [k \in 1 .. spec.width |-> Strides(y.shape)[k]])
      writers(p) == {i \in DOMAIN spec.cells : p \in at(i) .. at(i) + size - 1}
      put(p) == LET i == CHOOSE i \in writers(p) : \A j \in writers(p) : j >= i
                  IN  IF Count(x) = 1 THEN x.data[1] ELSE IF Count(x) = size THEN x.data[p - at(i) + 1]
                      ELSE x.data[(i - 1) * size + p - at(i) + 1]
  IN  Arr(t, y.shape, [p \in 1 .. Count(y) |-> IF writers(p - 1) = {} THEN y.data[p] ELSE put(p - 1)])
Written(spec, x, y, t) ==
  LET size == Product(After(spec.width, y.shape))
      at(i) == Dot(spec.cells[i], [k \in 1 .. spec.width |-> Strides(y.shape)[k]])
      writers(p) == {i \in DOMAIN spec.cells : p \in at(i) .. at(i) + size - 1}
      put(p) == LET i == Max(writers(p))
                  IN  IF Count(x) = 1 THEN x.data[1] ELSE IF Count(x) = size THEN x.data[p - at(i) + 1]
                      ELSE x.data[(i - 1) * size + p - at(i) + 1]
  IN  Arr(t, y.shape, [p \in 1 .. Count(y) |-> IF writers(p - 1) = {} THEN y.data[p] ELSE put(p - 1)])
AmendSpec(spec, x, y) ==
  LET size == Product(After(spec.width, y.shape)) t == Promote(x.type, y.type)
  IN  IF Count(x) \notin {1, size, size * Len(spec.cells)} THEN Refusal("length")
      ELSE IF t = None THEN Refusal("type") ELSE Written(spec, ToRows(x), y, t)
Amend(m, x, y) ==
  LET list == [i \in DOMAIN m.data |-> IndexSpec(ToRows(m.data[i]), y)]
      deep == Rank(m) > 0 /\ \E i \in DOMAIN m.data : m.data[i].type = "box"
  IN  IF Rank(y) = 0 THEN Refusal("rank")
      ELSE IF m.type = "box"
           THEN IF deep THEN Refusal("domain") ELSE Then(MergeSpecs(list, m), LAMBDA s : AmendSpec(s, x, y))
      ELSE WithIndices(m, LAMBDA ks :
        IF ~AllPlaces(ks, Items(y)) THEN Refusal("domain")
        ELSE AmendSpec(Spec1(1, [i \in DOMAIN ks |-> <<Place(ks[i], Items(y))>>], m.shape), x, y))

(***************************************************************************)
(* A path into boxes: each step reaches a cell, and what it holds is opened *)
(* for the next one.                                                       *)
(***************************************************************************)
Opened(cell) == [value |-> OpenCell(cell), opened |-> Rank(cell) = 0 /\ cell.type = "box"]
FetchItems(inner, cur) ==
  WithIndices(inner, LAMBDA ks :
    IF ~AllPlaces(ks, Items(cur)) THEN Refusal("domain")
    ELSE LET cells == [i \in DOMAIN ks |-> Item(cur, Place(ks[i], Items(cur)))]
         IN  Then(IF Rank(inner) = 0 THEN cells[1] ELSE Assemble(inner.shape, cells), Opened))
FetchCell(step, cur) ==
  LET base == AsList(cur)
  IN  WithIndices(step, LAMBDA ks :
        IF Len(ks) > Rank(base) THEN Refusal("length")
        ELSE IF \E k \in DOMAIN ks : Place(ks[k], base.shape[k]) \notin 0 .. base.shape[k] - 1 THEN Refusal("domain")
        ELSE Opened(CellOf(base, [k \in DOMAIN ks |-> Place(ks[k], base.shape[k])])))
FetchStep(at, step) ==
  LET cur == at.value
  IN  IF ~at.opened /\ Rank(cur) # 0 THEN Refusal("rank")
      ELSE IF Count(step) = 0 THEN IF Rank(cur) = 0 /\ cur.type = "box" THEN Opened(cur) ELSE [at EXCEPT !.opened = FALSE]
      ELSE IF Rank(step) = 0 /\ step.type = "box" /\ Rank(cur) > 0 THEN FetchItems(OpenCell(step), cur)
      ELSE FetchCell(step, cur)
Fetch(x, y) ==
  LET steps == IF x.type = "box" THEN [i \in DOMAIN x.data |-> ToRows(x.data[i])] ELSE <<x>>
      last == FoldLeft(LAMBDA at, step : Then(at, LAMBDA a : FetchStep(a, step)), [value |-> y, opened |-> TRUE], steps)
  IN  Then(last, LAMBDA a : a.value)
RECURSIVE PathsWithin(_, _)
PathsWithin(y, prefix) ==
  LET to(i) == IF Rank(y) = 0 THEN Empty("box", <<0>>) ELSE Ints(Coord(y.shape, i - 1))
  IN  IF y.type # "box" THEN IF prefix = <<>> THEN Empty("bool", <<0>>) ELSE Arr("box", <<Len(prefix)>>, prefix)
      ELSE Arr("box", y.shape, [i \in DOMAIN y.data |-> PathsWithin(ToRows(y.data[i]), Append(prefix, to(i)))])
MapPaths(y) == PathsWithin(y, <<>>)

(***************************************************************************)
(* Partitions of the last axis: by counts, how many groups begin at each   *)
(* element; by flags, a rising one begins a group and a zero leaves out.   *)
(***************************************************************************)
PartitionCounts(x, y) ==
  LET last == y.shape[Rank(y)]
      counts == ToRows(x).data
      at(i) == IF Rank(x) = 0 THEN counts[1] ELSE IF i <= Len(counts) THEN counts[i] ELSE 0
      begins == FlattenSeq([i \in 1 .. last |-> Copies(at(i), i)])
      ends(g) == IF g = Len(begins) THEN last ELSE begins[g + 1] - 1
      part(g) == LET n == ends(g) - begins[g] + 1
                 IN  Filled(y.type, First(Rank(y) - 1, y.shape) \o <<n>>, LAMBDA c :
                       Element(y, [c EXCEPT ![Rank(y)] = @ + begins[g] - 1]))
  IN  IF Rank(y) = 0 THEN Refusal("rank")
      ELSE IF NotWhole(x) \/ \E i \in DOMAIN x.data : x.data[i] < 0 THEN Refusal("domain")
      ELSE IF Len(counts) > last THEN Refusal("length")
      ELSE Arr("box", <<Len(begins)>>, [g \in DOMAIN begins |-> part(g)])
RisesNonzero(flags, i) == flags[i] # 0 /\ (i = 1 \/ flags[i - 1] = 0) \* mutant of Rises: a group begins where flags begin
Rises(flags, i) == flags[i] > IF i = 1 THEN 0 ELSE flags[i - 1]
PartitionRow(x, y) ==
  LET given1 == ToRows(x).data n == y.shape[1]
      flags == IF Len(given1) = 1 /\ n # 1 THEN Copies(n, given1[1]) ELSE given1
      starts == SelectSeq([i \in 1 .. n |-> i], LAMBDA i : Rises(flags, i))
      group(g) == LET last == IF g = Len(starts) THEN n ELSE starts[g + 1] - 1
                  IN  SelectSeq([i \in 1 .. last |-> i], LAMBDA i : i >= starts[g] /\ flags[i] # 0)
      part(g) == Arr(y.type, <<Len(group(g))>>, [i \in DOMAIN group(g) |-> y.data[group(g)[i]]])
  IN  IF Count(x) = 0 /\ n = 0 THEN Empty("box", <<0>>)
      ELSE IF NotWhole(x) \/ \E i \in DOMAIN x.data : x.data[i] < 0 THEN Refusal("domain")
      ELSE IF Len(flags) # n THEN Refusal("length")
      ELSE Arr("box", <<Len(starts)>>, [g \in DOMAIN starts |-> part(g)])
PartitionEnclose(x, y) ==
  LET lead == First(Rank(y) - 1, y.shape)
      rows == [r \in 1 .. Product(lead) |-> PartitionRow(x, CellAt(y, Rank(y) - 1, r - 1))]
      width == IF rows = <<>> THEN 0 ELSE Count(rows[1])
  IN  IF Rank(y) = 0 THEN Refusal("rank")
      ELSE IF Rank(y) = 1 THEN PartitionRow(x, y)
      ELSE IF y.shape[Rank(y)] = 0 THEN Empty("box", lead \o <<0>>)
      ELSE IF AnyRefused(rows) THEN FirstRefusal(rows)
      ELSE Arr("box", lead \o <<width>>, FlattenSeq([r \in DOMAIN rows |-> rows[r].data]))
PartitionAt(bycounts, x, y, k) ==
  LET moved == AxisToBack(y, k)
  IN  IF bycounts
      THEN Then(PartitionCounts(x, moved), LAMBDA p : [p EXCEPT !.data = [i \in DOMAIN p.data |-> BackToAxis(p.data[i], k)]])
      ELSE Then(PartitionEnclose(x, moved), LAMBDA p : BackToAxis(p, k))

(***************************************************************************)
(* What a cut takes: runs of items between frets, or blocks.               *)
(***************************************************************************)
CutRangesKeeping(frets, mode) == \* mutant of CutRanges: a fret that is left out is left out at the wrong end
  LET n == Len(frets)
      at == SelectSeq([i \in 1 .. n |-> i], LAMBDA i : frets[i])
  IN  IF Abs(mode) = 1
      THEN [g \in DOMAIN at |-> <<at[g] - 1, (IF g = Len(at) THEN n ELSE at[g + 1] - 1) - (IF mode < 0 THEN 1 ELSE 0)>>]
      ELSE [g \in DOMAIN at |-> <<IF g = 1 THEN 0 ELSE at[g - 1], at[g] - (IF mode < 0 THEN 1 ELSE 0)>>]
CutRanges(frets, mode) ==
  LET n == Len(frets)
      at == SelectSeq([i \in 1 .. n |-> i], LAMBDA i : frets[i])
  IN  IF Abs(mode) = 1
      THEN [g \in DOMAIN at |-> <<at[g] - (IF mode < 0 THEN 0 ELSE 1), IF g = Len(at) THEN n ELSE at[g + 1] - 1>>]
      ELSE [g \in DOMAIN at |-> <<IF g = 1 THEN 0 ELSE at[g - 1], at[g] - (IF mode < 0 THEN 1 ELSE 0)>>]
(* A scalar fret is every item's, and no frets at all cut nothing off.      *)
AxisRanges(flags, n, mode) ==
  LET fs == ToRows(flags).data
  IN  IF NotWhole(flags) \/ \E i \in DOMAIN fs : fs[i] \notin {0, 1} THEN Refusal("domain")
      ELSE IF Rank(flags) > 1 THEN Refusal("rank")
      ELSE IF Rank(flags) = 1 /\ fs = <<>> THEN [ranges |-> IF n > 0 THEN <<<<0, n>>>> ELSE <<>>]
      ELSE IF Rank(flags) = 1 /\ Len(fs) # n THEN Refusal("length")
      ELSE [ranges |-> CutRanges([i \in 1 .. n |-> fs[IF Rank(flags) = 0 THEN 1 ELSE i] = 1], mode)]

Rectangle(x) ==
  LET n == IF Rank(x) = 2 THEN x.shape[2] ELSE Count(x) d == ToRows(x).data
  IN  IF NotWhole(x) THEN Refusal("domain")
      ELSE IF Rank(x) > 2 THEN Refusal("length")
      ELSE IF Rank(x) < 2 THEN [origin |-> <<>>, size |-> d]
      ELSE IF x.shape[1] # 2 THEN Refusal("length") ELSE [origin |-> <<First(n, d)>>, size |-> After(n, d)]
(* From a place at the front, or up to one at the back, as far as there is;  *)
(* a negative size is reversed.                                             *)
RectangleBlock(y, origin, size) ==
  LET from(k) == Place(origin[k], y.shape[k])
      len(k) == IF origin[k] < 0 THEN Min({Abs(size[k]), from(k) + 1}) ELSE Min({Abs(size[k]), y.shape[k] - from(k)})
  IN  IF Len(origin) # Len(size) THEN Refusal("length")
      ELSE IF Len(origin) > Rank(y) THEN Refusal("rank")
      ELSE IF \E k \in DOMAIN origin : from(k) \notin 0 .. y.shape[k] THEN Refusal("domain")
      ELSE [start |-> [k \in DOMAIN origin |-> IF origin[k] < 0 THEN from(k) + 1 - len(k) ELSE from(k)],
            block |-> [k \in DOMAIN origin |-> IF size[k] < 0 THEN -len(k) ELSE len(k)]]
Subarray(y, origin, size) ==
  LET n == Len(origin)
      from(k) == Place(origin[k], y.shape[k])
      s == [k \in DOMAIN y.shape |-> IF k <= n THEN Abs(size[k]) ELSE y.shape[k]]
      to(c, k) == IF k > n THEN c[k] ELSE IF size[k] < 0 THEN from(k) + s[k] - 1 - c[k] ELSE from(k) + c[k]
  IN  IF n > Rank(y) THEN Refusal("rank")
      ELSE IF \E k \in 1 .. n : from(k) < 0 \/ from(k) + s[k] > y.shape[k] THEN Refusal("domain")
      ELSE Filled(y.type, s, LAMBDA c : Element(y, [k \in DOMAIN c |-> to(c, k)]))
ReverseAllAxes(y) == Filled(y.type, y.shape, LAMBDA c : Element(y, [k \in DOMAIN c |-> y.shape[k] - 1 - c[k]]))
Diagonal1(y, d) == \* the items of one diagonal across the first two axes
  LET rows == SelectSeq(Iota(y.shape[1]), LAMBDA i : d - i \in 0 .. y.shape[2] - 1)
  IN  Arr(y.type, <<Len(rows)>> \o After(2, y.shape),
          FlattenSeq([i \in DOMAIN rows |-> CellAt(y, 2, rows[i] * y.shape[2] + d - rows[i]).data]))
(* The window of a stencil is centred on its element; outside is fill.      *)
StencilWindow(y, w, at) ==
  LET from(c, k) == IF k <= Len(w) THEN at[k] + c[k] - ((w[k] - 1) \div 2) ELSE c[k]
      place(c) == [k \in DOMAIN c |-> from(c, k)]
  IN  Filled(y.type, w \o After(Len(w), y.shape), LAMBDA c :
        IF Inside(place(c), y.shape) THEN Element(y, place(c)) ELSE FillOf(y.type))

(***************************************************************************)
(* Digits in a mixed base: the last radix first, zero taking all that is   *)
(* left.                                                                   *)
(***************************************************************************)
DigitsOfForward(radix, v) == \* mutant of DigitsOf: the first radix is taken first
  LET n == Len(radix)
      rem[i \in 0 .. n] == IF i = 0 THEN v ELSE IF radix[i] = 0 THEN 0 ELSE (rem[i - 1] - ResidueOf(radix[i], rem[i - 1])) \div Abs(radix[i])
  IN  [i \in 1 .. n |-> ResidueOf(radix[i], rem[i - 1])]
DigitsOf(radix, v) ==
  LET n == Len(radix)
      quotient(r, b) == LET q == (r - ResidueOf(b, r)) \div Abs(b) IN IF b < 0 THEN -q ELSE q
      rem[i \in 1 .. n + 1] == IF i = n + 1 THEN v ELSE IF radix[i] = 0 THEN 0 ELSE quotient(rem[i + 1], radix[i])
  IN  [i \in 1 .. n |-> ResidueOf(radix[i], rem[i + 1])]
ValueOf(radix, digits) ==
  LET acc[i \in 0 .. Len(digits)] == IF i = 0 THEN 0 ELSE acc[i - 1] * radix[i] + digits[i] IN acc[Len(digits)]
Encode(x, y) ==
  LET radix == x.data s == (IF Rank(x) = 0 THEN <<>> ELSE <<Len(radix)>>) \o y.shape n == Count(y)
  IN  IF Count(x) = 0 THEN Empty("int", (IF Rank(x) = 0 THEN <<>> ELSE <<0>>) \o y.shape)
      ELSE IF NotWhole(x) \/ NotWhole(y) THEN Refusal("domain")
      ELSE Arr("int", s, [p \in 1 .. Len(radix) * n |-> DigitsOf(radix, y.data[((p - 1) % n) + 1])[((p - 1) \div n) + 1]])
Decode(x, y) ==
  LET n == IF Rank(y) = 0 THEN Count(x) ELSE Count(y)
      digits == [i \in 1 .. n |-> y.data[IF Rank(y) = 0 THEN 1 ELSE i]]
  IN  IF NotWhole(x) \/ NotWhole(y) THEN Refusal("domain")
      ELSE IF Rank(x) > 0 /\ Count(x) # n THEN Refusal("length")
      ELSE Scalar("int", ValueOf([i \in 1 .. n |-> x.data[IF Rank(x) = 0 THEN 1 ELSE i]], digits))
EncodeApl(x, y) ==
  LET k == Items(x) frames == ItemSize(x) n == Count(y)
      radix(p) == [i \in 1 .. k |-> x.data[(i - 1) * frames + p]]
      digit(q) == LET j == ((q - 1) % n) + 1 p == (((q - 1) \div n) % frames) + 1 i == ((q - 1) \div (n * frames)) + 1
                  IN  DigitsOf(radix(p), y.data[j])[i]
  IN  IF n > 0 /\ (NotWhole(x) \/ NotWhole(y)) THEN Refusal("domain")
      ELSE Arr("int", x.shape \o y.shape, [q \in 1 .. Count(x) * n |-> digit(q)])
DecodeApl(x, y) ==
  LET width == IF Rank(x) = 0 THEN 0 ELSE x.shape[Rank(x)]
      rows == IF Rank(x) = 0 THEN 1 ELSE Product(First(Rank(x) - 1, x.shape))
      repeated == Count(y) = 1 /\ width > 1 /\ width # Items(y)
      k == IF repeated THEN width ELSE Items(y)
      n == IF repeated THEN 1 ELSE ItemSize(y)
      per == IF Rank(x) > 0 /\ width = 0 THEN 0 ELSE k
      radix(i, d) == x.data[IF width <= 1 THEN (i - 1) * width + 1 ELSE (i - 1) * width + d]
      digit(d, j) == y.data[IF repeated THEN 1 ELSE (d - 1) * n + j]
      value(i, j) == ValueOf([d \in 1 .. per |-> radix(i, d)], [d \in 1 .. per |-> digit(d, j)])
  IN  IF Count(y) > 0 /\ (NotWhole(x) \/ NotWhole(y)) THEN Refusal("domain")
      ELSE IF width > 1 /\ k # 0 /\ width # k THEN Refusal("length")
      ELSE Arr("int", (IF Rank(x) = 0 THEN <<>> ELSE First(Rank(x) - 1, x.shape)) \o (IF Rank(y) = 0 THEN <<>> ELSE After(1, y.shape)),
               [p \in 1 .. rows * n |-> IF Count(y) = 0 /\ per > 0 THEN 0 ELSE value(((p - 1) \div n) + 1, ((p - 1) % n) + 1)])
-----------------------------------------------------------------------------
(* An index in brackets that names every place gives the array back, and    *)
(* naming an axis alone is naming the others whole.                         *)
BracketsSelectAlike ==
  LET y == ToRows(omega)
      all(origin) == [k \in 1 .. Rank(y) |-> Ints([i \in 1 .. y.shape[k] |-> i - 1 + origin])]
  IN  /\ \A origin \in {0, 1} : Rank(y) > 0 =>
           Same(Squad(Arr("box", <<Rank(y)>>, all(origin)), y, origin, FALSE, <<>>), y)
      /\ \A k \in 1 .. Rank(y) :
           LET one == SelectAxis(alpha, y, k, 0, 1) squad == Squad(Arr("box", <<1>>, <<alpha>>), y, 1, TRUE, <<k>>)
           IN  alpha.type # "box" => Refused(one) = Refused(squad) /\ (~Refused(one) => Same(one, squad))

(* What is written is read back where it was written last, whichever end   *)
(* its place was counted from, and nothing else is touched.                *)
LastWriteStays ==
  LET y == ToRows(omega) n == Items(y)
      m == <<0, -1, 0>>
      from == <<n - 1, 0, Min({1, n - 1})>>
      a == Amend(Ints(m), SelectItems(y, from), y)
      writers(p) == {i \in 1 .. 3 : Place(m[i], n) = p}
  IN  Rank(y) > 0 /\ n > 0 =>
        \A p \in 0 .. n - 1 : Same(Item(a, p), Item(y, IF writers(p) = {} THEN p ELSE from[Max(writers(p))]))

(* Every path into an argument leads to its leaf.                          *)
PathsLeadToLeaves ==
  LET z == Arr("box", <<2>>, <<alpha, Arr("box", <<1, 2>>, <<omega, alpha>>)>>)
      paths == MapPaths(z)
      leads(path, leaf) == Same(Fetch(path, z), leaf)
  IN  alpha.type # "box" /\ omega.type # "box" =>
        /\ leads(paths.data[1], alpha)
        /\ leads(paths.data[2].data[1], omega)
        /\ leads(paths.data[2].data[2], alpha)

(* Partitions and cuts share the argument out: a piece has what lies        *)
(* between two of its starts, no piece has a fret it leaves out, and the    *)
(* pieces and the frets left out are all there is between first and last.   *)
Pieces(p) == FlattenSeq([i \in DOMAIN p.data |-> p.data[i].data])
PiecesShareOut ==
  LET x == ToRows(alpha) n == Count(x)
      flags == Arr("int", <<n>>, [i \in 1 .. n |-> IF NotWhole(x) THEN 0 ELSE x.data[i]])
      parts == PartitionEnclose(flags, flags)
      falls(d) == \A i \in 1 .. Len(d) - 1 : d[i + 1] <= d[i]
      parted(g) == parts.data[g].data
      frets == [i \in 1 .. n |-> flags.data[i] % 2 = 1]
      at == SelectSeq([i \in 1 .. n |-> i], LAMBDA i : frets[i])
      ranges(mode) == CutRanges(frets, mode)
      width(mode) == Sum([g \in DOMAIN ranges(mode) |-> ranges(mode)[g][2] - ranges(mode)[g][1]])
      reach(mode) == IF at = <<>> THEN 0 ELSE IF Abs(mode) = 1 THEN n - at[1] + 1 ELSE at[Len(at)]
  IN  x.type \in {"bool", "int"} =>
        /\ ~Refused(parts) /\ n > 0 =>
             /\ Pieces(parts) = SelectSeq(flags.data, LAMBDA f : f # 0)
             /\ \A g \in DOMAIN parts.data : falls(parted(g))
        /\ \A mode \in {1, -1, 2, -2} :
             /\ width(mode) = reach(mode) - IF mode < 0 THEN Len(at) ELSE 0
             /\ mode < 0 => \A g \in DOMAIN ranges(mode) :
                  \A i \in ranges(mode)[g][1] .. ranges(mode)[g][2] - 1 : ~frets[i + 1]

(* A block from any place either way is inside the argument, and the whole  *)
(* of it reversed is the argument reversed along every axis.               *)
BlocksAreInside ==
  LET y == ToRows(omega) r == Rank(y)
  IN  /\ Same(Subarray(y, Copies(r, 0), [k \in 1 .. r |-> -y.shape[k]]), ReverseAllAxes(y))
      /\ \A o \in {-2, 0, 1}, size \in {-2, 1, 3} :
           LET b == RectangleBlock(y, Copies(r, o), Copies(r, size))
           IN  ~Refused(b) => ~Refused(Subarray(y, b.start, b.block))

(* The digits of a number are worth the number, or what is left of it.      *)
DigitsAreWorth ==
  LET y == ToRows(omega) k == 2
      value(radix, a) == [j \in 1 .. Count(y) |-> ValueOf(radix, [i \in 1 .. k |-> a.data[(i - 1) * Count(y) + j]])]
  IN  y.type \in {"bool", "int"} =>
        \A radix \in {<<0, 3>>, <<2, 5>>, <<4, -3>>} :
          LET x == Ints(radix) a == Encode(x, y) whole == radix[1] * radix[2]
          IN  /\ Same(a, EncodeApl(x, y))
              /\ \A j \in DOMAIN y.data :
                   IF whole = 0 THEN value(radix, a)[j] = y.data[j]
                   ELSE (value(radix, a)[j] - y.data[j]) % Abs(whole) = 0

(* What was selected, written, taken apart or spelt in digits comes back.   *)
SelectionsComeBack ==
  [][(BracketsSelectAlike /\ LastWriteStays /\ PathsLeadToLeaves /\ PiecesShareOut /\ BlocksAreInside /\ DigitsAreWorth)]_given

=============================================================================
