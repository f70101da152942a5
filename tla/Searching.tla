----------------------------- MODULE Searching -----------------------------
(***************************************************************************)
(* Matching, searching and ordering (verb.rs): when two arrays are the     *)
(* same, where one is found in another, and which of two comes first.      *)
(* Numbers that are not exact are equal when they are near each other, so  *)
(* equality is not transitive and what is found depends on the order it is *)
(* looked for in.                                                          *)
(***************************************************************************)
EXTENDS Structural

(* J scales the tolerance by the smaller magnitude, APL by the larger.     *)
Tolerance == 50 \* one part in so many
NearTo(a, b) ==
  LET sizes == {Abs(a), Abs(b)}
  IN  a = b \/ Abs(a - b) * Tolerance < (IF lang = "J" THEN Min(sizes) ELSE Max(sizes))
Equal(t, a, b) == IF t \in {"float", "complex"} THEN NearTo(a, b) ELSE a = b
Exact == {"ext", "rat"}

RECURSIVE Match(_, _)
Match(x, y) ==
  LET t == Promote(x.type, y.type) a == ToRows(x).data b == ToRows(y).data
  IN  /\ x.shape = y.shape
      /\ \/ Count(x) = 0
         \/ t = "box" /\ \A i \in DOMAIN a : Match(a[i], b[i])
         \/ t \notin {None, "box"} /\ \A i \in DOMAIN a : Equal(t, a[i], b[i])

ItemOrSelf(a, i) == IF Rank(a) = 0 THEN a ELSE Item(a, i)
SelectItems(y, order) ==
  Arr(y.type, <<Len(order)>> \o After(1, y.shape), FlattenSeq([i \in DOMAIN order |-> Item(y, order[i]).data]))
Kept01(marks, want) == SelectSeq(Iota(Len(marks)), LAMBDA i : marks[i + 1] = want)
Bools(s, marks) == Arr("bool", s, [i \in DOMAIN marks |-> IF marks[i] THEN 1 ELSE 0])

(***************************************************************************)
(* The nub: an item is kept unless it matches one kept before.             *)
(***************************************************************************)
NubOfNeighbours(y) == \* mutant of Nub: an item is compared with the one before it only
  LET marks == [i \in 1 .. Items(y) |-> i = 1 \/ ~Match(ItemOrSelf(y, i - 1), ItemOrSelf(y, i - 2))]
  IN  SelectItems(AsList(y), Kept01(marks, TRUE))
FreshMarks(cells) ==
  LET fresh[i \in DOMAIN cells] == \A j \in 1 .. i - 1 : fresh[j] => ~Match(cells[i], cells[j])
  IN  [i \in DOMAIN cells |-> fresh[i]]
ItemsOf(y) == [i \in 1 .. Items(y) |-> ItemOrSelf(y, i - 1)]
Nub(y) == IF Rank(y) = 0 THEN AsList(y) ELSE SelectItems(y, Kept01(FreshMarks(ItemsOf(y)), TRUE))
NubSieve(y, byelement) ==
  IF byelement THEN Bools(y.shape, FreshMarks([i \in 1 .. Count(y) |-> Atom(y, i - 1)]))
  ELSE Bools(<<Items(y)>>, FreshMarks(ItemsOf(y)))
SelfClassify(y) ==
  LET keys == ItemsOf(Nub(y)) items == ItemsOf(y) n == Len(items)
  IN  IF Rank(y) = 0 THEN Arr("bool", <<1, 1>>, <<1>>)
      ELSE Bools(<<Len(keys), n>>, [k \in 1 .. Len(keys) * n |->
             Match(keys[1 + (k - 1) \div n], items[1 + ((k - 1) % n)])])

(***************************************************************************)
(* Searching for cells of one argument among the items of the other.       *)
(***************************************************************************)
FirstWhere(n, P(_)) == IF \E j \in 0 .. n - 1 : P(j) THEN Min({j \in 0 .. n - 1 : P(j)}) ELSE n
Less1(n) == IF n > 0 THEN n - 1 ELSE 0
MemberButLast(x, y) == \* mutant of MemberJ: the last item is not looked at
  LET frame == Rank(x) - Min({Less1(Rank(y)), Rank(x)})
      cells == CellsOf(x, frame)
  IN  Bools(First(frame, x.shape), [i \in DOMAIN cells |->
        \E j \in 0 .. Items(y) - 2 : Match(cells[i], ItemOrSelf(y, j))])
MemberJ(x, y) ==
  LET frame == Rank(x) - Min({Less1(Rank(y)), Rank(x)})
      cells == CellsOf(x, frame)
  IN  Bools(First(frame, x.shape), [i \in DOMAIN cells |->
        \E j \in 0 .. Items(y) - 1 : Match(cells[i], ItemOrSelf(y, j))])

(* APL's looks for every element, a scalar under its box as itself; exact  *)
(* whole numbers are sought among themselves.                              *)
MemberApl(x, y) ==
  LET Opened(a, i) == LET e == Atom(a, i) IN
        IF e.type = "box" /\ Rank(e.data[1]) = 0 /\ e.data[1].type # "box" THEN e.data[1] ELSE e
      nested == "box" \in {x.type, y.type} \/ {x.type, y.type} \cap Exact # {}
      apart  == x.type # y.type /\ {x.type, y.type} \cap {"char", "symbol"} # {}
      Hit(i) == IF nested THEN \E j \in 0 .. Count(y) - 1 : Match(Opened(x, i), Opened(y, j))
                ELSE IF apart THEN FALSE
                ELSE IF "float" \in {x.type, y.type} THEN \E j \in DOMAIN y.data : NearTo(x.data[i + 1], y.data[j])
                ELSE \E j \in DOMAIN y.data : x.data[i + 1] = y.data[j]
  IN  Bools(x.shape, [i \in 1 .. Count(x) |-> Hit(i - 1)])

MajorCellRank(x, y) ==
  LET r == Rank(x) - 1
  IN  IF Rank(x) = 0 \/ Rank(y) < r THEN Refusal("rank")
      ELSE IF After(1, x.shape) # After(Rank(y) - r, y.shape) THEN Refusal("length") ELSE [rank |-> r]
CellRank(x, y, major) == IF major THEN MajorCellRank(x, y) ELSE [rank |-> Min({Less1(Rank(x)), Rank(y)})]
IndexOf(x, y, origin, major) ==
  Then(CellRank(x, y, major), LAMBDA c :
    LET frame == Rank(y) - c.rank cells == CellsOf(y, frame)
    IN  Arr("int", First(frame, y.shape), [i \in DOMAIN cells |->
          origin + FirstWhere(Items(x), LAMBDA j : Match(cells[i], ItemOrSelf(x, j)))]))
IndexOfLast(x, y, origin) ==
  LET frame == Rank(y) - Min({Less1(Rank(x)), Rank(y)})
      cells == CellsOf(y, frame)
      n     == Items(x)
      found(c) == {j \in 0 .. n - 1 : Match(c, ItemOrSelf(x, j))}
      vacuous(c) == n = 0 /\ Count(c) = 0 /\ Rank(x) > 0 /\ c.shape = After(1, x.shape)
  IN  Arr("int", First(frame, y.shape), [i \in DOMAIN cells |->
        origin + IF found(cells[i]) # {} THEN Max(found(cells[i])) ELSE IF vacuous(cells[i]) THEN -1 ELSE n])
IndexOfCoords(x, y, origin) ==
  LET xr == ToRows(x) yr == ToRows(y)
      Inner(a, i) == IF a.type = "box" THEN a.data[i + 1] ELSE Atom(a, i)
      at(i) == FirstWhere(Count(x), LAMBDA j : Match(Inner(yr, i), Inner(xr, j)))
  IN  Arr("box", y.shape, [i \in 1 .. Count(y) |->
        IF at(i - 1) = Count(x) THEN Empty("int", <<0>>)
        ELSE Ints([k \in 1 .. Rank(x) |-> origin + Coord(x.shape, at(i - 1))[k]])])

(***************************************************************************)
(* Sets.                                                                   *)
(***************************************************************************)
ItemMarks(y, x) ==
  LET against == CellsOf(x, Max({Rank(x) - Less1(Rank(y)), 0}))
  IN  [i \in 1 .. Items(y) |-> \E j \in DOMAIN against : Match(ItemOrSelf(y, i - 1), against[j])]
SetRank(x, y) == lang = "APL" /\ (Rank(x) > 1 \/ Rank(y) > 1)
SetLess(x, y) ==
  LET t == Promote(x.type, y.type)
      w == IF t # None /\ t # x.type /\ (Rank(y) > 0 \/ Rank(x) = 0) /\ x.type \in Exact /\ y.type \in NumTypes
           THEN Cast(x, t) ELSE x
  IN  SelectItems(AsList(w), Kept01(ItemMarks(AsList(w), y), FALSE))
IntersectItems(x, y) == SelectItems(AsList(x), Kept01(ItemMarks(AsList(x), y), TRUE))
UnionItems(x, y) ==
  LET xs == AsList(x) ys == AsList(y)
      unseen == Kept01(ItemMarks(ys, xs), FALSE)
      fresh == FreshMarks([k \in DOMAIN unseen |-> Item(ys, unseen[k])])
      extra == [k \in DOMAIN Kept01(fresh, TRUE) |-> unseen[1 + Kept01(fresh, TRUE)[k]]]
  IN  Catenate(xs, SelectItems(ys, extra), TRUE)

(* Where a pattern begins in an argument of as many axes or more.          *)
FindSeq(x, y) ==
  LET apl == lang = "APL" r == Rank(y)
      pattern == Copies(r - Rank(x), 1) \o x.shape
      Fits(at) == \A k \in 1 .. r : at[k] + pattern[k] <= y.shape[k]
      Hit(at) == \A i \in 0 .. Product(pattern) - 1 :
        LET off == Coord(pattern, i)
        IN  Match(Atom(ToRows(x), i), Atom(ToRows(y), Dot([k \in 1 .. r |-> at[k] + off[k]], Strides(y.shape))))
  IN  CASE ~apl /\ Rank(x) = 0 /\ r = 0 -> Bools(<<>>, <<Match(x, y)>>)
        [] apl /\ Rank(x) > r -> Arr("bool", y.shape, Copies(Count(y), 0))
        [] ~apl /\ (Rank(x) > 0 \/ r > 0) /\ Max({Rank(x), 1}) # r -> Refusal("rank")
        [] OTHER -> Bools(y.shape, [i \in 1 .. Count(y) |->
             LET at == Coord(y.shape, i - 1) IN Fits(at) /\ Hit(at)])

(***************************************************************************)
(* Order.  Less is -1, equal 0, greater 1.  J and Dyalog order any two     *)
(* arrays, APL2 by rank, shape and elements.                               *)
(***************************************************************************)
Cmp(a, b) == IF a < b THEN -1 ELSE IF a > b THEN 1 ELSE 0
FirstOther(s) == LET at == {i \in DOMAIN s : s[i] # 0} IN IF at = {} THEN 0 ELSE s[Min(at)]
Lexical(u, v) ==
  FirstOther([i \in 1 .. Min({Len(u), Len(v)}) |-> Cmp(u[i], v[i])] \o <<Cmp(Len(u), Len(v))>>)
TypeClass(order, t) ==
  CASE order = "J" -> IF t = "symbol" THEN 1 ELSE IF t = "char" THEN 2 ELSE IF t = "box" THEN 3 ELSE 0
    [] order = "APL2" -> IF t \in {"char", "symbol"} THEN 0 ELSE IF t = "box" THEN 2 ELSE 1
    [] order = "Dyalog" -> IF t \in {"char", "symbol"} THEN 2 ELSE IF t = "box" THEN 1 ELSE 0

(* What a place of a buffer holds: a box's content, or an atom.            *)
Held(a, i) == IF a.type = "box" THEN ToRows(a).data[i] ELSE Atom(ToRows(a), i - 1)
CmpNumber(order, t, a, b) == IF order = "APL2" /\ Equal(t, a, b) THEN 0 ELSE Cmp(a, b)

RECURSIVE CmpTotal(_, _, _)
CmpAtomsN(order, x, y, n) ==
  LET t == Promote(x.type, y.type) a == ToRows(x).data b == ToRows(y).data
      classes == Cmp(TypeClass(order, x.type), TypeClass(order, y.type))
  IN  CASE n = 0 -> 0
        [] n > 0 /\ "box" \in {x.type, y.type} ->
             FirstOther([i \in 1 .. n |-> CmpTotal(order, Held(x, i), Held(y, i))])
        [] OTHER -> IF classes # 0 THEN classes
                    ELSE FirstOther([i \in 1 .. n |-> CmpNumber(order, t, a[i], b[i])])

CmpItemsJPrefix(x, y) == \* mutant of CmpItemsJ: what begins another is equal to it
  LET head == FirstOther(<<Cmp(IF Count(x) = 0 THEN 0 ELSE TypeClass("J", x.type),
                               IF Count(y) = 0 THEN 0 ELSE TypeClass("J", y.type)), Cmp(Rank(x), Rank(y))>>)
  IN  IF head # 0 THEN head ELSE CmpAtomsN("J", x, y, Min({Count(x), Count(y)}))
CmpItemsJ(x, y) ==
  LET Class(a) == IF Count(a) = 0 THEN 0 ELSE TypeClass("J", a.type)
      head   == FirstOther(<<Cmp(Class(x), Class(y)), Cmp(Rank(x), Rank(y))>>)
      shapes == Lexical(Reverse(x.shape), Reverse(y.shape))
      n      == Min({Items(x), Items(y)})
  IN  IF head # 0 THEN head
      ELSE IF x.shape = y.shape THEN CmpAtomsN("J", x, y, Count(x))
      ELSE IF "box" \notin {x.type, y.type} /\ After(1, x.shape) = After(1, y.shape)
      THEN FirstOther(<<CmpAtomsN("J", x, y, Min({Count(x), Count(y)})), shapes>>)
      ELSE FirstOther([i \in 1 .. n |-> CmpTotal("J", Item(ToRows(x), i - 1), Item(ToRows(y), i - 1))] \o <<shapes>>)

(* Element by element over the shape that covers both, what is not there   *)
(* before everything; an empty one by what would fill it.                  *)
CmpItemsDyalog(x, y) ==
  LET rank == Max({Rank(x), Rank(y)})
      u == Raised(x, rank) v == Raised(y, rank)
      common == [k \in 1 .. rank |-> Max({u.shape[k], v.shape[k]})]
      Here(c) ==
        CASE Inside(c, u.shape) /\ Inside(c, v.shape) ->
               CmpTotal("Dyalog", Held(u, 1 + Dot(c, Strides(u.shape))), Held(v, 1 + Dot(c, Strides(v.shape))))
          [] Inside(c, u.shape) /\ ~Inside(c, v.shape) -> 1
          [] ~Inside(c, u.shape) /\ Inside(c, v.shape) -> -1
          [] OTHER -> 0
      Fill(a) == Scalar(a.type, FillOf(a.type))
  IN  IF Rank(x) = 0 /\ Rank(y) = 0 /\ "box" \notin {x.type, y.type} THEN CmpAtomsN("Dyalog", x, y, 1)
      ELSE FirstOther(
        [i \in 1 .. Product(common) |-> Here(Coord(common, i - 1))] \o
        <<IF "box" \in {x.type, y.type} THEN Cmp(TypeClass("Dyalog", x.type), TypeClass("Dyalog", y.type))
          ELSE CmpTotal("Dyalog", Fill(x), Fill(y)),
          Lexical(Reverse(x.shape), Reverse(y.shape))>>)

CmpTotal(order, x, y) ==
  CASE order = "Dyalog" -> CmpItemsDyalog(x, y)
    [] order = "J" -> CmpItemsJ(x, y)
    [] OTHER -> FirstOther(<<Cmp(Rank(x), Rank(y)), Lexical(x.shape, y.shape), CmpAtomsN(order, x, y, Count(x)),
                  IF Count(x) = 0 THEN Cmp(TypeClass(order, x.type), TypeClass(order, y.type)) ELSE 0>>)

(***************************************************************************)
(* Grading: a stable sort of the items, either way.                        *)
(***************************************************************************)
CmpItems(order, y, i, j) ==
  CmpAtomsN(order, Item(y, i), Item(y, j), ItemSize(y))
GradeOrder(order, y, down) ==
  LET Before(i, j) == LET c == IF down THEN CmpItems(order, y, j, i) ELSE CmpItems(order, y, i, j)
                      IN  c < 0 \/ (c = 0 /\ i < j)
  IN  IF Rank(y) = 0 THEN <<0>> ELSE SortSeq(Iota(Items(y)), Before)
GradeSelect(order, x, y, down) ==
  LET graded == GradeOrder(order, y, down)
  IN  IF \E i \in DOMAIN graded : graded[i] >= Items(x) THEN Refusal("domain")
      ELSE SelectItems(AsList(x), graded)

(* x⍋y: the place of a character in x, the last axis first.                *)
CollateGrade(x, y, down, origin) ==
  LET xs == AsList(x)
      Key(c) == LET at == FirstWhere(Count(xs), LAMBDA j : xs.data[j + 1] = c)
                IN  Reverse(IF at = Count(xs) THEN xs.shape ELSE Coord(xs.shape, at))
      keys == [i \in 1 .. Items(y) |->
                FlattenSeq([k \in DOMAIN ItemOrSelf(y, i - 1).data |-> Key(ItemOrSelf(y, i - 1).data[k])])]
      Before(i, j) == LET c == IF down THEN Lexical(keys[j + 1], keys[i + 1]) ELSE Lexical(keys[i + 1], keys[j + 1])
                      IN  c < 0 \/ (c = 0 /\ i < j)
      graded == SortSeq(Iota(Items(y)), Before)
  IN  IF "char" # x.type \/ "char" # y.type THEN Refusal("domain")
      ELSE Ints([i \in DOMAIN graded |-> origin + graded[i]])

(***************************************************************************)
(* Which of the intervals between bounds.  Bisection takes bounds that fall *)
(* from the first to the last as descending ones; counting looks at all.   *)
(***************************************************************************)
BisectAbove(before) == \* mutant of Bisect: the upper half begins at the middle
  LET n == Len(before)
      step[lo \in 0 .. n, hi \in 0 .. n] ==
        IF lo >= hi THEN lo
        ELSE LET mid == (lo + hi - 1) \div 2
             IN  IF before[mid + 1] THEN step[mid + 1, hi] ELSE IF mid = lo THEN lo + 1 ELSE step[lo, mid]
  IN  step[0, n]
Bisect(before) ==
  LET n == Len(before)
      step[lo \in 0 .. n, hi \in 0 .. n] ==
        IF lo >= hi THEN lo
        ELSE LET mid == (lo + hi - 1) \div 2 IN IF before[mid + 1] THEN step[mid + 1, hi] ELSE step[lo, mid]
  IN  step[0, n]
Interval(order, bounds, cell, closed, bisect) ==
  LET n == Len(bounds)
      To(i) == CmpTotal(order, bounds[i + 1], cell)
      down == n > 1 /\ CmpTotal(order, bounds[n], bounds[1]) < 0
  IN  IF bisect THEN Bisect([i \in 1 .. n |-> IF down THEN To(i - 1) > 0 ELSE To(i - 1) < 0])
      ELSE Cardinality({i \in 0 .. n - 1 : To(i) < 0 \/ (closed /\ To(i) = 0)})
IntervalIndex(order, x, y, offset, closed, bisect) ==
  LET mixed == Count(x) > 0 /\ (x.type \in NumTypes) # (y.type \in NumTypes)
  IN  IF mixed THEN Refusal("domain")
      ELSE Then(MajorCellRank(x, y), LAMBDA c :
        LET frame == Rank(y) - c.rank cells == CellsOf(y, frame)
        IN  Arr("int", First(frame, y.shape), [i \in DOMAIN cells |->
              offset + Interval(order, ItemsOf(x), cells[i], closed, bisect)]))

(***************************************************************************)
(* Indices and counts.                                                     *)
(***************************************************************************)
Indices(y, origin, boxed) ==
  LET nested == boxed /\ Rank(y) # 1
      Point(i) == IF nested THEN Ints([k \in 1 .. Rank(y) |-> origin + Coord(y.shape, i - 1)[k]]) ELSE origin + i - 1
      all == FlattenSeq([i \in 1 .. Count(y) |-> Copies(y.data[i], Point(i))])
  IN  IF (Count(y) > 0 /\ y.type \notin NumTypes) \/ \E i \in DOMAIN y.data : y.data[i] < 0 THEN Refusal("domain")
      ELSE Arr(IF nested THEN "box" ELSE "int", <<Len(all)>>, all)
IndicesInverse(y) ==
  IF Count(y) = 0 THEN Empty("int", <<0>>)
  ELSE IF y.type \notin NumTypes \/ \E i \in DOMAIN y.data : y.data[i] < 0 THEN Refusal("domain")
  ELSE Ints([k \in 1 .. Max(ToSet(y.data)) + 1 |-> Cardinality({i \in DOMAIN y.data : y.data[i] = k - 1})])
Steps(y) ==
  LET v == y.data[1]
  IN  IF Count(y) = 0 \/ y.type \notin NumTypes THEN Refusal("domain")
      ELSE Ints([k \in 1 .. 2 * Abs(v) + 1 |-> -v + (k - 1) * (IF v < 0 THEN -1 ELSE 1)])

(***************************************************************************)
(* Razing.                                                                 *)
(***************************************************************************)
WiderShape(u, v) ==
  LET r == Max({Len(u), Len(v)})
      pad(s) == Copies(r - Len(s), 1) \o s
  IN  [k \in 1 .. r |-> Max({pad(u)[k], pad(v)[k]})]
Raze(y) ==
  LET opened == [i \in 1 .. Count(y) |-> OpenCell(Atom(y, i - 1))]
      solid  == SelectSeq(opened, LAMBDA a : Rank(a) > 0)
      common == IF solid = <<>> THEN <<>>
                ELSE FoldLeft(LAMBDA s, a : WiderShape(s, After(1, a.shape)), After(1, solid[1].shape), solid)
      Parts(a) == IF Rank(a) = 0 THEN <<Spread(a, common)>> ELSE ItemsOf(Raised(a, Max({Rank(a), Len(common) + 1})))
      cells == FlattenSeq([i \in DOMAIN opened |-> Parts(opened[i])])
  IN  IF cells = <<>> THEN Empty("int", <<0>>) ELSE Assemble(<<Len(cells)>>, cells)
RazeIn(y) ==
  Then(Raze(y), LAMBDA all :
    LET rows == [i \in 1 .. Count(y) |-> MemberJ(all, OpenCell(Atom(y, i - 1))).data]
    IN  Arr("bool", y.shape \o <<Items(all)>>, FlattenSeq(rows)))
Catalogue(y) ==
  LET items  == ItemsOf(y)
      opened == [i \in DOMAIN items |-> IF items[i].type = "box" /\ Rank(items[i]) = 0 THEN items[i].data[1] ELSE items[i]]
      s      == FlattenSeq([i \in DOMAIN opened |-> opened[i].shape])
      before(i) == Sum([k \in 1 .. i - 1 |-> Rank(opened[k])])
      pick(c) == [i \in DOMAIN opened |->
        Atom(ToRows(opened[i]), Dot(SubSeq(c, before(i) + 1, before(i) + Rank(opened[i])), Strides(opened[i].shape)))]
      cells == [i \in 1 .. Product(s) |-> Assemble(<<Len(opened)>>, pick(Coord(s, i - 1)))]
  IN  IF AnyRefused(cells) THEN FirstRefusal(cells) ELSE Arr("box", s, cells)

-----------------------------------------------------------------------------
(* What is in the nub is what is in the argument, once: no two items of it  *)
(* match, every item matches one of it, the sieve and the classification    *)
(* pick and label the same items, and a search for any item finds the first *)
(* that matches, which is in the nub.  With equality tolerant, this is so   *)
(* only because every search looks from the front.                          *)
NubStands ==
  LET y == ToRows(omega) nub == Nub(y) n == Items(y)
      found == IndexOf(nub, y, 0, FALSE)
  IN  /\ \A i, j \in 1 .. Items(nub) : i # j => ~Match(Item(nub, i - 1), Item(nub, j - 1))
      /\ Rank(y) > 0 => /\ \A i \in DOMAIN found.data : found.data[i] < Items(nub)
                        /\ Same(CopyItems(Bools(<<n>>, FreshMarks(ItemsOf(y))), y), nub)
      /\ \A j \in 1 .. n : \E k \in 1 .. Items(nub) : SelfClassify(y).data[(k - 1) * n + j] = 1
      /\ Same(NubSieve(Nub(y), FALSE), Arr("bool", <<Items(nub)>>, Copies(Items(nub), 1)))

(* Membership and the two searches, from the front and from the back, find  *)
(* the same items; taking away what is in the other, and keeping it, parts  *)
(* the items, and the union holds both.                                     *)
SearchesAgree ==
  LET x == ToRows(alpha) y == ToRows(omega)
      at == IndexOf(x, y, 0, FALSE) last == IndexOfLast(x, y, 0) in == MemberJ(y, x)
      less == SetLess(y, x) both == IntersectItems(y, x) all == UnionItems(y, x)
  IN  /\ \A i \in DOMAIN at.data :
           /\ in.data[i] = 1 <=> at.data[i] < Items(x)
           /\ at.data[i] < Items(x) => at.data[i] <= last.data[i] /\ last.data[i] < Items(x)
      /\ Items(less) + Items(both) = Items(y)
      /\ Rank(x) = 1 /\ Rank(y) = 1 /\ Promote(x.type, y.type) # None =>
           \A i \in 1 .. Items(x) : \E j \in 1 .. Items(all) : Match(Atom(all, j - 1), Atom(x, i - 1))
      /\ Rank(x) = 1 /\ Rank(y) = 1 /\ Items(x) = 1 => LET found == FindSeq(x, y)
           IN  ~Refused(found) => found.data = MemberJ(y, x).data

(* No part of it is empty. *)
RECURSIVE Solid(_)
Solid(a) == Count(a) > 0 /\ (a.type = "box" => \A i \in DOMAIN a.data : Solid(a.data[i]))

(* The order the sorts of both J and Dyalog rest on is one: it turns round  *)
(* when its arguments do, it is transitive, and it calls equal only what is *)
(* of one shape.  A sort by anything else may answer any permutation, or    *)
(* stop the program.  J's is transitive only among arrays with no empty one *)
(* in them: an empty table is before a row of two, that before a row of     *)
(* one, and that before the empty table.                                    *)
OrderIsTotal ==
  \A order \in {"J", "Dyalog"} :
    LET C(a, b) == CmpTotal(order, a, b)
        others == {alpha, omega, Box(alpha), Box(omega), Ints(<<2, 7>>), Ints(<<2>>), Empty("char", <<0>>),
                   Scalar("int", 3), Scalar("char", 98), Arr("int", <<1, 2>>, <<2, 7>>)}
        third  == {b \in others : order = "Dyalog" \/ (Solid(alpha) /\ Solid(omega) /\ Solid(b))}
    IN  /\ C(alpha, omega) = -C(omega, alpha)
        /\ C(alpha, omega) = 0 => alpha.shape = omega.shape
        /\ \A b \in third : C(alpha, b) <= 0 /\ C(b, omega) <= 0 => C(alpha, omega) <= 0

(* A grade orders the items and keeps the order of equal ones, up and down; *)
(* what it selects is sorted, and an interval found by bisecting the sorted *)
(* bounds, either way up, is the one found by counting them.                *)
GradeSorts ==
  \A order \in {"J", "Dyalog"} : \A down \in BOOLEAN :
    LET y == ToRows(omega) g == GradeOrder(order, y, down) n == Items(y)
        sorted == SelectItems(AsList(y), g)
        at(b) == Interval(order, ItemsOf(sorted), ItemOrSelf(ToRows(alpha), 0), down, b)
    IN  /\ ToSet(g) = 0 .. n - 1
        /\ \A i \in 1 .. n - 1 :
             LET c == CmpItems(order, AsList(y), g[i], g[i + 1])
             IN  IF down THEN c > 0 \/ (c = 0 /\ g[i] < g[i + 1]) ELSE c < 0 \/ (c = 0 /\ g[i] < g[i + 1])
        /\ Items(ToRows(alpha)) > 0 /\ (n < 2 \/ CmpItems(order, AsList(y), g[1], g[n]) # 0) =>
             at(TRUE) = IF down /\ n > 1 THEN n - at(FALSE) ELSE
               Cardinality({i \in 1 .. n : CmpTotal(order, ItemsOf(sorted)[i], ItemOrSelf(ToRows(alpha), 0)) < 0})

(* The searches, the orders and the sorts are of one mind.                  *)
SearchesAndSortsAgree ==
  [][(NubStands /\ SearchesAgree /\ OrderIsTotal /\ GradeSorts)]_given

=============================================================================
