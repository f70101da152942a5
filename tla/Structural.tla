----------------------------- MODULE Structural -----------------------------
(***************************************************************************)
(* The verbs that move elements and compute none (verb.rs): taking,        *)
(* dropping, turning, joining, copying, reshaping and transposing.  What   *)
(* they move to where is an index computed from a coordinate; a wrong one  *)
(* answers an array of the right shape with the wrong elements in it.      *)
(***************************************************************************)
EXTENDS Cells

Retyped(a, t) == IF Count(a) = 0 THEN [a EXCEPT !.type = t] ELSE a
Spread(a, s)  == Filled(a.type, s, LAMBDA c : a.data[1])
Section(y, lo, hi) ==
  Arr(y.type, <<hi - lo>> \o After(1, y.shape), SubSeq(y.data, lo * ItemSize(y) + 1, hi * ItemSize(y)))
Mod(k, n) == k % n
Abs(k) == IF k < 0 THEN -k ELSE k

(* The counts a verb is given, one per axis: an atom or a list of integers. *)
AxisCounts(x) ==
  IF Rank(x) > 1 THEN Refusal("rank")
  ELSE IF Count(x) > 0 /\ x.type \notin NumTypes THEN Refusal("domain")
  ELSE [counts |-> x.data]

(***************************************************************************)
(* Items.                                                                  *)
(***************************************************************************)
FillItem(y) == Spread(Scalar(y.type, FillOf(y.type)), After(1, y.shape))
HeadItem(y) == IF Rank(y) = 0 THEN y ELSE IF Items(y) = 0 THEN FillItem(y) ELSE Item(y, 0)
TailWithAxes(y) == \* mutant of TailItem: the item keeps the axes of the whole
  IF Rank(y) = 0 \/ Items(y) = 0 THEN y ELSE Arr(y.type, y.shape, Item(y, Items(y) - 1).data)
TailItem(y) == IF Rank(y) = 0 THEN y ELSE IF Items(y) = 0 THEN FillItem(y) ELSE Item(y, Items(y) - 1)
Behead(y) ==
  IF Rank(y) = 0 THEN Empty(y.type, <<0>>) ELSE IF Items(y) = 0 THEN y ELSE Section(y, 1, Items(y))
Curtail(y) ==
  IF Rank(y) = 0 THEN Empty(y.type, <<0>>) ELSE IF Items(y) = 0 THEN y ELSE Section(y, 0, Items(y) - 1)
Turned(y) ==
  IF Rank(y) = 0 THEN y
  ELSE Arr(y.type, y.shape, FlattenSeq([i \in 1 .. Items(y) |-> Item(y, Items(y) - i).data]))

(* i.: a negative length counts its axis down. *)
IotaJ(x) ==
  LET dims == x.data
      s    == [k \in DOMAIN dims |-> Abs(dims[k])]
      Place(c) == Dot([k \in DOMAIN s |-> IF dims[k] < 0 THEN s[k] - 1 - c[k] ELSE c[k]], Strides(s))
  IN  CASE Rank(x) > 1 -> Refusal("rank")
        [] Rank(x) <= 1 /\ Count(x) > 0 /\ x.type \notin NumTypes -> Refusal("domain")
        [] OTHER -> Filled("int", s, Place)

(***************************************************************************)
(* Rotation: J turns as many axes as there are counts, APL one axis by one *)
(* count or by a count for each line along it.                             *)
(***************************************************************************)
RotateDown(x, y) == \* mutant of Rotate: a negative count is taken as it stands
  Then(AxisCounts(x), LAMBDA r :
    IF Rank(y) = 0 \/ Len(r.counts) > Rank(y) THEN Refusal("length")
    ELSE Filled(y.type, y.shape, LAMBDA c : Element(y, [k \in DOMAIN c |->
           IF k <= Len(r.counts) THEN Mod(c[k] + Abs(r.counts[k]), y.shape[k]) ELSE c[k]])))
Rotate(x, y) ==
  Then(AxisCounts(x), LAMBDA r :
    LET n == Len(r.counts)
        Turn(c) == [k \in DOMAIN c |-> IF k <= n THEN Mod(c[k] + r.counts[k], y.shape[k]) ELSE c[k]]
    IN  IF Rank(y) = 0 THEN IF n < 2 THEN y ELSE Arr(y.type, Copies(n, 1), y.data)
        ELSE IF n > Rank(y) THEN Refusal("length")
        ELSE Filled(y.type, y.shape, LAMBDA c : Element(y, Turn(c))))

Without(s, k) == RemoveAt(s, k)
RotateApl(x, y, last) ==
  LET one  == Rank(x) = 0 \/ (Rank(x) = 1 /\ Count(x) = 1)
      axis == IF last THEN Rank(y) ELSE 1
      want == Without(y.shape, axis)
      By(c) == IF one THEN x.data[1] ELSE x.data[1 + Dot(Without(c, axis), Strides(want))]
  IN  CASE Rank(y) = 0 -> IF one THEN y ELSE Refusal("rank")
        [] Rank(y) > 0 /\ ~one /\ Rank(x) # Len(want) -> Refusal("rank")
        [] Rank(y) > 0 /\ ~one /\ Rank(x) = Len(want) /\ x.shape # want -> Refusal("length")
        [] Rank(y) > 0 /\ (one \/ x.shape = want) /\ Count(x) > 0 /\ x.type \notin NumTypes -> Refusal("domain")
        [] OTHER -> IF Count(y) = 0 THEN y ELSE
             Filled(y.type, y.shape, LAMBDA c : Element(y, [c EXCEPT ![axis] = Mod(@ + By(c), y.shape[axis])]))

(* |.!.f: what a shift leaves behind is the fill. *)
ShiftFill(x, y, fill) ==
  Then(AxisCounts(x), LAMBDA r :
    LET n == Len(r.counts)
        t == Promote(y.type, fill.type)
        From(c) == [k \in DOMAIN c |-> c[k] + IF k <= n THEN r.counts[k] ELSE 0]
        still == \A k \in 1 .. n : r.counts[k] = 0
    IN  CASE n <= Max({Rank(y), 1}) /\ still -> y
          [] ~(n <= Max({Rank(y), 1}) /\ still) /\ Rank(y) = 0 ->
               IF Count(fill) # 1 THEN Refusal("length")
               ELSE IF t = None THEN Refusal("type")
               ELSE Arr(t, IF n > 1 THEN Copies(n, 1) ELSE <<>>,
                        IF n > 0 /\ r.counts[1] # 0 THEN fill.data ELSE y.data)
          [] ~still /\ Rank(y) > 0 /\ n > Rank(y) -> Refusal("length")
          [] OTHER ->
               IF n > Rank(y) \/ Count(fill) # 1 THEN Refusal("length")
               ELSE IF Count(y) = 0 THEN y
               ELSE IF t = None THEN Refusal("type")
               ELSE Filled(t, y.shape, LAMBDA c :
                      IF Inside(From(c), y.shape) THEN Element(y, From(c)) ELSE fill.data[1]))

(***************************************************************************)
(* Taking and dropping.  Where only the leading axis changes, the answer   *)
(* is a run of the buffer.                                                 *)
(***************************************************************************)
NoRun == Refusal("no run")
LeadingRun(y, counts, drop) ==
  LET n == Items(y)
      a == Abs(counts[1])
      d == Min({a, n})
      Untouched(k) == IF drop THEN counts[k] = 0 ELSE Abs(counts[k]) = y.shape[k]
  IN  CASE Rank(y) = 0 \/ counts = <<>> \/ \E k \in 2 .. Len(counts) : ~Untouched(k) -> NoRun
        [] Rank(y) > 0 /\ counts # <<>> /\ drop /\ \A k \in 2 .. Len(counts) : Untouched(k) ->
             IF counts[1] >= 0 THEN Section(y, d, n) ELSE Section(y, 0, n - d)
        [] OTHER -> IF a > n THEN NoRun
                    ELSE IF counts[1] >= 0 THEN Section(y, 0, a) ELSE Section(y, n - a, n)

(* A gap takes the fill the sentence names, widened with the argument, or   *)
(* else the argument's own: in APL the first element of a boxed argument    *)
(* with everything in it made blank.                                        *)
RECURSIVE Blanked(_)
Blanked(a) ==
  IF a.type = "box" THEN [a EXCEPT !.data = [i \in DOMAIN a.data |-> Blanked(a.data[i])]]
  ELSE LET t == IF a.type \in {"char", "symbol"} THEN a.type ELSE "int"
       IN  Arr(t, a.shape, Copies(Count(a), FillOf(t)))
GapOf(y) == IF lang = "APL" /\ y.type = "box" /\ y.data # <<>> THEN Blanked(y.data[1]) ELSE FillOf(y.type)
Fitted(y, fill) ==
  LET t == Promote(y.type, fill.type)
  IN  CASE t # None -> Cast(ToRows(y), t)
        [] t = None /\ Count(y) = 0 -> Empty(fill.type, y.shape)
        [] OTHER -> Refusal("type")

Based(y, n) == IF Rank(y) = 0 THEN Arr(y.type, Copies(n, 1), y.data) ELSE y
TakeFromFront(y, counts, gap) == \* mutant of TakeElements: a negative count takes from the front too
  LET s == [k \in DOMAIN y.shape |-> IF k <= Len(counts) THEN Abs(counts[k]) ELSE y.shape[k]]
  IN  Filled(y.type, s, LAMBDA c : IF Inside(c, y.shape) THEN Element(y, c) ELSE gap)
TakeElements(y, counts, gap) ==
  LET s == [k \in DOMAIN y.shape |-> IF k <= Len(counts) THEN Abs(counts[k]) ELSE y.shape[k]]
      From(c) == [k \in DOMAIN c |->
        IF k <= Len(counts) /\ counts[k] < 0 THEN c[k] + y.shape[k] - s[k] ELSE c[k]]
  IN  Filled(y.type, s, LAMBDA c : IF Inside(From(c), y.shape) THEN Element(y, From(c)) ELSE gap)
TakeGap(x, y, gap) ==
  Then(AxisCounts(x), LAMBDA r :
    LET n == Len(r.counts) base == Based(y, n) run == LeadingRun(base, r.counts, FALSE)
        wrong == IF lang = "APL" THEN n # Rank(base) ELSE n > Rank(base) \/ (n = 0 /\ Rank(base) > 0)
    IN  IF wrong THEN Refusal("length")
        ELSE IF ~Refused(run) THEN run ELSE TakeElements(base, r.counts, gap))
Take(x, y) == TakeGap(x, y, GapOf(y))
TakeFilled(x, y, fill) == Then(Fitted(y, fill), LAMBDA w : TakeGap(x, w, fill.data[1]))

DropElements(y, counts) ==
  LET n == Len(counts)
      d == [k \in DOMAIN y.shape |-> IF k <= n THEN Min({Abs(counts[k]), y.shape[k]}) ELSE 0]
      From(c) == [k \in DOMAIN c |-> c[k] + IF k <= n /\ counts[k] > 0 THEN d[k] ELSE 0]
  IN  Filled(y.type, [k \in DOMAIN y.shape |-> y.shape[k] - d[k]], LAMBDA c : Element(y, From(c)))
Drop(x, y) ==
  Then(AxisCounts(x), LAMBDA r :
    LET n == Len(r.counts) base == Based(y, n) run == LeadingRun(base, r.counts, TRUE)
        wrong == IF lang = "APL" THEN n # Rank(base) ELSE n > Rank(base)
    IN  IF wrong THEN Refusal("length") ELSE IF ~Refused(run) THEN run ELSE DropElements(base, r.counts))

(***************************************************************************)
(* Reshaping: by elements in APL, by items in J.  What fits in the buffer  *)
(* is the front of it, what does not goes round it again.                  *)
(***************************************************************************)
Reshape(x, y, byitems) ==
  Then(AxisCounts(x), LAMBDA r :
    LET item == IF byitems /\ Rank(y) > 0 THEN After(1, y.shape) ELSE <<>>
        unit == IF byitems THEN Product(item) ELSE 1
        src  == IF byitems THEN Items(y) ELSE Count(y)
        s    == r.counts \o item
        n    == Product(s)
    IN  IF \E k \in DOMAIN r.counts : r.counts[k] < 0 THEN Refusal("domain")
        ELSE IF n > 0 /\ src = 0
        THEN IF byitems THEN Refusal("length") ELSE Arr(y.type, s, Copies(n, FillOf(y.type)))
        ELSE IF n <= unit * src THEN Arr(y.type, s, First(n, y.data))
        ELSE Arr(y.type, s, [i \in 1 .. n |->
               y.data[1 + (((i - 1) \div unit) % src) * unit + ((i - 1) % unit)]]))

(***************************************************************************)
(* Catenation, along an axis of the result.                                *)
(***************************************************************************)
CatPromote(a, other, rank, axis, deep) ==
  LET ones == Copies(rank, 1)
      full == IF Rank(other) = rank THEN other.shape ELSE ones
  IN  CASE Rank(a) = rank -> a
        [] Rank(a) # rank /\ Rank(a) = 0 -> Spread(a, [full EXCEPT ![axis] = 1])
        [] Rank(a) # rank /\ Rank(a) > 0 /\ (Rank(a) + 1 = rank \/ (deep /\ Rank(a) < rank)) ->
             Arr(a.type, First(axis - 1, a.shape) \o Copies(rank - Rank(a), 1) \o After(axis - 1, a.shape), a.data)
        [] OTHER -> Refusal("rank")

(* Rows of one, then of the other, for every cell before the axis. *)
SpliceOnce(xa, ya, axis, t) == \* mutant of Splice: all of one, then all of the other
  Arr(t, [xa.shape EXCEPT ![axis] = @ + ya.shape[axis]], xa.data \o ya.data)
Splice(xa, ya, axis, t) ==
  LET outer == Product(First(axis - 1, xa.shape))
  IN  Arr(t, [xa.shape EXCEPT ![axis] = @ + ya.shape[axis]],
          FlattenSeq([o \in 1 .. outer |->
            CellAt(xa, axis - 1, o - 1).data \o CellAt(ya, axis - 1, o - 1).data]))

(* J takes both to the longer of each other axis, APL refuses; APL boxes    *)
(* the elements of the one that is simple, or of both where no type holds   *)
(* their elements.                                                          *)
CatenateAt(x, y, axis) ==
  LET rank == Max({Rank(x), Rank(y), 1})
      fill == lang = "J"
      a0 == CatPromote(x, y, rank, axis, fill /\ axis = 1)
      b0 == CatPromote(y, x, rank, axis, fill /\ axis = 1)
      own(a) == IF fill /\ (Count(x) = 0 \/ Count(y) = 0) THEN Retyped(a, EmptyType(x, y)) ELSE a
      Joined(a, b) ==
        LET want == [k \in 1 .. rank |-> Max({a.shape[k], b.shape[k]})]
            ragged == \E k \in 1 .. rank \ {axis} : a.shape[k] # b.shape[k]
            Fit(v) == TakeGap(Ints([want EXCEPT ![axis] = v.shape[axis]]), v, FillOf(v.type))
            Nested(u, v) == IF ~fill /\ ((u.type = "box") # (v.type = "box") \/ Promote(u.type, v.type) = None)
                            THEN BoxedElements(u) ELSE u
            Paired(u, v) == IF Promote(u.type, v.type) = None THEN Refusal("type")
                            ELSE Splice(u, v, axis, Promote(u.type, v.type))
            Fits(u, v) == Paired(IF u.type = "box" THEN u ELSE Nested(u, v),
                                 IF v.type = "box" THEN v ELSE Nested(v, u))
        IN  IF ragged /\ ~fill THEN Refusal("length")
            ELSE IF ragged THEN Both(Fit(a), Fit(b), Fits) ELSE Fits(a, b)
  IN  IF axis \notin 1 .. rank THEN Refusal("rank")
      ELSE Both(a0, b0, LAMBDA a, b : Joined(own(a), own(b)))
Catenate(x, y, leading) == CatenateAt(x, y, IF leading THEN 1 ELSE Max({Rank(x), Rank(y), 1}))

(* x;y leaves a boxed right argument as it is. *)
Link(x, y) ==
  Catenate(Box(x), IF y.type = "box" /\ Count(y) > 0 THEN y ELSE Box(y), TRUE)

Laminate(x, y) ==
  LET Over(a, other) == IF Rank(a) # 0 THEN a
                        ELSE Spread(a, IF Rank(other) = 0 THEN <<1>> ELSE other.shape)
      a == Over(x, y) b == Over(y, x)
      clash == Promote(a.type, b.type) = None /\ (Count(a) = 0 \/ Count(b) = 0)
      t == EmptyType(a, b)
  IN  Assemble(<<2>>, IF clash THEN <<Retyped(a, t), Retyped(b, t)>> ELSE <<a, b>>)

OneAt(s, pos) == InsertAt(s, pos + 1, 1)
LaminateAxis(x, y, pos) ==
  LET r == Max({Rank(x), Rank(y)})
      Widen(a, other) ==
        IF Rank(a) = r THEN Arr(a.type, OneAt(a.shape, pos), ToRows(a).data)
        ELSE IF Rank(a) # 0 THEN Refusal("rank") ELSE Spread(a, OneAt(other.shape, pos))
  IN  IF r = 0 \/ pos > r THEN Refusal("rank")
      ELSE Both(Widen(x, y), Widen(y, x), LAMBDA a, b : CatenateAt(a, b, pos + 1))

(***************************************************************************)
(* Copying.                                                                *)
(***************************************************************************)
CopyItems(x, y) ==
  LET apl    == lang = "APL"
      single == Rank(y) = 0 \/ (apl /\ Rank(x) > 0 /\ Items(y) = 1 /\ Count(x) # 1)
      n      == IF Rank(x) = 0 \/ ~single THEN Items(y) ELSE Count(x)
      counts == IF Rank(x) = 0 THEN Copies(n, x.data[1]) ELSE ToRows(x).data
      m      == ItemSize(y)
      item(i) == SubSeq(y.data, (i - 1) * m + 1, i * m)
      part(i) == IF counts[i] < 0 THEN Copies(-counts[i] * m, GapOf(y))
                 ELSE FlattenSeq(Copies(counts[i], item(IF single THEN 1 ELSE i)))
      total  == Sum([i \in DOMAIN counts |-> Abs(counts[i])])
  IN  IF Count(x) > 0 /\ x.type \notin NumTypes THEN Refusal("domain")
      ELSE IF ~apl /\ \E i \in DOMAIN x.data : x.data[i] < 0 THEN Refusal("domain")
      ELSE IF Len(counts) # n THEN Refusal("length")
      ELSE Arr(y.type, <<total>> \o After(1, y.shape), FlattenSeq([i \in 1 .. n |-> part(i)]))

AsList(y) == IF Rank(y) = 0 THEN Arr(y.type, <<1>>, y.data) ELSE y
ExpandInPlace(x, y, bycounts) == \* mutant of Expand: an item is looked for where its one is in the mask
  LET ys == AsList(y) mask == ToRows(x).data m == ItemSize(ys)
  IN  Arr(ys.type, <<Len(mask)>> \o After(1, ys.shape), FlattenSeq([i \in DOMAIN mask |->
        IF mask[i] > 0 /\ i <= Items(ys) THEN SubSeq(ys.data, (i - 1) * m + 1, i * m)
        ELSE Copies(m, GapOf(ys))]))
(* A mask takes an item for a one and a gap for a zero; counts take the     *)
(* item as often as they say, or leave as many gaps.                        *)
Expand(x, y, bycounts) ==
  LET ys    == AsList(y)
      mask  == ToRows(x).data
      n     == Items(ys)
      m     == ItemSize(ys)
      taken(i) == Cardinality({k \in 1 .. i : mask[k] > 0})
      spread == n = 1 /\ taken(Len(mask)) # 1
      item(i) == SubSeq(ys.data, (i - 1) * m + 1, i * m)
      part(i) == IF mask[i] > 0 THEN FlattenSeq(Copies(mask[i], item(IF spread THEN 1 ELSE taken(i))))
                 ELSE Copies(Max({Abs(mask[i]), 1}) * m, GapOf(ys))
  IN  IF (Count(x) > 0 /\ x.type \notin NumTypes) \/ (~bycounts /\ \E i \in DOMAIN mask : mask[i] \notin {0, 1})
      THEN Refusal("domain")
      ELSE IF ~spread /\ taken(Len(mask)) # n THEN Refusal("length")
      ELSE Arr(ys.type, <<Sum([i \in DOMAIN mask |-> Max({Abs(mask[i]), 1})])>> \o After(1, ys.shape),
               FlattenSeq([i \in DOMAIN mask |-> part(i)]))

(***************************************************************************)
(* Transposing.                                                            *)
(***************************************************************************)
(* The whole transpose moves nothing: it reads the buffer the other way.   *)
TransposeAxes(y) ==
  IF Rank(y) < 2 THEN y ELSE [y EXCEPT !.shape = Reverse(@), !.rows = ~@]

(* Axis k of the answer is axis src[k] of the argument, which lies by rows. *)
PermuteAxes(y, src) ==
  LET st == Strides(y.shape)
  IN  Filled(y.type, [k \in DOMAIN src |-> y.shape[src[k]]], LAMBDA c :
        At(y, Dot(c, [k \in DOMAIN src |-> st[src[k]]])))

Others(y, k) == SelectSeq([a \in 1 .. Rank(y) |-> a], LAMBDA a : a # k)
AxisToFront(y, k) == IF k = 1 \/ Rank(y) < 2 THEN y ELSE PermuteAxes(y, <<k>> \o Others(y, k))
AxisToBack(y, k)  == IF k = Rank(y) \/ Rank(y) < 2 THEN y ELSE PermuteAxes(ToRows(y), Others(y, k) \o <<k>>)
FrontToAxis(y, k) ==
  IF k = 1 \/ Rank(y) < 2 THEN y
  ELSE PermuteAxes(y, [a \in 1 .. Rank(y) |-> IF a < k THEN a + 1 ELSE IF a = k THEN 1 ELSE a])
BackToAxisOver(y, k) == \* mutant of BackToAxis: the axes past k are not moved up
  IF k = Rank(y) \/ Rank(y) < 2 THEN y
  ELSE PermuteAxes(ToRows(y), [a \in 1 .. Rank(y) |-> IF a = k THEN Rank(y) ELSE IF a = Rank(y) THEN k ELSE a])
BackToAxis(y, k) ==
  IF k = Rank(y) \/ Rank(y) < 2 THEN y
  ELSE PermuteAxes(ToRows(y), [a \in 1 .. Rank(y) |-> IF a < k THEN a ELSE IF a = k THEN Rank(y) ELSE a - 1])

(* Axis a of the argument becomes axis dest[a]; axes that share one run     *)
(* along a diagonal, which is as long as the shortest of them.             *)
TransposeTo(y, dest) ==
  LET rank == Max({0} \cup ToSet(dest))
      s == [d \in 1 .. rank |-> Min({y.shape[a] : a \in {b \in DOMAIN dest : dest[b] = d}})]
      st == Strides(y.shape)
  IN  IF ToSet(dest) # 1 .. rank THEN Refusal("domain")
      ELSE Filled(y.type, s, LAMBDA c : At(ToRows(y), Dot([a \in DOMAIN dest |-> c[dest[a]]], st)))

TransposeApl(x, y, origin) ==
  LET axes == ToRows(x).data
  IN  CASE Count(x) > 0 /\ x.type \notin NumTypes -> Refusal("domain")
        [] (Count(x) = 0 \/ x.type \in NumTypes) /\ Len(axes) # Rank(y) -> Refusal("length")
        [] OTHER -> IF \E a \in DOMAIN axes : axes[a] - origin \notin 0 .. Rank(y) - 1 THEN Refusal("domain")
                    ELSE TransposeTo(y, [a \in DOMAIN axes |-> axes[a] - origin + 1])

(* Every axis not named comes first, in order, and each name or box of      *)
(* names is an axis after those.                                           *)
TransposeJ(x, y) ==
  LET r      == Rank(y)
      groups == IF x.type = "box" THEN [i \in DOMAIN x.data |-> ToRows(x.data[i]).data]
                ELSE [i \in DOMAIN x.data |-> <<ToRows(x).data[i]>>]
      wrong  == IF x.type = "box" THEN \E i \in DOMAIN x.data : Count(x.data[i]) > 0 /\ x.data[i].type \notin NumTypes
                ELSE Count(x) > 0 /\ x.type \notin NumTypes
      named  == [i \in DOMAIN FlattenSeq(groups) |->
                  IF FlattenSeq(groups)[i] < 0 THEN FlattenSeq(groups)[i] + r ELSE FlattenSeq(groups)[i]]
      of(a)  == {g \in DOMAIN groups : a - 1 \in ToSet(groups[g]) \/ a - 1 - r \in ToSet(groups[g])}
      free   == {a \in 1 .. r : of(a) = {}}
  IN  IF wrong \/ ~IsInjective(named) \/ ~(ToSet(named) \subseteq 0 .. r - 1) THEN Refusal("domain")
      ELSE TransposeTo(y, [a \in 1 .. r |->
             IF a \in free THEN Cardinality({b \in free : b <= a})
             ELSE Cardinality(free) + CHOOSE g \in of(a) : TRUE])

(***************************************************************************)
(* APL's axes in brackets: whole ones, or a place between two.             *)
(***************************************************************************)
AxisList(ks, rank) ==
  LET Bad(i) == ks[i] \notin 1 .. rank
      Twice(i) == \E j \in 1 .. i - 1 : ks[j] = ks[i]
  IN  IF \E i \in DOMAIN ks : Bad(i) /\ \A j \in 1 .. i - 1 : ~Twice(j) THEN Refusal("rank")
      ELSE IF \E i \in DOMAIN ks : Twice(i) THEN Refusal("domain") ELSE [axes |-> ks]
Reshaped(y, s) == Arr(y.type, s, ToRows(y).data)

RavelBetween(y, pos) == IF pos > Rank(y) THEN Refusal("rank") ELSE Reshaped(y, OneAt(y.shape, pos))
RavelAxes(y, ks, table) ==
  LET first == ks[1] last == ks[Len(ks)]
  IN  CASE ks = <<>> -> Reshaped(y, OneAt(y.shape, IF table THEN 0 ELSE Rank(y)))
        [] ks # <<>> /\ Rank(y) = 0 -> y
        [] OTHER -> Then(AxisList(ks, Rank(y)), LAMBDA l :
             IF \E i \in 2 .. Len(ks) : ks[i] # ks[i - 1] + 1 THEN Refusal("domain")
             ELSE Reshaped(y, First(first - 1, y.shape)
                    \o <<Product(SubSeq(y.shape, first, last))>> \o After(last, y.shape)))

EncloseAxes(y, axes) ==
  LET frame == SelectSeq([a \in 1 .. Rank(y) |-> a], LAMBDA a : a \notin ToSet(axes))
      moved == PermuteAxes(ToRows(y), frame \o axes)
      cells == CellsOf(moved, Len(frame))
  IN  IF Rank(y) = 0 THEN Refusal("rank")
      ELSE Arr("box", [k \in DOMAIN frame |-> y.shape[frame[k]]], cells)

(* The axes the items brought go to the places named for them. *)
MixPlaces(mixed, places) ==
  LET r == Rank(mixed) first == r - Len(places)
      rest(a) == Cardinality({b \in 1 .. a : b \notin ToSet(places)})
      src == [a \in 1 .. r |->
        IF a \in ToSet(places) THEN first + CHOOSE i \in DOMAIN places : places[i] = a ELSE rest(a)]
  IN  IF places = <<>> THEN mixed ELSE PermuteAxes(ToRows(mixed), src)
MixAxes(mixed, frame, ks) ==
  LET items == IF Rank(mixed) > frame THEN Rank(mixed) - frame ELSE 0
  IN  IF Len(ks) # Max({items, 1}) THEN Refusal("length")
      ELSE IF items = 0 THEN mixed
      ELSE Then(AxisList(ks, Rank(mixed)), LAMBDA l : MixPlaces(mixed, l.axes))
MixBetween(mixed, frame, pos) ==
  LET items == IF Rank(mixed) > frame THEN Rank(mixed) - frame ELSE 0
  IN  IF pos + items > Rank(mixed) THEN Refusal("rank")
      ELSE MixPlaces(mixed, [i \in 1 .. items |-> pos + i])

(* A scalar function along named axes: the argument of lower rank is spread *)
(* over the other, and the function then pairs the two.                    *)
SpreadOver(small, s, axes) ==
  Filled(small.type, s, LAMBDA c : Element(ToRows(small), [j \in DOMAIN axes |-> c[axes[j]]]))
ScalarAxis(x, y, ks, ascending) ==
  LET left  == Rank(x) >= Rank(y)
      big   == IF left THEN x ELSE y
      small == IF left THEN y ELSE x
      Pair(l, r) == [left |-> l, right |-> r]
  IN  Then(AxisList(ks, Rank(big)), LAMBDA l :
        LET axes == IF ascending THEN SortSeq(l.axes, <) ELSE l.axes
            over == SpreadOver(small, big.shape, axes)
        IN  IF Rank(small) = 0 THEN Pair(x, y)
            ELSE IF Rank(small) # Len(axes) THEN Refusal("rank")
            ELSE IF small.shape # [j \in DOMAIN axes |-> big.shape[axes[j]]] THEN Refusal("length")
            ELSE IF left THEN Pair(ToRows(big), over) ELSE Pair(over, ToRows(big)))
CountsAt(x, y, ks, whole) ==
  Both(AxisList(ks, Rank(y)), AxisCounts(x), LAMBDA l, asked :
    IF Len(asked.counts) # Len(l.axes) THEN Refusal("length")
    ELSE Ints([a \in 1 .. Rank(y) |->
      IF a \in ToSet(l.axes) THEN asked.counts[CHOOSE i \in DOMAIN l.axes : l.axes[i] = a]
      ELSE IF whole THEN y.shape[a] ELSE 0]))

(***************************************************************************)
(* One item out of many, and every pair of elements.                       *)
(***************************************************************************)
Place(i, n) == IF i < 0 THEN i + n ELSE i
ItemAt(x, y) ==
  LET n == Items(y) i == x.data[1]
  IN  IF x.type \notin NumTypes \/ Place(i, n) \notin 0 .. n - 1 THEN Refusal("domain")
      ELSE IF Rank(y) = 0 THEN y ELSE Item(y, Place(i, n))
(* m}: for each element of an item, the one of the item the index names. *)
ItemSelect(m, y) ==
  LET cell == After(1, y.shape) n == Items(y) idx == ToRows(m).data
  IN  IF Rank(m) # Len(cell) THEN Refusal("rank")
      ELSE IF m.shape # cell THEN Refusal("length")
      ELSE IF (Count(m) > 0 /\ m.type \notin NumTypes) \/ \E j \in DOMAIN idx : Place(idx[j], n) \notin 0 .. n - 1
      THEN Refusal("domain")
      ELSE Arr(y.type, cell, [j \in DOMAIN idx |-> At(ToRows(y), Place(idx[j], n) * Len(idx) + j - 1)])
TableOf(y) == Arr(y.type, IF Rank(y) = 0 THEN <<1, 1>> ELSE <<Items(y), ItemSize(y)>>, y.data)

-----------------------------------------------------------------------------
Rows(a) == ToRows(a)
Shifts == -3 .. 3

(* A take of more than there is, a drop of all there is and more: what is   *)
(* taken and what is dropped by the same count, either sign, are the whole  *)
(* argument, and the run of the buffer that stands for either is what       *)
(* computing every element's place gives.                                   *)
TakeAndDropPart ==
  LET y == Rows(omega)
  IN  Rank(y) > 0 => \A k \in Shifts :
        LET counts == <<k>> \o (IF lang = "APL" THEN After(1, y.shape) ELSE <<>>)
            zeros  == <<k>> \o (IF lang = "APL" THEN Copies(Rank(y) - 1, 0) ELSE <<>>)
            taken  == Take(Ints(counts), y) left == Drop(Ints(zeros), y)
            whole  == IF k >= 0 THEN Catenate(taken, left, TRUE) ELSE Catenate(left, taken, TRUE)
        IN  /\ Abs(k) <= Items(y) => Same(whole, y)
            /\ Same(taken, TakeElements(y, counts, GapOf(y)))
            /\ Same(left, DropElements(y, zeros))
            /\ Items(taken) = Abs(k) /\ Items(left) = Max({Items(y) - Abs(k), 0})

(* Turning is undone by turning back, in both languages along either axis,  *)
(* and a shift that fills agrees with it wherever the element did not leave. *)
TurningIsUndone ==
  LET y == Rows(omega)
  IN  Rank(y) > 0 => \A k \in Shifts :
        LET there == Rotate(Ints(<<k>>), y)
            lines == RotateApl(Scalar("int", k), y, TRUE)
            gone  == ShiftFill(Ints(<<k>>), y, Scalar("int", 7))
        IN  /\ Same(Rotate(Ints(<<-k>>), there), y)
            /\ Same(RotateApl(Scalar("int", -k), lines, TRUE), y)
            /\ Same(TransposeAxes(RotateApl(Scalar("int", k), Rows(TransposeAxes(y)), FALSE)), lines)
            /\ ~Refused(gone) /\ gone.type = y.type => \A i \in 0 .. Items(y) - 1 :
                 i + k \in 0 .. Items(y) - 1 => Item(gone, i).data = Item(there, i).data

(* Moving an axis to an end and putting it back leaves the argument, and    *)
(* the transposes of both languages agree with the one that only relabels   *)
(* the buffer, at every rank and whichever way the buffer lies.             *)
TransposesAgree ==
  LET y == omega r == Rank(y) back == [a \in 1 .. r |-> r - a]
  IN  /\ Same(TransposeAxes(TransposeAxes(y)), y)
      /\ Same(TransposeAxes(y), TransposeApl(Ints(back), y, 0))
      /\ Same(TransposeAxes(y), TransposeJ(Ints(back), y))
      /\ \A k \in 1 .. r :
           /\ Same(BackToAxis(AxisToBack(y, k), k), y)
           /\ Same(FrontToAxis(AxisToFront(Rows(y), k), k), y)
           /\ Same(TransposeJ(Scalar("int", k - 1), y), AxisToBack(y, k))
           /\ LET e == EncloseAxes(y, <<k>>)
              IN  Count(e) > 0 => Same(Assemble(e.shape, e.data), AxisToBack(y, k))

(* Whatever is joined can be taken apart again: where neither argument is   *)
(* widened or padded, taking and dropping along the axis give both back.    *)
JoinsComeApart ==
  LET x == Rows(alpha) y == Rows(omega) j == Catenate(x, y, TRUE)
  IN  ~Refused(j) /\ Rank(x) = Rank(y) /\ Rank(x) > 0 /\ After(1, x.shape) = After(1, y.shape) /\ x.type = y.type =>
        /\ Same(Section(j, 0, Items(x)), x) /\ Same(Section(j, Items(x), Items(j)), y)
        /\ LET k == CatenateAt(Rows(TransposeAxes(x)), Rows(TransposeAxes(y)), Rank(x))
           IN  Same(Rows(TransposeAxes(k)), j)

(* Copying by a mask and expanding by it undo each other on what was kept.  *)
CopyingIsExpanded ==
  LET y == Rows(omega) mask == [i \in 1 .. Items(y) |-> i % 2] kept == CopyItems(Ints(mask), y)
  IN  Rank(y) > 0 /\ Items(y) # 1 /\ ~Refused(kept) /\ Items(kept) # 1 =>
        /\ Same(CopyItems(Ints(mask), Expand(Ints(mask), kept, FALSE)), kept)
        /\ Items(Expand(Ints(mask), kept, FALSE)) = Items(y)
        /\ Same(Reshape(Ints(y.shape), y, FALSE), y)

(* What the structural verbs move, they neither lose nor put elsewhere.     *)
StructureComesBack ==
  [][(TakeAndDropPart /\ TurningIsUndone /\ TransposesAgree /\ JoinsComeApart /\ CopyingIsExpanded)]_given

=============================================================================
