------------------------------ MODULE Folding ------------------------------
(***************************************************************************)
(* Folds, scans and windows of the five arithmetic verbs over a buffer     *)
(* (verb.rs, par.rs), each regrouped the way that is fast: in lanes, in    *)
(* chunks that threads share out, down or across held columns, and windows *)
(* by the two stacks of their blocks.  A grouping says what it folds to    *)
(* and whether a step of it left the machine integers, in which case the   *)
(* caller folds again, in floats.                                          *)
(***************************************************************************)
EXTENDS Scalars

CONSTANTS Lanes,    \* the lanes of a fold
          LaneWork  \* the elements below which one lane folds them all
ASSUME LanesAreSome == Lanes \in Nat \ {0} /\ LaneWork \in Nat /\ LaneWork >= Lanes

Foldable     == {"Add", "Sub", "Mul", "Min", "Max"}
IsAssociative(op) == op \in {"Add", "Mul", "Min", "Max"}

(* A fold of none of the elements of a buffer never happens: their callers   *)
(* answer an empty axis themselves.                                          *)
LeavesMachine(t, v) == Whole(t) /\ v \notin Machine
Folded(v, over) == [v |-> v, over |-> over]
Stepped(op, t, a, b) ==
  LET v == Value(op, FALSE, a.v, b.v) IN Folded(v, a.over \/ b.over \/ LeavesMachine(t, v))
Read(s) == [i \in DOMAIN s |-> Folded(s[i], FALSE)]
AnyOver(fs) == \E i \in DOMAIN fs : fs[i].over
Values(fs)  == [i \in DOMAIN fs |-> fs[i].v]

(* The folds of what is from each element on, and of what is up to it.       *)
FoldsFrom(op, t, fs) ==
  LET f[i \in DOMAIN fs] == IF i = Len(fs) THEN fs[i] ELSE Stepped(op, t, fs[i], f[i + 1]) IN f
FoldsUpTo(op, t, fs) ==
  LET f[i \in DOMAIN fs] == IF i = 1 THEN fs[1] ELSE Stepped(op, t, f[i - 1], fs[i]) IN f
FoldOf(op, t, fs) == FoldsFrom(op, t, fs)[1]

(***************************************************************************)
(* Folds of one run.                                                       *)
(***************************************************************************)
(* The whole rows of lanes are the last ones: what does not fill one is     *)
(* folded onto them at the end.                                             *)
FoldLanesFirst(op, t, fs) == \* mutant of FoldLanes: what does not fill a row is left behind
  LET rows == Len(fs) \div Lanes
      lane(k) == [r \in 1 .. rows |-> fs[(r - 1) * Lanes + k]]
  IN  IF Len(fs) < LaneWork THEN FoldOf(op, t, fs)
      ELSE FoldOf(op, t, [k \in 1 .. Lanes |-> FoldOf(op, t, lane(k))])
FoldLanes(op, t, fs) ==
  LET rows == Len(fs) \div Lanes
      head == Len(fs) - rows * Lanes
      lane(k) == [r \in 1 .. rows |-> fs[head + (r - 1) * Lanes + k]]
  IN  IF Len(fs) < LaneWork THEN FoldOf(op, t, fs)
      ELSE FoldOf(op, t, First(head, fs) \o [k \in 1 .. Lanes |-> FoldOf(op, t, lane(k))])

(* size elements to a chunk; all of them where the work is not worth sharing. *)
Chunk(fs, size, c) == SubSeq(fs, (c - 1) * size + 1, Min({c * size, Len(fs)}))
FoldChunksFirst(op, t, fs, size) == \* mutant of FoldChunks: every chunk is read where the first one is
  LET n == (Len(fs) + size - 1) \div size
  IN  FoldOf(op, t, [c \in 1 .. n |-> FoldLanes(op, t, Chunk(fs, size, 1))])
FoldChunks(op, t, fs, size) ==
  LET n == (Len(fs) + size - 1) \div size
  IN  FoldOf(op, t, [c \in 1 .. n |-> FoldLanes(op, t, Chunk(fs, size, c))])
FoldFlat(op, t, fs, size) ==
  IF IsAssociative(op) THEN FoldChunks(op, t, fs, size) ELSE FoldOf(op, t, fs)

(***************************************************************************)
(* Folds of a table of n items of m elements, by rows: a wide item shares  *)
(* its columns out, and a narrow one its items, in parts of per items.     *)
(***************************************************************************)
Column(s, n, m, j) == Read([i \in 1 .. n |-> s[(i - 1) * m + j]])
Run(s, m, k)       == Read(SubSeq(s, (k - 1) * m + 1, k * m))
FoldItems(op, t, s, n, m, per) ==
  LET parts == IF IsAssociative(op) THEN (n + per - 1) \div per ELSE 1
      part(j, c) == IF parts = 1 THEN FoldOf(op, t, Column(s, n, m, j))
                    ELSE FoldOf(op, t, Chunk(Column(s, n, m, j), per, c))
  IN  IF m = 1 THEN <<FoldFlat(op, t, Column(s, n, 1, 1), per)>>
      ELSE [j \in 1 .. m |-> FoldOf(op, t, [c \in 1 .. parts |-> part(j, c)])]

(* A fold that left the machine integers, and one there is no fast form for, *)
(* answer nothing.                                                           *)
BoolFold(op) == IF op \in {"Mul", "Min", "Max"} THEN "bool" ELSE "int"
TypedFold(op, t, fs) ==
  IF AnyOver(fs) THEN Declined ELSE [type |-> IF t = "bool" THEN BoolFold(op) ELSE t, data |-> Values(fs)]
Typed(op, t) == op \in Foldable /\ t \in {"bool", "int", "float", "complex"} /\ (t = "complex" => op \notin {"Min", "Max"})
ReduceTyped(op, t, s, n, m, per) ==
  IF Typed(op, t) THEN TypedFold(op, t, FoldItems(op, t, s, n, m, per)) ELSE Declined

(* The runs of m elements end to end, one fold to a run.                    *)
FoldRuns(op, t, s, n, m) == [k \in 1 .. n |-> FoldOf(op, t, Run(s, m, k))]
FoldRunsData(op, t, s, n, m) ==
  IF Typed(op, t) THEN TypedFold(op, t, FoldRuns(op, t, s, n, m)) ELSE Declined

(* Held columns: their first axis is a run each, and across them is the     *)
(* other one.                                                                *)
RunSlices(s, runs, len) == [c \in 1 .. runs |-> Run(s, len, c)]
FoldColumns(op, t, s, runs, len, size) ==
  LET cols == RunSlices(s, runs, len) IN [c \in 1 .. runs |-> FoldFlat(op, t, cols[c], size)]
FoldColumnsData(op, t, s, runs, len, size) ==
  IF Typed(op, t) THEN TypedFold(op, t, FoldColumns(op, t, s, runs, len, size)) ELSE Declined
FoldAcrossBack(op, t, s, rows, cols) == \* mutant of FoldAcross: the columns are folded from the first on
  LET cs == RunSlices(s, cols, rows)
  IN  [i \in 1 .. rows |-> FoldOf(op, t, [c \in 1 .. cols |-> cs[cols + 1 - c][i]])]
FoldAcross(op, t, s, rows, cols) ==
  LET cs == RunSlices(s, cols, rows)
  IN  [i \in 1 .. rows |-> FoldOf(op, t, [c \in 1 .. cols |-> cs[c][i]])]
FoldAcrossData(op, t, s, rows, cols) ==
  IF Typed(op, t) THEN TypedFold(op, t, FoldAcross(op, t, s, rows, cols)) ELSE Declined

(***************************************************************************)
(* Scans.  An integer scan one step of which overflows is a scan of floats. *)
(***************************************************************************)
ScanColumn(op, t, fs, back) == IF back THEN FoldsFrom(op, t, fs) ELSE FoldsUpTo(op, t, fs)
ScanFlat(op, t, s, n, m, back) ==
  LET cols == [j \in 1 .. m |-> ScanColumn(op, t, Column(s, n, m, j), back)]
  IN  [k \in 1 .. n * m |-> cols[((k - 1) % m) + 1][((k - 1) \div m) + 1]]
Widened(t, fs) == IF Whole(t) THEN (IF AnyOver(fs) THEN "float" ELSE "int") ELSE t
ScanTyped(op, t, s, n, m, back) ==
  IF ~Typed(op, t) THEN Declined
  ELSE LET fs == ScanFlat(op, t, s, n, m, back) IN [type |-> Widened(t, fs), data |-> Values(fs)]

(* The scan of x + c * y: each item onwards adds its own power of c.        *)
AffineFlatDecaying(s, c, n, m, back) == \* mutant of AffineFlat: forwards, each sum is scaled again
  LET col(j) == [i \in 1 .. n |-> s[(i - 1) * m + j]]
      on(j) == LET v == col(j) f[i \in 1 .. n] == IF i = n THEN v[n] ELSE v[i] + c * f[i + 1] IN f
      up(j) == LET v == col(j) f[i \in 1 .. n] == IF i = 1 THEN v[1] ELSE c * f[i - 1] + v[i] IN f
      cols == [j \in 1 .. m |-> IF back THEN on(j) ELSE up(j)]
  IN  [k \in 1 .. n * m |-> cols[((k - 1) % m) + 1][((k - 1) \div m) + 1]]
AffineFlat(s, c, n, m, back) ==
  LET col(j) == [i \in 1 .. n |-> s[(i - 1) * m + j]]
      on(j) == LET v == col(j) f[i \in 1 .. n] == IF i = n THEN v[n] ELSE v[i] + c * f[i + 1] IN f
      up(j) == LET v == col(j)
                   f[i \in 1 .. n] == IF i = 1 THEN v[1] ELSE f[i - 1] + PowerOf(c, i - 1) * v[i] IN f
      cols == [j \in 1 .. m |-> IF back THEN on(j) ELSE up(j)]
  IN  [k \in 1 .. n * m |-> cols[((k - 1) % m) + 1][((k - 1) \div m) + 1]]

(***************************************************************************)
(* Windows of w elements.  Window i is the end of one block of w elements   *)
(* and the beginning of the next one, or exactly a block; a chunk of the    *)
(* windows begins at the block its first one begins in.                     *)
(***************************************************************************)
FromPreviousLate(i, w, b) == i + w - b - 1 \* mutant of FromPrevious: the window has one element more
FromPrevious(i, w, b) == i + w - b
WindowRange(op, t, fs, w, lo, len) ==
  LET hi == lo + len
      first == (lo \div w) * w
      blocks == {b \in first .. Len(fs) - 1 : (b - first) % w = 0 /\ b <= hi + w - 2}
      block(b) == SubSeq(fs, b + 1, Min({b + w, Len(fs)}))
      pre == [b \in blocks |-> FoldsUpTo(op, t, block(b))]
      suf == [b \in blocks |-> FoldsFrom(op, t, block(b))]
      at(i) == LET e == i + w - 1
                   b == (e \div w) * w
               IN  IF i = b THEN pre[b][e - b + 1]
                   ELSE Stepped(op, t, suf[b - w][FromPrevious(i, w, b) + 1], pre[b][e - b + 1])
      out == [k \in 1 .. len |-> at(lo + k - 1)]
  IN  [out |-> out, over |-> AnyOver(out) \/ \E b \in blocks : AnyOver(pre[b]) \/ AnyOver(suf[b])]
WindowFold(op, t, fs, w, size) ==
  LET n == Len(fs) - w + 1
      parts == [c \in 1 .. (n + size - 1) \div size |->
                  WindowRange(op, t, fs, w, (c - 1) * size, Min({size, n - (c - 1) * size}))]
  IN  [out |-> FlattenSeq([c \in DOMAIN parts |-> parts[c].out]), over |-> \E c \in DOMAIN parts : parts[c].over]
WindowDirect(op, t, fs, w) ==
  LET out == [i \in 1 .. Len(fs) - w + 1 |-> FoldOf(op, t, SubSeq(fs, i, i + w - 1))]
  IN  [out |-> out, over |-> AnyOver(out)]

(* swap folds each window the other way about, element by element.          *)
SwappedFoldsFrom(op, t, fs) ==
  LET f[i \in DOMAIN fs] == IF i = Len(fs) THEN fs[i] ELSE Stepped(op, t, f[i + 1], fs[i]) IN f
WindowBy(op, swap, t, fs, w, size) ==
  CASE IsAssociative(op) -> WindowFold(op, t, fs, w, size)
    [] ~IsAssociative(op) /\ ~swap -> WindowDirect(op, t, fs, w)
    [] OTHER ->
         LET out == [i \in 1 .. Len(fs) - w + 1 |-> SwappedFoldsFrom(op, t, SubSeq(fs, i, i + w - 1))[1]]
         IN  [out |-> out, over |-> AnyOver(out)]
WindowTyped(op, swap, t, s, n, m, w, size) ==
  IF ~Typed(op, t) THEN Declined
  ELSE LET cols == [j \in 1 .. m |-> WindowBy(op, swap, t, Column(s, n, m, j), w, size)]
           over == \E j \in 1 .. m : cols[j].over
       IN  [type |-> IF Whole(t) THEN (IF over THEN "float" ELSE "int") ELSE t,
            data |-> [k \in 1 .. (n - w + 1) * m |-> cols[((k - 1) % m) + 1].out[((k - 1) \div m) + 1].v]]

(* A window folded after one verb has combined it with weights.             *)
Correlation(fold, swap, combine, left, weights) ==
  [fold |-> fold, swap |-> swap, combine |-> combine, left |-> left, weights |-> weights]
Correlate(k, s, w) ==
  [i \in 1 .. Len(s) - w + 1 |->
    LET one == [j \in 1 .. w |-> IF k.left THEN Value(k.combine, FALSE, k.weights[j], s[i + j - 1])
                                 ELSE Value(k.combine, FALSE, s[i + j - 1], k.weights[j])]
    IN  (IF k.swap THEN SwappedFoldsFrom(k.fold, "float", Read(one)) ELSE FoldsFrom(k.fold, "float", Read(one)))[1].v]

-----------------------------------------------------------------------------
(* No choice of the elements folds to what is no machine integer.           *)
Fits(op, s) ==
  CASE op = "Add" -> /\ Sum([i \in DOMAIN s |-> Max({s[i], 0})]) \in Machine
                     /\ Sum([i \in DOMAIN s |-> Min({s[i], 0})]) \in Machine
    [] op = "Mul" -> Product([i \in DOMAIN s |-> Max({Abs(s[i]), 1})]) \in Machine
    [] OTHER -> TRUE
Numbers(a) == a.type \in {"bool", "int", "float"} /\ Count(a) > 0
SmallData(s) == Len(s) <= 6 /\ \A i \in DOMAIN s : s[i] \in -9 .. 9

(* Regrouped in lanes and in chunks of any size, an associative fold is the  *)
(* fold from the right; where it leaves the machine integers in one grouping *)
(* and not in the other, some of the elements do.  What it answers never     *)
(* wrapped.                                                                  *)
RegroupingChangesNothing ==
  \A a \in {alpha, omega} : Numbers(a) /\ SmallData(a.data) =>
    LET fs == Read(a.data \o <<2, -1, a.data[1]>>) IN
    \A op \in Foldable : \A size \in 1 .. Len(fs) :
      LET r == FoldFlat(op, "int", fs, size) IN
      /\ r.v = FoldOf(op, "int", fs).v
      /\ r.over # FoldOf(op, "int", fs).over => ~Fits(op, Values(fs))
      /\ ~r.over => r.v \in Machine

(* A table folds to one answer by rows in parts of any size, by held columns *)
(* and down its columns, and across them to what its rows fold to.           *)
LayoutsFoldAlike ==
  LET y == ToRows(omega) IN
  Numbers(y) /\ Rank(y) = 2 /\ SmallData(y.data) =>
    LET n == y.shape[1] m == y.shape[2]
        cols == FlattenSeq([j \in 1 .. m |-> [i \in 1 .. n |-> y.data[(i - 1) * m + j]]])
    IN  \A op \in Foldable : \A per \in 1 .. n :
          /\ Values(FoldItems(op, y.type, y.data, n, m, per)) = Values(FoldColumns(op, y.type, cols, m, n, per))
          /\ Values(FoldItems(op, y.type, y.data, n, m, per)) = Values(FoldRuns(op, y.type, cols, m, n))
          /\ Values(FoldAcross(op, y.type, cols, n, m)) = Values(FoldRuns(op, y.type, y.data, n, m))

(* Every window is the fold of its elements, of whatever size the blocks and *)
(* the chunks are, and no other window's overflow is in its value; a scan    *)
(* ends in the fold, and backwards it begins with it.                        *)
WindowsAreFolds ==
  \A a \in {alpha, omega} : Numbers(a) /\ SmallData(a.data) =>
    LET fs == Read(a.data \o <<2, -1>>) IN
    \A op \in Foldable : \A w \in 1 .. Len(fs) :
      LET windows == WindowDirect(op, "int", fs, w) IN
      /\ \A size \in 1 .. Len(fs) - w + 1 :
           LET by == WindowFold(op, "int", fs, w, size) IN
           IsAssociative(op) => Values(by.out) = Values(windows.out) /\ (by.over # windows.over => ~Fits(op, Values(fs)))
      /\ LET up == FoldsUpTo(op, "int", First(w, fs)) on == FoldsFrom(op, "int", First(w, fs)) IN
         /\ on[1].v = windows.out[1].v
         /\ IsAssociative(op) => up[w].v = windows.out[1].v

(* However a fold is regrouped it is the fold.                               *)
FoldsAreRegrouped ==
  [][(RegroupingChangesNothing /\ LayoutsFoldAlike /\ WindowsAreFolds)]_given
=============================================================================
