------------------------------- MODULE Values -------------------------------
(***************************************************************************)
(* Arrays (array.rs, dtype.rs): a shape, a type, and a buffer that holds   *)
(* the elements by rows (the last axis fastest) or by columns (the first   *)
(* axis fastest).  Numbers and characters are integers that the type tells *)
(* apart, the element of a boxed array is an array.  A verb answers an     *)
(* array or a refusal, which is the kind of its error.                     *)
(*                                                                         *)
(* alpha and omega are the arguments in hand, the ones the laws of this    *)
(* module and of the modules of verbs are about, and lang the language the *)
(* sentence is written in.                                                 *)
(***************************************************************************)
EXTENDS Integers, SequencesExt

VARIABLES alpha, omega, lang
given == <<alpha, omega, lang>>

(***************************************************************************)
(* Types.                                                                  *)
(***************************************************************************)
Tower    == <<"bool", "int", "ext", "rat", "float", "complex">>
NumTypes == {Tower[i] : i \in DOMAIN Tower}
Types    == NumTypes \cup {"char", "symbol", "box"}
Height(t) == CHOOSE i \in DOMAIN Tower : Tower[i] = t

(* The type two operands widen to, None where nothing holds both. *)
None == "none"
Promote(s, t) ==
  CASE s \in NumTypes /\ t \in NumTypes -> IF Height(s) >= Height(t) THEN s ELSE t
    [] s = t -> s
    [] OTHER -> None

(* The conversions Data::cast knows: the numbers upwards, but not to a whole *)
(* number from an exact one, nor from either exact one to the other.         *)
CastsNarrow(s, t) == \* mutant of Casts: an exact number becomes no float
  \/ s = t
  \/ s = "bool" /\ t \in NumTypes
  \/ s = "int" /\ t \in NumTypes \ {"bool"}
  \/ s = "float" /\ t = "complex"
Casts(s, t) ==
  \/ s = t
  \/ s = "bool" /\ t \in NumTypes
  \/ s = "int" /\ t \in NumTypes \ {"bool"}
  \/ s = "ext" /\ t \in {"rat", "float", "complex"}
  \/ s = "rat" /\ t \in {"float", "complex"}
  \/ s = "float" /\ t = "complex"

(* Where an array with nothing in it stands among the types of an empty join. *)
EmptyOrder == <<"bool", "char", "int", "box", "ext", "rat", "float", "complex", "symbol">>
Standing(t) == CHOOSE i \in DOMAIN EmptyOrder : EmptyOrder[i] = t

(***************************************************************************)
(* Arrays.                                                                 *)
(***************************************************************************)
Product(s) == LET p[n \in 0 .. Len(s)] == IF n = 0 THEN 1 ELSE p[n - 1] * s[n] IN p[Len(s)]
Sum(s)     == LET t[n \in 0 .. Len(s)] == IF n = 0 THEN 0 ELSE t[n - 1] + s[n] IN t[Len(s)]
Copies(n, e)  == [i \in 1 .. n |-> e]
Iota(n)       == [i \in 1 .. n |-> i - 1]
First(n, s)   == SubSeq(s, 1, n)
After(n, s)   == SubSeq(s, n + 1, Len(s))

Arr(t, s, d)  == [type |-> t, shape |-> s, rows |-> TRUE, data |-> d]
ColMajor(t, s, d) == [type |-> t, shape |-> s, rows |-> Len(s) < 2, data |-> d]
Ints(s)       == Arr("int", <<Len(s)>>, s)
Scalar(t, e)  == Arr(t, <<>>, <<e>>)
Box(a)        == Scalar("box", a)
Empty(t, s)   == Arr(t, s, <<>>)

Blank == 32
FillOf(t) == CASE t = "char" -> Blank [] t = "box" -> Empty("bool", <<0>>) [] OTHER -> 0

Rank(a)     == Len(a.shape)
Count(a)    == Product(a.shape)
Items(a)    == IF a.shape = <<>> THEN 1 ELSE a.shape[1]
ItemSize(a) == Product(After(1, a.shape))

(* Indices count from zero, and so do the places of a buffer. *)
Strides(s)  == [k \in DOMAIN s |-> Product(After(k, s))]
Columns(s)  == [k \in DOMAIN s |-> Product(First(k - 1, s))]
Coord(s, i) == [k \in DOMAIN s |-> (i \div Strides(s)[k]) % s[k]]
Dot(u, v)   == Sum([k \in DOMAIN u |-> u[k] * v[k]])
Inside(c, s) == \A k \in DOMAIN s : c[k] \in 0 .. s[k] - 1
Element(a, c) == a.data[1 + Dot(c, IF a.rows THEN Strides(a.shape) ELSE Columns(a.shape))]
At(a, i)    == a.data[i + 1]

(* An array of this shape whose element at c is E(c), row by row. *)
Filled(t, s, E(_)) == Arr(t, s, [i \in 1 .. Product(s) |-> E(Coord(s, i - 1))])

(***************************************************************************)
(* The table boundary: columns end to end, and woven into rows.  A chunk of *)
(* the weave is the tail of a row, whole rows and the head of another.     *)
(***************************************************************************)
ColumnsOf(d, rows, cols) == [j \in 1 .. cols |-> SubSeq(d, (j - 1) * rows + 1, j * rows)]

LeadNone(at, cols, n) == 0 \* mutant of Lead: every chunk is taken to begin a row
Lead(at, cols, n) == LET k == (cols - (at % cols)) % cols IN IF k < n THEN k ELSE n

WeaveChunk(columns, at, n) ==
  LET cols  == Len(columns)
      lead  == Lead(at, cols, n)
      row   == (at + lead) \div cols
      whole == (n - lead) \div cols
      tail  == n - lead - whole * cols
  IN  [k \in 1 .. lead |-> columns[(at % cols) + k][(at \div cols) + 1]]
        \o FlattenSeq([r \in 1 .. whole |-> [c \in 1 .. cols |-> columns[c][row + r]]])
        \o [c \in 1 .. tail |-> columns[c][row + whole + 1]]

(* The buffer in parts of one size, as many as it takes. *)
Weave(columns, rows, size) ==
  LET n == rows * Len(columns)
      chunks == (n + size - 1) \div size
      Ends(k) == IF k * size < n THEN k * size ELSE n
  IN  FlattenSeq([k \in 1 .. chunks |->
        WeaveChunk(columns, (k - 1) * size, Ends(k) - (k - 1) * size)])

(* None where there is no column, the types differ or a column is short. *)
Weavable(columns, rows) ==
  columns # <<>> /\ \A c \in ToSet(columns) : c.type = columns[1].type /\ Len(c.data) >= rows
Interwoven(columns, rows) ==
  IF Weavable(columns, rows)
  THEN Weave([c \in DOMAIN columns |-> columns[c].data], rows, rows * Len(columns) + 1) ELSE None
JoinColumns(columns, rows) ==
  IF Weavable(columns, rows)
  THEN FlattenSeq([c \in DOMAIN columns |-> First(rows, columns[c].data)]) ELSE None

(* The rows of an array, materialised if its buffer holds the columns. *)
TransposedData(a) ==
  IF Rank(a) = 2 /\ a.shape[2] > 0
  THEN Interwoven([j \in 1 .. a.shape[2] |->
         [type |-> a.type, data |-> ColumnsOf(a.data, a.shape[1], a.shape[2])[j]]], a.shape[1])
  ELSE [i \in 1 .. Count(a) |-> a.data[1 + Dot(Coord(a.shape, i - 1), Columns(a.shape))]]
ToRowsFlagOnly(a) == [a EXCEPT !.rows = TRUE] \* mutant of ToRows: the buffer stays as it lies
ToRows(a) == IF a.rows THEN a ELSE Arr(a.type, a.shape, TransposedData(a))

Cast(a, t) == [a EXCEPT !.type = t]  \* an element keeps its integer
LaidOut(a, rows) == [a EXCEPT !.rows = rows \/ Rank(a) < 2]

(* Equal is what the elements are at every index, whatever the buffers. *)
Same(a, b) ==
  LET p == ToRows(a) q == ToRows(b) IN p.shape = q.shape /\ p.type = q.type /\ p.data = q.data

(***************************************************************************)
(* Cells.                                                                  *)
(***************************************************************************)
CellAtOverlapping(a, frame, i) == \* mutant of CellAt: cells begin one element apart
  LET s == After(frame, a.shape) IN Arr(a.type, s, SubSeq(a.data, i + 1, i + Product(s)))
CellAt(a, frame, i) ==
  LET s == After(frame, a.shape) n == Product(s)
  IN  Arr(a.type, s, SubSeq(a.data, i * n + 1, (i + 1) * n))
CellsOf(a, frame) ==
  [i \in 1 .. Product(First(frame, a.shape)) |-> CellAt(a, frame, i - 1)]
Item(a, i)  == CellAt(a, 1, i)
Atom(a, i)  == Arr(a.type, <<>>, <<a.data[i + 1]>>)

(***************************************************************************)
(* Refusals.                                                               *)
(***************************************************************************)
Refusal(k)  == [kind |-> k]
Refused(r)  == "kind" \in DOMAIN r
Declined    == Refusal("declined")  \* a recognised form that does not apply
FirstRefusal(cells) ==
  cells[CHOOSE i \in DOMAIN cells : Refused(cells[i]) /\ \A j \in 1 .. i - 1 : ~Refused(cells[j])]
AnyRefused(cells) == \E i \in DOMAIN cells : Refused(cells[i])
Then(r, F(_)) == IF Refused(r) THEN r ELSE F(r)
Both(l, r, F(_, _)) == IF Refused(l) THEN l ELSE IF Refused(r) THEN r ELSE F(l, r)

RECURSIVE WellFormed(_)
WellFormed(a) ==
  /\ a.type \in Types /\ a.rows \in BOOLEAN /\ (a.rows \/ Rank(a) >= 2)
  /\ \A k \in DOMAIN a.shape : a.shape[k] \in Nat
  /\ Len(a.data) = Count(a)
  /\ \A i \in DOMAIN a.data : IF a.type = "box" THEN WellFormed(a.data[i]) ELSE a.data[i] \in Int

-----------------------------------------------------------------------------
(* Whatever the verbs answered one another is an array: its buffer holds    *)
(* what its shape counts, of its type, in a layout its rank has.            *)
AnswersAreArrays == WellFormed(alpha) /\ WellFormed(omega)

(* A buffer held by columns, its elements and its cast read at every index  *)
(* what the rows materialised from it hold: to_row_major, by the weave at   *)
(* rank two and by offsets above it, moves no element to another index.     *)
RowsHoldTheSame ==
  \A a \in {alpha, omega} : \A rows \in BOOLEAN :
    LET l == LaidOut(a, rows) r == ToRows(l)
    IN  \A i \in 0 .. Count(a) - 1 : LET c == Coord(a.shape, i) IN Element(r, c) = Element(l, c)

(* However many threads weave a table, and wherever their chunks begin and  *)
(* end in its rows, the rows are the ones one thread writes, a column of    *)
(* more elements than rows giving its first ones.                           *)
WovenByChunks ==
  LET n == Items(omega)
      columns == [j \in 1 .. Items(alpha) |-> [i \in 1 .. n + j |-> 100 * j + i]]
  IN  \A size \in 1 .. n * Len(columns) + 1 :
        Weave(columns, n, size)
          = FlattenSeq([r \in 1 .. n |-> [c \in DOMAIN columns |-> columns[c][r]]])

(* The type two arrays are promoted to is one both can be cast to, so a     *)
(* frame, a catenation or an enlist that promoted its parts never meets the *)
(* internal error of a widening that is not there.                          *)
PromotionIsReached ==
  \A s, t \in Types : Promote(s, t) # None => Casts(s, Promote(s, t)) /\ Casts(t, Promote(s, t))

(* Answers are whole, and what moves between layouts, threads and types     *)
(* stays the same elements.                                                 *)
ElementsStay ==
  [][(AnswersAreArrays /\ RowsHoldTheSame /\ WovenByChunks /\ PromotionIsReached)]_given

=============================================================================
