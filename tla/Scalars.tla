------------------------------ MODULE Scalars ------------------------------
(***************************************************************************)
(* The elementwise verbs (verb.rs).  One pass pairs the elements of two    *)
(* buffers by the runs each is repeated in, in chunks that threads share   *)
(* out, and answers with one type: a pass over machine integers that any   *)
(* element overflows is a pass over floats.  In APL a pass goes through    *)
(* boxes, by a stack of work and not by recursion.                         *)
(*                                                                         *)
(* A float and an exact number are whole here and of any size, a complex   *)
(* one has no imaginary part; what divides, takes roots or logarithms is   *)
(* left out, and so are the infinities.                                    *)
(***************************************************************************)
EXTENDS Searching

CONSTANT Largest  \* the largest machine integer
ASSUME LargestIsNatural == Largest \in Nat
Machine == -Largest - 1 .. Largest

Comparisons == {"Eq", "Ne", "Lt", "Le", "Gt", "Ge"}
Arithmetic  == {"Add", "Sub", "Mul", "Min", "Max", "Residue", "Pow", "Binomial", "Gcd", "Lcm"}
Orders      == {"Min", "Max", "Lt", "Le", "Gt", "Ge"}
Whole(t)    == t \in {"bool", "int"}
Flag(b)     == IF b THEN 1 ELSE 0

(***************************************************************************)
(* One pair.                                                               *)
(***************************************************************************)
GcdOf(a, b) == LET g[u, v \in 0 .. Max({Abs(a), Abs(b)})] == IF v = 0 THEN u ELSE g[v, u % v]
               IN  g[Abs(a), Abs(b)]
(* GNU APL's gives back the other number for a zero, sign and all.         *)
SignedGcd(a, b) == IF a = 0 THEN b ELSE IF b = 0 THEN a ELSE GcdOf(a, b)
LcmBy(g, a, b) == IF g = 0 THEN 0 ELSE (Abs(a) \div Abs(g)) * b * (IF (a < 0) = (g < 0) THEN 1 ELSE -1)
ResidueOf(a, b) == IF a = 0 THEN b ELSE LET r == b % Abs(a) IN IF a < 0 /\ r # 0 THEN r + a ELSE r
Chosen(k, n) ==
  LET c[i \in 0 .. k] == IF i = 0 THEN 1 ELSE LET p == c[i - 1] * (n - i + 1)
                                              IN  IF p < 0 THEN -(-p \div i) ELSE p \div i
  IN  c[k]
BinomialOf(k, n) ==
  IF k >= 0 THEN Chosen(k, n)
  ELSE IF n >= 0 \/ n < k THEN 0
  ELSE Chosen(-n - 1, -k - 1) * (IF (n - k) % 2 = 0 THEN 1 ELSE -1)
PowerOf(a, b) == LET p[i \in 0 .. b] == IF i = 0 THEN 1 ELSE p[i - 1] * a IN p[b]

Signed(gnu, t) == gnu /\ t \notin Exact \cup {"complex"}
Value(op, gnu, a, b) ==
  CASE op = "Add" -> a + b
    [] op = "Sub" -> a - b
    [] op = "Mul" -> a * b
    [] op = "Min" -> Min({a, b})
    [] op = "Max" -> Max({a, b})
    [] op = "Residue"  -> ResidueOf(a, b)
    [] op = "Pow"      -> PowerOf(a, b)
    [] op = "Binomial" -> BinomialOf(a, b)
    [] op = "Gcd" -> IF gnu THEN SignedGcd(a, b) ELSE GcdOf(a, b)
    [] op = "Lcm" -> LcmBy(IF gnu THEN SignedGcd(a, b) ELSE GcdOf(a, b), a, b)

(* What leaves the machine integers, and a power that is not 0 or 1.       *)
Overflows(op, a, b, v) == v \notin Machine \/ (op = "Pow" /\ b \notin {0, 1})

Ordered(op, c) ==
  CASE op = "Eq" -> c = 0 [] op = "Ne" -> c # 0 [] op = "Lt" -> c < 0
    [] op = "Le" -> c <= 0 [] op = "Gt" -> c > 0 [] op = "Ge" -> c >= 0
Near(t, a, b) == IF Equal(t, a, b) THEN 0 ELSE Cmp(a, b)

(***************************************************************************)
(* One chunk of a pass: element i of the answer pairs the element i \div   *)
(* xdiv of one buffer with i \div ydiv of the other.                       *)
(***************************************************************************)
OneRunSpread(div, start, len) == div > 1 \* mutant of OneRun: a repeated side is one element to a chunk
OneRun(div, start, len) == div > 1 /\ start \div div = (start + len - 1) \div div
ZipChunk(xs, xdiv, ys, ydiv, start, len, f(_, _)) ==
  CASE len = 0 -> <<>>
    [] len > 0 /\ xdiv = 1 /\ OneRun(ydiv, start, len) ->
         LET b == ys[start \div ydiv + 1] IN [k \in 1 .. len |-> f(xs[start + k], b)]
    [] len > 0 /\ ydiv = 1 /\ OneRun(xdiv, start, len) ->
         LET a == xs[start \div xdiv + 1] IN [k \in 1 .. len |-> f(a, ys[start + k])]
    [] OTHER ->
         [k \in 1 .. len |-> f(xs[(start + k - 1) \div xdiv + 1], ys[(start + k - 1) \div ydiv + 1])]

(* The elements both sides give a pass of n pairs, one chunk or many.      *)
Pairs(x, xdiv, y, ydiv, n) == ZipChunk(x.data, xdiv, y.data, ydiv, 0, n, LAMBDA a, b : <<a, b>>)
PairsByChunks(x, xdiv, y, ydiv, n, size) ==
  FlattenSeq([k \in 1 .. (n + size - 1) \div size |->
    ZipChunk(x.data, xdiv, y.data, ydiv, (k - 1) * size, Min({size, n - (k - 1) * size}), LAMBDA a, b : <<a, b>>)])

(***************************************************************************)
(* A pass.  total is APL's order on every pair of atoms, gnu its signed    *)
(* greatest divisor; both are GNU APL's and one dialect's setting.         *)
(***************************************************************************)
ArithType(s, t) ==
  IF {s, t} \cap {"box", "symbol"} # {} \/ Promote(s, t) \in {None, "char"} THEN Refusal("type")
  ELSE [type |-> IF s = "bool" /\ t = "bool" THEN "int" ELSE Promote(s, t)]

Class(t) == CASE t = "box" -> 3 [] t = "symbol" -> 2 [] t = "char" -> 1 [] OTHER -> 0
Compares(op, gnu, s, t) ==
  LET equality == op \in {"Eq", "Ne"}
      crossed  == equality /\ Class(s) # Class(t) /\ (lang = "J" \/ "box" \notin {s, t})
  IN  crossed \/ IF "box" \in {s, t} THEN equality /\ s = t
                 ELSE IF "symbol" \in {s, t} THEN s = t
                 ELSE "char" \in {s, t} => (gnu /\ lang = "APL") \/ (equality /\ s = t)
Compared(op, s, t, a, b) ==
  CASE op \in {"Eq", "Ne"} /\ Class(s) # Class(t) -> op = "Ne"
    [] s = "box" /\ t = "box" -> Match(a, b) = (op = "Eq")
    [] op \notin {"Eq", "Ne"} /\ Class(s) # Class(t) -> (op \in {"Lt", "Le"}) = (s = "char")
    [] OTHER -> Ordered(op, Near(Promote(s, t), a, b))

(* Bools narrow what two bools make in J, and a divisor of two in either.   *)
PassAlways(op, gnu, s, t, pairs) == \* mutant of Arithmetics: an integer pass keeps its type
  LET r == ArithType(s, t)
  IN  IF Refused(r) THEN r
      ELSE [type |-> r.type, data |-> [i \in DOMAIN pairs |-> Value(op, gnu, pairs[i][1], pairs[i][2])]]
Arithmetics(op, gnu, s, t, pairs) ==
  LET r == ArithType(s, t)
      signed == Signed(gnu /\ lang = "APL", Promote(s, t))
      data == [i \in DOMAIN pairs |-> Value(op, signed, pairs[i][1], pairs[i][2])]
      over == \E i \in DOMAIN pairs : Overflows(op, pairs[i][1], pairs[i][2], data[i])
      bits == s = "bool" /\ t = "bool"
                /\ (op \in {"Gcd", "Lcm"} \/ (lang = "J" /\ op \in {"Mul", "Min", "Max", "Pow", "Residue", "Binomial"}))
  IN  IF s = "symbol" /\ t = "symbol" /\ op \in {"Min", "Max"} THEN [type |-> "symbol", data |-> data]
      ELSE IF Refused(r) THEN r
      ELSE [type |-> CASE r.type = "int" /\ over -> "float"
                       [] r.type = "complex" /\ op \in {"Min", "Max"} -> "float"
                       [] r.type = "int" /\ ~over /\ bits /\ ToSet(data) \subseteq {0, 1} -> "bool"
                       [] OTHER -> r.type,
            data |-> data]
ScalarPass(op, gnu, s, t, pairs) ==
  IF op \in Comparisons
  THEN IF Compares(op, gnu, s, t)
       THEN [type |-> "bool", data |-> [i \in DOMAIN pairs |-> Flag(Compared(op, s, t, pairs[i][1], pairs[i][2]))]]
       ELSE Refusal("type")
  ELSE Arithmetics(op, gnu, s, t, pairs)

(***************************************************************************)
(* Two arguments.                                                          *)
(***************************************************************************)
AsReal(a) == IF a.type = "complex" THEN Cast(a, "float") ELSE a
EmptyResultType(x, y) ==
  LET numeric == {x.type, y.type} \cap NumTypes
  IN  CASE {x.type, y.type} \subseteq NumTypes -> Promote(x.type, y.type)
        [] Cardinality(numeric) = 1 /\ ~({x.type, y.type} \subseteq NumTypes) -> CHOOSE t \in numeric : TRUE
        [] numeric = {} -> "int"

(* The table of J's answers that a pass over one pair of fills would not    *)
(* give, None where it does.                                                *)
EmptyDyadType(op, s, t) ==
  CASE op = "Pow" -> IF Whole(s) /\ t = "int" THEN "float" ELSE None
    [] op = "Residue" -> IF s = "int" /\ t = "float" THEN "int" ELSE None
    [] op = "Binomial" ->
         CASE "complex" \in {s, t} -> "complex"
           [] "complex" \notin {s, t} /\ "float" \in {s, t} -> "float"
           [] {s, t} \cap {"complex", "float"} = {} /\ {s, t} \cap Exact # {} -> "ext"
           [] s = "bool" /\ t = "bool" -> "bool"
           [] OTHER -> "float"
    [] OTHER -> None
EmptyScalarType(op, gnu, x, y) ==
  LET plain == x.type \in NumTypes /\ y.type \in NumTypes
      Read(a) == IF a.type \in NumTypes /\ (plain \/ Count(a) > 0) THEN a.type ELSE "bool"
      exponent == IF op = "Pow" /\ Count(y) > 0 /\ y.type = Read(y) THEN ToRows(y).data[1] ELSE 0
      table == EmptyDyadType(op, Read(x), Read(y))
  IN  IF lang = "APL" THEN EmptyResultType(x, y)
      ELSE IF table # None THEN table
      ELSE ScalarPass(op, gnu, Read(x), Read(y), <<<<0, exponent>>>>).type

FramePervaded(frame, cells) ==
  IF \A i \in DOMAIN cells : Rank(cells[i]) = 0 /\ cells[i].type # "box" THEN Assemble(frame, cells)
  ELSE Arr("box", frame, cells)

SimpleDyad(op, gnu, x, y) ==
  LET real == op \in Orders /\ "complex" \in {x.type, y.type}
      a == IF real THEN AsReal(x) ELSE x
      b == IF real THEN AsReal(y) ELSE y
      p == Agree(x.shape, y.shape)
      r == ScalarPass(op, gnu, a.type, b.type, Pairs(a, p.xdiv, b, p.ydiv, p.n))
  IN  IF Refused(p) THEN p
      ELSE IF p.n = 0 THEN Empty(EmptyScalarType(op, gnu, a, b), p.frame)
      ELSE IF Refused(r) THEN r ELSE Arr(r.type, p.frame, r.data)

(***************************************************************************)
(* One argument.  Only in the values of a whole pass does a type change.   *)
(***************************************************************************)
Monads == {"Conj", "Neg", "Signum", "Abs", "Floor", "Ceil", "Not", "OneMinus", "Inc", "Dec", "Double", "Square"}
MonadValue(op, a) ==
  CASE op \in {"Conj", "Floor", "Ceil"} -> a
    [] op = "Neg" -> -a
    [] op = "Signum" -> Cmp(a, 0)
    [] op = "Abs" -> Abs(a)
    [] op \in {"Not", "OneMinus"} -> 1 - a
    [] op = "Inc" -> a + 1
    [] op = "Dec" -> a - 1
    [] op = "Double" -> 2 * a
    [] op = "Square" -> a * a
MonadType(op, t, fits) ==
  CASE op = "Not" -> "bool"
    [] op # "Not" /\ t = "bool" -> IF op \in {"Neg", "Inc", "Dec", "Double"} THEN "int" ELSE "bool"
    [] op # "Not" /\ t = "int" -> IF fits THEN "int" ELSE "float"
    [] t = "float" /\ op \in {"Floor", "Ceil"} -> IF fits THEN "int" ELSE "float"
    [] t = "float" /\ op = "Signum" -> IF lang = "J" THEN "int" ELSE "float"
    [] t = "rat" /\ op \in {"Floor", "Ceil", "Signum"} -> "ext"
    [] t = "complex" /\ op = "Abs" -> "float"
    [] OTHER -> t
EmptyMonadTable(op, numeric) ==
  CASE op = "Halve" -> <<"float", "ext", "float">>
    [] op \in {"Double", "Inc", "Dec", "Neg"} \/ (op = "OneMinus" /\ ~numeric) -> <<"int", "ext", "int">>
    [] OTHER -> <<"bool", "ext", "int">>
EmptyMonadType(op, t) ==
  LET numeric == t \in NumTypes
      row == EmptyMonadTable(op, numeric)
  IN  CASE ~numeric -> row[1]
        [] t = "bool" -> row[1]
        [] t = "int"  -> row[3]
        [] t = "float" -> IF op = "Signum" THEN "int" ELSE "float"
        [] t = "complex" -> IF op = "Abs" THEN "float" ELSE "complex"
        [] t = "ext" -> row[2]
        [] OTHER -> IF op = "Signum" THEN "ext" ELSE "rat"
SimpleMonad(op, y) ==
  LET data == [i \in DOMAIN y.data |-> MonadValue(op, y.data[i])]
      zeros == Count(y) = 0 /\ y.type \notin NumTypes
  IN  IF Count(y) = 0 /\ lang = "J" /\ op \notin {"Not", "Floor", "Ceil"}
      THEN [y EXCEPT !.type = EmptyMonadType(op, y.type)]
      ELSE IF zeros THEN [y EXCEPT !.type = MonadType(op, "bool", TRUE)]
      ELSE IF op = "Not" /\ (y.type \notin {"bool", "int", "float"} \/ ~(ToSet(y.data) \subseteq {0, 1}))
      THEN Refusal("domain")
      ELSE IF y.type \notin NumTypes THEN Refusal("type")
      ELSE [y EXCEPT !.type = MonadType(op, y.type, ToSet(data) \subseteq Machine), !.data = data]

(***************************************************************************)
(* Through boxes.                                                          *)
(***************************************************************************)
(* A pair of arrays, or the frame of the answers of the pairs pushed after *)
(* it, which are all taken from the stack before it is.                     *)
PairJob(x, y, out) == [x |-> x, y |-> y, out |-> out]
FrameJob(frame, first, n, out) == [frame |-> frame, first |-> first, n |-> n, out |-> out]
PairsUnderInTurn(x, y, p, first) == \* mutant of PairsUnder: the slots are taken as the pairs are popped
  [i \in 1 .. p.n |-> PairJob(OpenCell(Atom(ToRows(x), (i - 1) \div p.xdiv)),
                              OpenCell(Atom(ToRows(y), (i - 1) \div p.ydiv)), first + p.n + 1 - i)]
PairsUnder(x, y, p, first) ==
  [i \in 1 .. p.n |-> PairJob(OpenCell(Atom(ToRows(x), (i - 1) \div p.xdiv)),
                              OpenCell(Atom(ToRows(y), (i - 1) \div p.ydiv)), first + i)]

RECURSIVE Worked(_, _, _, _)
Worked(op, gnu, work, slots) ==
  IF work = <<>> THEN slots[1] ELSE
  LET job == Last(work) rest == Front(work)
      p == Agree(job.x.shape, job.y.shape)
      r == IF op \in Monads THEN SimpleMonad(op, job.y) ELSE SimpleDyad(op, gnu, job.x, job.y)
  IN  CASE "frame" \in DOMAIN job ->
             LET f == FramePervaded(job.frame, SubSeq(slots, job.first + 1, job.first + job.n))
             IN  IF Refused(f) THEN f ELSE Worked(op, gnu, rest, [slots EXCEPT ![job.out] = f])
        [] "x" \in DOMAIN job /\ "box" \notin {job.x.type, job.y.type} ->
             IF Refused(r) THEN r ELSE Worked(op, gnu, rest, [slots EXCEPT ![job.out] = r])
        [] "x" \in DOMAIN job /\ "box" \in {job.x.type, job.y.type} ->
             IF Refused(p) THEN p
             ELSE IF p.n = 0 THEN Worked(op, gnu, rest, [slots EXCEPT ![job.out] = Empty("box", p.frame)])
             ELSE Worked(op, gnu,
                    Append(rest, FrameJob(p.frame, Len(slots), p.n, job.out))
                      \o PairsUnder(job.x, job.y, p, Len(slots)),
                    slots \o Copies(p.n, None))
PervadeDyad(op, gnu, x, y) == Worked(op, gnu, <<PairJob(x, y, 1)>>, <<None>>)

ScalarDyad(op, gnu, x, y) ==
  IF lang = "APL" /\ "box" \in {x.type, y.type} THEN PervadeDyad(op, gnu, x, y)
  ELSE SimpleDyad(op, gnu, x, y)

(* An argument alone is paired with itself. *)
ScalarMonad(op, y) ==
  IF lang = "APL" /\ y.type = "box" THEN PervadeDyad(op, FALSE, y, y) ELSE SimpleMonad(op, y)

(* The verb's entry: both held by rows, or both alike, or one a scalar.     *)
ElementwiseLayout(x, y) ==
  CASE Rank(x) = 0 -> y.rows [] Rank(x) > 0 /\ Rank(y) = 0 -> x.rows [] OTHER -> x.rows
AlikeWhenShaped(x, y) == Rank(x) = 0 \/ Rank(y) = 0 \/ x.shape = y.shape \* mutant of Alike: the layouts may differ
Alike(x, y) == Rank(x) = 0 \/ Rank(y) = 0 \/ (x.shape = y.shape /\ x.rows = y.rows)
DyadEntry(op, gnu, x, y) ==
  IF (x.rows /\ y.rows) \/ ~Alike(x, y) THEN ScalarDyad(op, gnu, ToRows(x), ToRows(y))
  ELSE LET r == ScalarDyad(op, gnu, x, y)
       IN  IF Refused(r) THEN r ELSE [r EXCEPT !.rows = ElementwiseLayout(x, y) \/ Rank(r) < 2]
-----------------------------------------------------------------------------
Flavours(a) ==
  {a} \cup (IF a.type \in {"bool", "int"} THEN {Cast(a, "rat"), ScalarMonad("Neg", a)} ELSE {})
      \cup (IF a.type = "char" THEN {Cast(a, "symbol")} ELSE {})
Small(a) == a.type \in {"bool", "int", "rat"} /\ \A i \in DOMAIN a.data : a.data[i] \in -9 .. 9
Affordable(op, x, y) ==
  \/ op \notin {"Pow", "Binomial"}
  \/ Small(x) /\ Small(y) /\ (op = "Pow" => \A i \in DOMAIN y.data : y.data[i] >= 0)

(* What a pass answers, and that it refuses, is what its pairs one by one    *)
(* answer and are framed to: no element's type, overflow, order of boxes or  *)
(* run of a repeated side leaks into another's.  A machine integer in the    *)
(* answer is one: nothing wraps.                                             *)
PassIsItsPairs ==
  \A x \in Flavours(ToRows(alpha)) : \A y \in Flavours(ToRows(omega)) : \A op \in Comparisons \cup Arithmetic :
    LET p == Agree(x.shape, y.shape)
        whole == ScalarDyad(op, TRUE, x, y)
        one == [i \in 1 .. p.n |-> ScalarDyad(op, TRUE, Atom(x, (i - 1) \div p.xdiv), Atom(y, (i - 1) \div p.ydiv))]
    IN  ~Refused(p) /\ p.n > 0 /\ Affordable(op, x, y) =>
          IF AnyRefused(one) THEN Refused(whole)
          ELSE /\ Same(whole, FramePervaded(p.frame, [i \in DOMAIN one |-> OpenCell(one[i])]))
               /\ whole.type = "int" => ToSet(whole.data) \subseteq Machine

(* The same of one argument, which keeps its shape and, simple, its layout. *)
MonadIsItsElements ==
  \A y \in Flavours(omega) : \A op \in Monads :
    LET rows == ToRows(y)
        whole == ScalarMonad(op, rows)
        one == [i \in 1 .. Count(y) |-> ScalarMonad(op, Atom(rows, i - 1))]
    IN  /\ Count(y) > 0 =>
             IF AnyRefused(one) THEN Refused(whole)
             ELSE /\ Same(whole, FramePervaded(y.shape, [i \in DOMAIN one |-> OpenCell(one[i])]))
                  /\ y.type # "box" => Same(ScalarMonad(op, y), whole)
        /\ ~Refused(whole) => whole.shape = y.shape

(* However many threads share a pass out, wherever its chunks begin and end  *)
(* in the runs of a repeated side, it pairs the same elements; and the two   *)
(* layouts of a table are one argument to it, where nothing is boxed.        *)
PassesShareOut ==
  LET x == ToRows(alpha) y == ToRows(omega) p == Agree(x.shape, y.shape)
  IN  /\ ~Refused(p) => \A size \in 1 .. p.n :
           PairsByChunks(x, p.xdiv, y, p.ydiv, p.n, size)
             = [i \in 1 .. p.n |-> <<x.data[(i - 1) \div p.xdiv + 1], y.data[(i - 1) \div p.ydiv + 1]>>]
      /\ "box" \notin {x.type, y.type} => \A op \in {"Sub", "Lt"} : \A l, r \in BOOLEAN :
           LET here == DyadEntry(op, FALSE, LaidOut(x, l), LaidOut(y, r))
               there == ScalarDyad(op, FALSE, ToRows(LaidOut(x, l)), ToRows(LaidOut(y, r)))
           IN  Refused(here) = Refused(there) /\ (~Refused(here) => Same(here, there))

(* An elementwise verb is its pairs. *)
PassesAreElementwise ==
  [][(PassIsItsPairs /\ MonadIsItsElements /\ PassesShareOut)]_given
=============================================================================
