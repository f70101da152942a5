------------------------------ MODULE Buffers ------------------------------
(***************************************************************************)
(* Element storage: Buf of array.rs.  A buffer is nothing, one element     *)
(* held in place, a whole refcounted vector, a window over one, memory the *)
(* host lent, or two buffers end to end whose join is made on demand and   *)
(* shared by every clone.  Cloning and slicing copy nothing; writing copies*)
(* what is not this buffer's alone.  Dropping the last holder of a lent    *)
(* block gives it back, and the host may then write to it.                 *)
(*                                                                         *)
(* The parts of a join are the columns of a table as the host lent them    *)
(* (Data::join has no other caller), so no part is a join itself.          *)
(***************************************************************************)
EXTENDS Integers, Sequences, FiniteSets, SequencesExt

CONSTANTS Names,      \* the buffers there may be
          Elements,   \* element values
          Vectors,    \* bound: the vectors buffers are made from
          Blocks,     \* blocks of memory the host may lend
          Allocs,     \* bound: vectors alive at once
          Joins,      \* bound: joins alive at once
          LEN,        \* bound: elements in one buffer
          STEPS,      \* bound: operations in a run
          None

ASSUME BuffersAssumption ==
  /\ {LEN, STEPS} \subseteq Nat \ {0}
  /\ \A s \in Vectors : s \in Seq(Elements) /\ Len(s) <= LEN
  /\ IsFiniteSet(Names) /\ IsFiniteSet(Joins)

VARIABLES fits,    \* fits_inline, of the element type
          buf,     \* the buffer each name holds
          heap,    \* the vectors alive
          joins,   \* the parts and the flat form of the joins alive
          block,   \* what the host's memory holds
          call,    \* the call just made
          steps

vars == <<fits, buf, heap, joins, block, call, steps>>

Empty            == [is |-> "empty"]
One(e)           == [is |-> "one", elem |-> e]
Owned(a)         == [is |-> "owned", vec |-> a]
Slice(a, o, n)   == [is |-> "slice", vec |-> a, off |-> o, len |-> n]
Foreign(b, o, n, w) == [is |-> "foreign", ptr |-> b, off |-> o, len |-> n, owner |-> w]
Cols(j)          == [is |-> "cols", join |-> j]

ASSUME NoneAssumption ==
  /\ None \notin Allocs
  /\ None # Empty /\ \A e \in Elements : None # One(e)
  /\ \A a \in Allocs : None # Owned(a) /\ \A o, n \in 0 .. LEN : None # Slice(a, o, n)
  /\ \A p \in Blocks, o, n \in 0 .. LEN : None # Foreign(p, o, n, p)
  /\ \A j \in Joins : None # Cols(j)

Quiet == [op |-> "none"]

Init ==
  /\ fits \in BOOLEAN
  /\ buf = [n \in Names |-> None]
  /\ heap = <<>> /\ joins = <<>>
  /\ steps = 0 /\ call = Quiet
  /\ block \in [Blocks -> {s \in Vectors : Len(s) = LEN}]
-----------------------------------------------------------------------------
(* as_slice: what a buffer's elements are. *)
Plain(b) ==
  CASE b.is = "empty"   -> <<>>
    [] b.is = "one"     -> <<b.elem>>
    [] b.is = "owned"   -> heap[b.vec]
    [] b.is = "slice"   -> SubSeq(heap[b.vec], b.off + 1, b.off + b.len)
    [] b.is = "foreign" -> SubSeq(block[b.ptr], b.off + 1, b.off + b.len)

Joined(c)  == IF c.flat # None THEN heap[c.flat] ELSE Plain(c.parts[1]) \o Plain(c.parts[2])
AsSlice(b) == IF b.is = "cols" THEN Joined(joins[b.join]) ELSE Plain(b)

Length(b) == Len(AsSlice(b))

(* The buffers there are: those named and the parts of their joins.        *)
Named(bufs)    == {bufs[n] : n \in {m \in Names : bufs[m] # None}}
Held(bufs)     == {b.join : b \in {c \in Named(bufs) : c.is = "cols"}}
Live(bufs, js) == Named(bufs) \cup {js[j].parts[i] : j \in Held(bufs), i \in {1, 2}}

(* How many hold a vector: names, parts and joins that have been made.     *)
Holders(a, bufs, js) ==
  LET named == {n \in Names : bufs[n] # None /\ bufs[n].is \in {"owned", "slice"} /\ bufs[n].vec = a}
      parts == {p \in (DOMAIN js) \X {1, 2} :
                  LET b == js[p[1]].parts[p[2]] IN b.is \in {"owned", "slice"} /\ b.vec = a}
      flats == {j \in DOMAIN js : js[j].flat = a}
  IN  Cardinality(named) + Cardinality(parts) + Cardinality(flats)

(* A block is lent for as long as a buffer has its owner. *)
Lent(b) == \E c \in Live(buf, joins) : c.is = "foreign" /\ c.owner = b

(* What is left once the last holder of anything has gone. *)
Become(bufs, h, js) ==
  LET kept == [j \in Held(bufs) |-> js[j]] IN
  /\ buf' = bufs
  /\ joins' = kept
  /\ heap' = [a \in {a \in DOMAIN h : Holders(a, bufs, kept) > 0} |-> h[a]]

FreshVec  == CHOOSE a \in Allocs : a \notin DOMAIN heap
FreshJoin == CHOOSE j \in Joins : j \notin DOMAIN joins
With(f, k, v) == [x \in DOMAIN f \cup {k} |-> IF x = k THEN v ELSE f[x]]
Room      == Allocs \ DOMAIN heap # {}
-----------------------------------------------------------------------------
FromVec(n) ==
  \E s \in Vectors :
    /\ call' = [op |-> "make", on |-> n, elems |-> s]
    /\ CASE s = <<>>            -> Become([buf EXCEPT ![n] = Empty], heap, joins)
         [] Len(s) = 1 /\ fits  -> Become([buf EXCEPT ![n] = One(s[1])], heap, joins)
         [] OTHER -> /\ Room
                     /\ Become([buf EXCEPT ![n] = Owned(FreshVec)], With(heap, FreshVec, s), joins)
    /\ UNCHANGED <<fits, block>>

Borrow(n) ==
  \E b \in Blocks, len \in 0 .. LEN :
    /\ call' = [op |-> "make", on |-> n, elems |-> SubSeq(block[b], 1, len)]
    /\ Become([buf EXCEPT ![n] = Foreign(b, 0, len, b)], heap, joins)
    /\ UNCHANGED <<fits, block>>

Clone(n, m) ==
  /\ buf[m] # None /\ call' = [op |-> "clone", on |-> n, of |-> m]
  /\ Become([buf EXCEPT ![n] = buf[m]], heap, joins)
  /\ UNCHANGED <<fits, block>>

Drop(n) ==
  /\ buf[n] # None /\ call' = [op |-> "drop", on |-> n]
  /\ Become([buf EXCEPT ![n] = None], heap, joins)
  /\ UNCHANGED <<fits, block>>

(* join: nothing is copied, so nothing is read. *)
Join(n, l, m) ==
  /\ \A p \in {l, m} : buf[p] # None /\ buf[p].is # "cols"
  /\ Joins \ DOMAIN joins # {}
  /\ Length(buf[l]) + Length(buf[m]) <= LEN
  /\ call' = [op |-> "join", on |-> n, of |-> l, with |-> m]
  /\ Become([buf EXCEPT ![n] = Cols(FreshJoin)], heap,
            With(joins, FreshJoin, [parts |-> <<buf[l], buf[m]>>, flat |-> None]))
  /\ UNCHANGED <<fits, block>>

(* get_or_init, the first time a reader asks for the flat form of a join.  *)
Made(b) == b.is = "cols" => joins[b.join].flat # None

MakeJoinAgain(j) == \* mutant of MakeJoin: each reader makes its own
  /\ Room /\ call' = Quiet
  /\ Become(buf, With(heap, FreshVec, AsSlice(Cols(j))), [joins EXCEPT ![j].flat = FreshVec])
  /\ UNCHANGED <<fits, block>>

MakeJoin(j) ==
  /\ joins[j].flat = None
  /\ Room /\ call' = Quiet
  /\ Become(buf, With(heap, FreshVec, AsSlice(Cols(j))), [joins EXCEPT ![j].flat = FreshVec])
  /\ UNCHANGED <<fits, block>>

(* slice: a view whatever the buffer is.  A range inside one part of a     *)
(* join not made yet is that part's; any other reads the join.             *)
SliceOfForeignUnowned(b, i, k) == Foreign(b.ptr, b.off + i, k - i, None) \* mutant of SliceOfForeign
SliceOfForeign(b, i, k) == Foreign(b.ptr, b.off + i, k - i, b.owner)

WindowMisplaced(b, i, k) == Slice(b.vec, i, k - i)  \* mutant of Window: where it starts is lost
Window(b, i, k) == Slice(b.vec, b.off + i, k - i)
Part(a, i, k) == IF i = 0 /\ k = Len(heap[a]) THEN Owned(a) ELSE Slice(a, i, k - i)

PlainSliced(b, i, k) ==
  CASE b.is \in {"empty", "one"} -> IF i = k THEN Empty ELSE b
    [] b.is = "owned"   -> Part(b.vec, i, k)
    [] b.is = "slice"   -> Window(b, i, k)
    [] b.is = "foreign" -> SliceOfForeign(b, i, k)

JoinSliced(c, i, k) ==
  LET n == Len(Plain(c.parts[1])) IN
  CASE c.flat # None          -> Part(c.flat, i, k)
    [] c.flat = None /\ k <= n -> PlainSliced(c.parts[1], i, k)
    [] c.flat = None /\ k > n /\ i >= n -> PlainSliced(c.parts[2], i - n, k - n)
    [] OTHER                  -> None \* it reads the join first (MakeJoin)

Sliced(b, i, k) == IF b.is = "cols" THEN JoinSliced(joins[b.join], i, k) ELSE PlainSliced(b, i, k)

SliceOf(n, m) ==
  /\ buf[m] # None
  /\ \E i \in 0 .. Length(buf[m]) : \E k \in i .. Length(buf[m]) :
       /\ Sliced(buf[m], i, k) # None
       /\ call' = [op |-> "slice", on |-> n, of |-> m, from |-> i, upto |-> k]
       /\ Become([buf EXCEPT ![n] = Sliced(buf[m], i, k)], heap, joins)
  /\ UNCHANGED <<fits, block>>

(* to_mut: a whole vector of this buffer's own, copied where it was not.   *)
SoleWhole(b)  == b.is = "owned"                                      \* mutant of SoleOwner
SoleOwner(b) == b.is = "owned" /\ Holders(b.vec, buf, joins) = 1

Write(n, s) ==
  /\ Made(buf[n])
  /\ IF SoleOwner(buf[n])
     THEN Become(buf, [heap EXCEPT ![buf[n].vec] = s], joins)
     ELSE Room /\ Become([buf EXCEPT ![n] = Owned(FreshVec)], With(heap, FreshVec, s), joins)
  /\ UNCHANGED <<fits, block>>

Push(n) == /\ buf[n] # None /\ Length(buf[n]) < LEN
           /\ \E e \in Elements : /\ call' = [op |-> "push", on |-> n, elem |-> e]
                                  /\ Write(n, Append(AsSlice(buf[n]), e))
Set(n)  == /\ buf[n] # None
           /\ \E i \in 1 .. Length(buf[n]), e \in Elements :
                /\ call' = [op |-> "set", on |-> n, at |-> i, elem |-> e]
                /\ Write(n, [AsSlice(buf[n]) EXCEPT ![i] = e])

(* into_vec and back: the vector is moved out where it is this buffer's.   *)
IntoVec(n) ==
  /\ buf[n] # None /\ Made(buf[n]) /\ call' = [op |-> "move", on |-> n]
  /\ LET s == AsSlice(buf[n]) IN
     CASE s = <<>>           -> Become([buf EXCEPT ![n] = Empty], heap, joins)
       [] Len(s) = 1 /\ fits -> Become([buf EXCEPT ![n] = One(s[1])], heap, joins)
       [] SoleOwner(buf[n])  -> Become(buf, heap, joins)
       [] OTHER -> Room /\ Become([buf EXCEPT ![n] = Owned(FreshVec)], With(heap, FreshVec, s), joins)
  /\ UNCHANGED <<fits, block>>

(* The host writes to memory it has been given back. *)
Reuse(b) ==
  /\ ~Lent(b) /\ call' = Quiet
  /\ \E i \in 1 .. LEN, e \in Elements : block' = [block EXCEPT ![b][i] = e]
  /\ UNCHANGED <<fits, buf, heap, joins>>

Operation ==
  \/ \E n \in Names : FromVec(n) \/ Borrow(n) \/ Drop(n) \/ Push(n) \/ Set(n) \/ IntoVec(n)
  \/ \E n, m \in Names : Clone(n, m) \/ SliceOf(n, m)
  \/ \E n, l, m \in Names : Join(n, l, m)
  \/ \E j \in DOMAIN joins : MakeJoin(j)
  \/ \E b \in Blocks : Reuse(b)

Next == steps < STEPS /\ steps' = steps + 1 /\ Operation

Spec == Init /\ [][Next]_vars
-----------------------------------------------------------------------------
(* Every buffer there is names storage that is there, and a window lies    *)
(* within it.  None is none of them.                                       *)
Plains(h) ==
  {Empty} \cup {One(e) : e \in Elements} \cup {Owned(a) : a \in DOMAIN h}
    \cup {b \in {Slice(a, o, n) : a \in DOMAIN h, o \in 0 .. LEN, n \in 0 .. LEN} :
           b.off + b.len <= Len(h[b.vec])}
    \cup {b \in {Foreign(p, o, n, p) : p \in Blocks, o \in 0 .. LEN, n \in 0 .. LEN} :
           b.off + b.len <= LEN}

TypeOK ==
  /\ buf \in [Names -> {None} \cup Plains(heap) \cup {Cols(j) : j \in DOMAIN joins}]
  /\ DOMAIN heap \subseteq Allocs
  /\ \A a \in DOMAIN heap : heap[a] \in Seq(Elements) /\ Len(heap[a]) <= LEN
  /\ DOMAIN joins \subseteq Joins
  /\ \A j \in DOMAIN joins : joins[j] \in [parts : Plains(heap) \X Plains(heap),
                                         flat : {None} \cup DOMAIN heap]
  /\ block \in [Blocks -> {s \in Seq(Elements) : Len(s) = LEN}]

(* Cloning, slicing, joining and writing through shared memory are what    *)
(* they would be on private sequences: no write reaches another buffer, no *)
(* window is misplaced, no memory is read after it has been given back.    *)
Private == INSTANCE PrivateValues WITH
             value <- [n \in Names |-> IF buf[n] = None THEN None ELSE AsSlice(buf[n])]
ImplementsPrivate == Private!Spec

(* A join is made once for all its clones and never again or differently   *)
(* ("made at most once however many clones ask for it").                   *)
JoinMadeOnce ==
  [][\A j \in DOMAIN joins \cap DOMAIN joins' :
       /\ joins'[j].parts = joins[j].parts
       /\ joins[j].flat # None =>
            joins'[j].flat = joins[j].flat /\ heap'[joins[j].flat] = heap[joins[j].flat]]_vars
=============================================================================
