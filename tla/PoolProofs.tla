------------------------------ MODULE PoolProofs ------------------------------
(***************************************************************************)
(* For any number of threads, any program and any schedule of stolen       *)
(* cells: what a thread counts is what is on its stack; what a program     *)
(* comes to is what it comes to on one thread; and how far its nesting is  *)
(* limited by who runs its cells.                                          *)
(***************************************************************************)
EXTENDS PoolMeaning, SequenceTheorems, FiniteSetTheorems, WellFoundedInduction, TLAPS

(* A stack is a sequence of applications, whatever they have come to. *)
Fields     == {"layer", "path", "begun", "got", "lost", "cell"}
IsStack(s) == \E S : s \in Seq(S) /\ \A f \in S : DOMAIN f = Fields

(* A stack with an application more, with one fewer, with one replaced. *)
Pushes(s, f, r)  == /\ IsStack(r) /\ Len(r) = Len(s) + 1 /\ r[Len(r)] = f
                    /\ \A i \in 1 .. Len(s) : r[i] = s[i]
Pops(s, r)       == /\ IsStack(r) /\ Len(r) = Len(s) - 1
                    /\ \A i \in 1 .. Len(r) : r[i] = s[i]
Puts(s, k, f, r) == /\ IsStack(r) /\ Len(r) = Len(s) /\ r[k] = f
                    /\ \A i \in 1 .. Len(s) : i # k => r[i] = s[i]

(* The folds on a stack, and what FOLD_STOPS may be. *)
Folds(s)   == {i \in 1 .. Len(s) : Kind(s[i]) = "fold"}
Stops      == Seq(Controls \cup {NoStop})

(* Two stacks alike but for what their applications have come to. *)
Alike(s, r) == /\ IsStack(r) /\ Len(r) = Len(s)
               /\ \A i \in 1 .. Len(s) : r[i].layer = s[i].layer /\ r[i].cell = s[i].cell

(* A count and a thread's stops, right for its stack, on which there are   *)
(* cells handed to the pool only if it is a worker.                        *)
TakenBy(t, s)     == \A i \in 1 .. Len(s) : s[i].cell # NoCell => t \in Workers
Right(t, s, n, b) == /\ n = Len(s) /\ n <= MAX_NESTING /\ TakenBy(t, s)
                     /\ b \in Stops /\ Len(b) = Cardinality(Folds(s))

(* The first invariant: NESTING and FOLD_STOPS of each thread are right    *)
(* for its stack.                                                          *)
Counts ==
  /\ DOMAIN stack = Threads /\ DOMAIN nesting = Threads /\ DOMAIN stops = Threads
  /\ \A t \in Threads : IsStack(stack[t]) /\ Right(t, stack[t], nesting[t], stops[t])
  /\ program \in Programs

AllAlike(st, su) == DOMAIN su = Threads /\ \A t \in Threads : Alike(st[t], su[t])

-----------------------------------------------------------------------------
(* Stacks. *)

(* A stack is a sequence of records of the fields of an application. *)
LEMMA StackLength ==
  ASSUME NEW s, IsStack(s)
  PROVE  /\ Len(s) \in Nat /\ DOMAIN s = 1 .. Len(s) /\ (s = <<>> <=> Len(s) = 0)
         /\ \A i \in 1 .. Len(s) : DOMAIN s[i] = Fields
<1>1. PICK S : s \in Seq(S) /\ \A g \in S : DOMAIN g = Fields
  BY DEF IsStack
<1>2. Len(s) \in Nat /\ DOMAIN s = 1 .. Len(s) /\ \A i \in 1 .. Len(s) : s[i] \in S
  BY <1>1
<1>3. Len(s) = 0 => s = <<>>
  BY <1>1, EmptySeq, SeqEqual
<1> QED
  BY <1>1, <1>2, <1>3

(* Append, Front and EXCEPT on stacks are what they are read as. *)
LEMMA PushIs ==
  ASSUME NEW s, IsStack(s), NEW f, DOMAIN f = Fields
  PROVE  Pushes(s, f, Append(s, f))
<1>1. PICK S : s \in Seq(S) /\ \A g \in S : DOMAIN g = Fields
  BY DEF IsStack
<1> DEFINE r == Append(s, f)
<1>2. /\ r \in Seq(S \cup {f}) /\ Len(r) = Len(s) + 1
      /\ r[Len(s) + 1] = f
      /\ \A i \in 1 .. Len(s) : r[i] = s[i]
  BY <1>1
<1> HIDE DEF r
<1>3. IsStack(r)
  BY <1>1, <1>2 DEF IsStack
<1> QED
  BY <1>2, <1>3 DEF Pushes, r

LEMMA PopIs ==
  ASSUME NEW s, IsStack(s), s # <<>>
  PROVE  Pops(s, Front(s))
<1> DEFINE q == SubSeq(s, 1, Len(s) - 1)
<1>1. PICK S : s \in Seq(S) /\ \A g \in S : DOMAIN g = Fields
  BY DEF IsStack
<1>2. Len(s) \in Nat /\ Len(s) > 0
  BY StackLength
<1>3. Front(s) = q
  BY DEF Front
<1>4. 1 \in Int /\ Len(s) - 1 \in Int /\ \A i \in 1 .. Len(s) - 1 : s[i] \in S
  BY <1>1, <1>2
<1>5. /\ q \in Seq(S)
      /\ Len(q) = IF 1 <= Len(s) - 1 THEN (Len(s) - 1) - 1 + 1 ELSE 0
      /\ \A i \in 1 .. (Len(s) - 1) - 1 + 1 : q[i] = s[1 + i - 1]
  BY <1>4, SubSeqProperties
<1> HIDE DEF q
<1>6. Len(q) = Len(s) - 1
  <2> DEFINE l == Len(q)
             n == Len(s)
  <2>1. l = (IF 1 <= n - 1 THEN (n - 1) - 1 + 1 ELSE 0) /\ n \in Nat /\ n > 0
    BY <1>2, <1>5
  <2> HIDE DEF l, n
  <2>2. l = n - 1
    BY <2>1
  <2> QED
    BY <2>2 DEF l, n
<1>7. \A i \in 1 .. Len(q) : q[i] = s[i]
  <2> SUFFICES ASSUME NEW i \in 1 .. Len(q) PROVE q[i] = s[i]
    OBVIOUS
  <2>1. i \in 1 .. (Len(s) - 1) - 1 + 1 /\ 1 + i - 1 = i
    BY <1>2, <1>6
  <2> QED
    BY <1>5, <2>1
<1>8. IsStack(q)
  BY <1>1, <1>5 DEF IsStack
<1> QED
  BY <1>3, <1>6, <1>7, <1>8 DEF Pops

LEMMA PutIs ==
  ASSUME NEW s, IsStack(s), NEW k \in 1 .. Len(s), NEW f, DOMAIN f = Fields
  PROVE  Puts(s, k, f, [s EXCEPT ![k] = f])
<1>1. PICK S : s \in Seq(S) /\ \A g \in S : DOMAIN g = Fields
  BY DEF IsStack
<1>2. /\ [s EXCEPT ![k] = f] \in Seq(S \cup {f})
      /\ Len([s EXCEPT ![k] = f]) = Len(s)
      /\ \A i \in 1 .. Len(s) : [s EXCEPT ![k] = f][i] = IF i = k THEN f ELSE s[i]
  BY <1>1
<1> QED
  BY <1>1, <1>2 DEF Puts, IsStack

(* A stack by the set its applications are from. *)
LEMMA StackOf ==
  ASSUME NEW S, NEW s \in Seq(S), \A f \in S : DOMAIN f = Fields
  PROVE  IsStack(s)
BY DEF IsStack

(* The folds on a stack can be counted. *)
LEMMA FoldsFinite ==
  ASSUME NEW s, IsStack(s)
  PROVE  IsFiniteSet(Folds(s)) /\ Cardinality(Folds(s)) \in Nat
<1>1. IsFiniteSet(1 .. Len(s))
  BY StackLength, FS_Interval
<1>2. Folds(s) \subseteq 1 .. Len(s)
  BY DEF Folds
<1> QED
  BY <1>1, <1>2, FS_Subset, FS_CardinalityType

(* An application begun counts as a fold if it is one. *)
LEMMA Pushed ==
  ASSUME NEW s, IsStack(s), NEW n, NEW path, NEW cell
  PROVE  LET r == Append(s, Application(n, path, cell)) IN
         /\ Pushes(s, Application(n, path, cell), r)
         /\ IsStack(r) /\ Len(r) = Len(s) + 1
         /\ Cardinality(Folds(r)) = Cardinality(Folds(s)) + (IF Layer(n) = "fold" THEN 1 ELSE 0)
<1> DEFINE f == Application(n, path, cell)
           r == Append(s, f)
<1>1. DOMAIN f = Fields /\ f.layer = n
  BY DEF Application, Fields
<1> HIDE DEF f
<1>2. Pushes(s, f, r)
  BY <1>1, PushIs
<1> HIDE DEF r
<1>3. CASE Layer(n) = "fold"
  <2>1. Folds(r) = Folds(s) \cup {Len(s) + 1}
    BY <1>1, <1>2, <1>3, StackLength DEF Folds, Kind, Pushes
  <2>2. Len(s) + 1 \notin Folds(s)
    BY StackLength DEF Folds
  <2> QED
    BY <1>2, <1>3, <2>1, <2>2, FoldsFinite, FS_AddElement DEF Pushes, r, f
<1>4. CASE Layer(n) # "fold"
  <2>1. Folds(r) = Folds(s)
    BY <1>1, <1>2, <1>4, StackLength DEF Folds, Kind, Pushes
  <2> QED
    BY <1>2, <1>4, <2>1, FoldsFinite DEF Pushes, r, f
<1> QED
  BY <1>3, <1>4

(* So does one that ends. *)
LEMMA Popped ==
  ASSUME NEW s, IsStack(s), s # <<>>
  PROVE  /\ IsStack(Front(s)) /\ Len(Front(s)) = Len(s) - 1
         /\ Pops(s, Front(s))
         /\ Cardinality(Folds(Front(s)))
              = Cardinality(Folds(s)) - (IF Kind(s[Len(s)]) = "fold" THEN 1 ELSE 0)
<1> DEFINE r == Front(s)
<1>1. Pops(s, r)
  BY PopIs
<1>2. Len(s) \in Nat /\ Len(s) > 0
  BY StackLength
<1> HIDE DEF r
<1>3. CASE Kind(s[Len(s)]) = "fold"
  <2>1. Folds(r) = Folds(s) \ {Len(s)}
    BY <1>1, <1>2, <1>3 DEF Folds, Pops
  <2>2. Len(s) \in Folds(s)
    BY <1>2, <1>3 DEF Folds
  <2> QED
    BY <1>1, <1>3, <2>1, <2>2, FoldsFinite, FS_RemoveElement DEF Pops, r
<1>4. CASE Kind(s[Len(s)]) # "fold"
  <2>1. Folds(r) = Folds(s)
    BY <1>1, <1>2, <1>4 DEF Folds, Pops
  <2> QED
    BY <1>1, <1>4, <2>1, FoldsFinite DEF Pops, r
<1> QED
  BY <1>3, <1>4

(* Stacks alike have the same folds; alike is reflexive and transitive. *)
LEMMA AlikeFolds ==
  ASSUME NEW s, NEW r, Alike(s, r)
  PROVE  Folds(r) = Folds(s)
BY DEF Alike, Folds, Kind

LEMMA AlikeItself == ASSUME NEW s, IsStack(s) PROVE Alike(s, s)
BY DEF Alike

LEMMA AlikeTransitive ==
  ASSUME NEW s, NEW r, NEW q, Alike(s, r), Alike(r, q)
  PROVE  Alike(s, q)
BY DEF Alike

(* An application put in the place of another of its layer. *)
LEMMA ReplacedAlike ==
  ASSUME NEW s, IsStack(s), NEW k \in 1 .. Len(s), NEW f, DOMAIN f = Fields,
         f.layer = s[k].layer, f.cell = s[k].cell
  PROVE  Alike(s, [s EXCEPT ![k] = f])
<1>1. Puts(s, k, f, [s EXCEPT ![k] = f])
  BY PutIs
<1> QED
  BY <1>1 DEF Alike, Puts

(* An answer put among those an application waits for. *)
LEMMA GotAlike ==
  ASSUME NEW s, IsStack(s), NEW k, NEW i, NEW v
  PROVE  Alike(s, [s EXCEPT ![k].got[i] = v])
<1> DEFINE f == [s[k] EXCEPT !.got[i] = v]
<1>1. [s EXCEPT ![k].got[i] = v] = [s EXCEPT ![k] = f]
  OBVIOUS
<1>2. CASE k \in 1 .. Len(s)
  <2>1. DOMAIN s[k] = Fields
    BY <1>2 DEF IsStack
  <2>2. DOMAIN f = Fields /\ f.layer = s[k].layer /\ f.cell = s[k].cell
    BY <2>1 DEF Fields
  <2> HIDE DEF f
  <2> QED
    BY <1>1, <1>2, <2>2, ReplacedAlike
<1>3. CASE k \notin 1 .. Len(s)
  <2>1. PICK S : s \in Seq(S)
    BY DEF IsStack
  <2>2. [s EXCEPT ![k] = f] = s
    BY <1>3, <2>1
  <2> QED
    BY <1>1, <2>2, AlikeItself
<1> QED
  BY <1>2, <1>3

-----------------------------------------------------------------------------
(* An answer, wherever it goes, begins and ends nothing. *)
LEMMA AnsweringAlike ==
  ASSUME NEW st, DOMAIN st = Threads, \A u \in Threads : IsStack(st[u]),
         NEW t, NEW v, NEW cell, Answering(st, t, v, cell)
  PROVE  AllAlike(st, stack')
<1>1. CASE stack' = st
  BY <1>1, AlikeItself DEF AllAlike
<1>2. CASE stack' = [st EXCEPT ![cell[1]][cell[2]].got[cell[3]] = v]
  <2> DEFINE s == [st[cell[1]] EXCEPT ![cell[2]].got[cell[3]] = v]
  <2>1. stack' = [st EXCEPT ![cell[1]] = s]
    BY <1>2
  <2>2. cell[1] \in Threads => Alike(st[cell[1]], s)
    BY GotAlike
  <2> HIDE DEF s
  <2> QED
    BY <2>1, <2>2, AlikeItself DEF AllAlike
<1> QED
  BY <1>1, <1>2 DEF Answering

(* The invariant from what it says of each thread. *)
LEMMA CountsRebuilt ==
  ASSUME Counts, program' = program, DOMAIN stack' = Threads, DOMAIN nesting' = Threads, DOMAIN stops' = Threads,
         \A u \in Threads : IsStack(stack'[u]) /\ Right(u, stack'[u], nesting'[u], stops'[u])
  PROVE  Counts'
BY DEF Counts, Right, TakenBy, Folds, Kind, Layer

(* Nothing is begun and nothing ends. *)
LEMMA AlikeCounts ==
  ASSUME Counts, program' = program, AllAlike(stack, stack'), nesting' = nesting, DOMAIN stops' = Threads,
         \A u \in Threads : stops'[u] \in Stops /\ Len(stops'[u]) = Len(stops[u])
  PROVE  Counts'
<1>1. \A u \in Threads : IsStack(stack'[u]) /\ Right(u, stack'[u], nesting'[u], stops'[u])
  <2> SUFFICES ASSUME NEW u \in Threads
               PROVE  IsStack(stack'[u]) /\ Right(u, stack'[u], nesting'[u], stops'[u])
    OBVIOUS
  <2>1. Alike(stack[u], stack'[u]) /\ Right(u, stack[u], nesting[u], stops[u])
    BY DEF Counts, AllAlike
  <2>2. IsStack(stack'[u]) /\ Len(stack'[u]) = Len(stack[u]) /\ TakenBy(u, stack'[u])
    BY <2>1 DEF Alike, Right, TakenBy
  <2>3. Folds(stack'[u]) = Folds(stack[u])
    BY <2>1, AlikeFolds
  <2> QED
    BY <2>1, <2>2, <2>3 DEF Right
<1> QED
  BY <1>1, CountsRebuilt DEF Counts, AllAlike

(* Enter begins an application and counts it, or begins nothing. *)
LEMMA EnterCounts ==
  ASSUME Counts, program' = program, NEW st, AllAlike(stack, st),
         NEW t \in Threads, NEW n, NEW path, NEW cell, cell # NoCell => t \in Workers,
         Enter(st, t, n, path, cell)
  PROVE  Counts'
<1>0. /\ DOMAIN st = Threads
      /\ \A u \in Threads : /\ IsStack(st[u]) /\ Len(st[u]) = Len(stack[u])
                            /\ Folds(st[u]) = Folds(stack[u]) /\ TakenBy(u, st[u])
  BY AlikeFolds DEF AllAlike, Alike, Counts, Right, TakenBy
<1>1. CASE nesting[t] < MAX_NESTING
  <2> DEFINE r == Append(st[t], Application(n, path, cell))
  <2>1. /\ stack' = [st EXCEPT ![t] = r]
        /\ nesting' = [nesting EXCEPT ![t] = @ + 1]
        /\ stops' = IF Layer(n) = "fold" THEN [stops EXCEPT ![t] = Append(@, NoStop)] ELSE stops
    BY <1>1 DEF Enter
  <2>2. /\ Pushes(st[t], Application(n, path, cell), r)
        /\ IsStack(r) /\ Len(r) = Len(st[t]) + 1
        /\ Cardinality(Folds(r)) = Cardinality(Folds(st[t])) + (IF Layer(n) = "fold" THEN 1 ELSE 0)
    BY <1>0, Pushed
  <2> HIDE DEF r
  <2>3. Right(t, r, nesting'[t], stops'[t])
    <3>1. /\ nesting[t] = Len(stack[t]) /\ stops[t] \in Stops
          /\ Len(stops[t]) = Cardinality(Folds(stack[t]))
      BY DEF Counts, Right
    <3>2. nesting'[t] = nesting[t] + 1
      BY <2>1 DEF Counts
    <3>3. stops'[t] = IF Layer(n) = "fold" THEN Append(stops[t], NoStop) ELSE stops[t]
      BY <2>1 DEF Counts
    <3>4. stops'[t] \in Stops /\ Len(stops'[t]) = Len(stops[t]) + (IF Layer(n) = "fold" THEN 1 ELSE 0)
      BY <3>1, <3>3 DEF Stops
    <3>5. TakenBy(t, r)
      <4>1. Application(n, path, cell).cell = cell
        BY DEF Application
      <4> QED
        BY <1>0, <2>2, <4>1, StackLength DEF Pushes, TakenBy
    <3>6. nesting[t] + 1 <= MAX_NESTING
      BY <1>0, <1>1, <3>1, StackLength, PoolAssumption
    <3> QED
      BY <1>0, <2>2, <3>1, <3>2, <3>4, <3>5, <3>6 DEF Right
  <2>4. \A u \in Threads \ {t} : /\ stack'[u] = st[u] /\ nesting'[u] = nesting[u]
                                 /\ stops'[u] = stops[u]
    BY <1>0, <2>1 DEF Counts
  <2>5. \A u \in Threads : IsStack(stack'[u]) /\ Right(u, stack'[u], nesting'[u], stops'[u])
    BY <1>0, <2>1, <2>2, <2>3, <2>4 DEF Counts, Right
  <2> QED
    BY <1>0, <2>1, <2>5, CountsRebuilt DEF Counts
<1>2. CASE ~(nesting[t] < MAX_NESTING)
  <2>1. Answering(st, t, Bad("limit", <<>>), cell) /\ UNCHANGED <<nesting, stops>>
    BY <1>2 DEF Enter
  <2>2. AllAlike(stack, stack')
    BY <1>0, <2>1, AnsweringAlike, AlikeTransitive DEF AllAlike
  <2> QED
    BY <2>1, <2>2, AlikeCounts DEF Counts, Right
<1> QED
  BY <1>1, <1>2

(* The innermost application of t ends, and with a fold goes its stop. *)
LEMMA PopCounts ==
  ASSUME Counts, program' = program, NEW t \in Threads, stack[t] # <<>>,
         NEW v, NEW cell, Answering([stack EXCEPT ![t] = Front(@)], t, v, cell),
         nesting' = [nesting EXCEPT ![t] = @ - 1],
         DOMAIN stops' = Threads, \A u \in Threads \ {t} : stops'[u] = stops[u], stops'[t] \in Stops,
         Len(stops'[t]) = Len(stops[t]) - (IF Kind(Top(t)) = "fold" THEN 1 ELSE 0)
  PROVE  Counts'
<1> DEFINE st == [stack EXCEPT ![t] = Front(@)]
<1>1. /\ DOMAIN st = Threads /\ st[t] = Front(stack[t])
      /\ \A u \in Threads \ {t} : st[u] = stack[u]
  BY DEF Counts
<1>2. /\ IsStack(st[t]) /\ Len(st[t]) = Len(stack[t]) - 1
      /\ Cardinality(Folds(st[t]))
           = Cardinality(Folds(stack[t])) - (IF Kind(Top(t)) = "fold" THEN 1 ELSE 0)
      /\ Pops(stack[t], st[t])
  BY <1>1, Popped DEF Counts, Top
<1>3. AllAlike(st, stack')
  BY <1>1, <1>2, AnsweringAlike DEF Counts
<1> HIDE DEF st
<1>4. /\ DOMAIN stack' = Threads
      /\ \A u \in Threads : /\ IsStack(stack'[u]) /\ Len(stack'[u]) = Len(st[u])
                            /\ Folds(stack'[u]) = Folds(st[u])
  BY <1>3, AlikeFolds DEF AllAlike, Alike
<1>5. \A u \in Threads : TakenBy(u, stack'[u])
  <2> SUFFICES ASSUME NEW u \in Threads, NEW i \in 1 .. Len(stack'[u]), stack'[u][i].cell # NoCell
               PROVE  u \in Workers
    BY DEF TakenBy
  <2>1. i \in 1 .. Len(st[u]) /\ st[u][i].cell # NoCell
    BY <1>3 DEF AllAlike, Alike
  <2>2. i \in 1 .. Len(stack[u]) /\ stack[u][i].cell = st[u][i].cell
    <3>1. CASE u = t
      <4>1. Len(stack[t]) \in Nat
        BY StackLength DEF Counts
      <4>2. Len(st[t]) = Len(stack[t]) - 1 /\ st[t][i] = stack[t][i]
        BY <1>2, <2>1, <3>1 DEF Pops
      <4> QED
        BY <2>1, <3>1, <4>1, <4>2
    <3>2. CASE u # t
      BY <1>1, <2>1, <3>2
    <3> QED
      BY <3>1, <3>2
  <2> QED
    BY <2>1, <2>2 DEF Counts, Right, TakenBy
<1>6. Len(stack[t]) \in Nat /\ MAX_NESTING \in Nat
  BY StackLength, PoolAssumption DEF Counts
<1>7. Right(t, stack'[t], nesting'[t], stops'[t])
  BY <1>2, <1>4, <1>5, <1>6 DEF Counts, Right
<1>8. \A u \in Threads \ {t} : Right(u, stack'[u], nesting'[u], stops'[u])
  BY <1>1, <1>4, <1>5 DEF Counts, Right
<1>9. \A u \in Threads : IsStack(stack'[u]) /\ Right(u, stack'[u], nesting'[u], stops'[u])
  BY <1>4, <1>7, <1>8
<1> QED
  BY <1>4, <1>9, CountsRebuilt DEF Counts

(* Leave, of a fold or of anything else. *)
LEMMA LeaveCounts ==
  ASSUME Counts, program' = program, NEW t \in Threads, stack[t] # <<>>, NEW v, Leave(t, v)
  PROVE  Counts'
<1>1. stops[t] \in Stops /\ Len(stops[t]) = Cardinality(Folds(stack[t])) /\ IsStack(stack[t])
  BY DEF Counts, Right
<1>2. stops' = IF Kind(Top(t)) = "fold" THEN [stops EXCEPT ![t] = Front(@)] ELSE stops
  BY DEF Leave, On
<1>3. Kind(Top(t)) = "fold" => Len(stops[t]) > 0
  BY <1>1, Popped, FoldsFinite DEF Top, IsStack
<1>4. Kind(Top(t)) = "fold" => Front(stops[t]) \in Stops /\ Len(Front(stops[t])) = Len(stops[t]) - 1
  BY <1>1, <1>3 DEF Front, Stops
<1>5. /\ DOMAIN stops' = Threads /\ \A u \in Threads \ {t} : stops'[u] = stops[u]
      /\ stops'[t] = IF Kind(Top(t)) = "fold" THEN Front(stops[t]) ELSE stops[t]
  BY <1>2 DEF Counts
<1>6. /\ stops'[t] \in Stops
      /\ Len(stops'[t]) = Len(stops[t]) - (IF Kind(Top(t)) = "fold" THEN 1 ELSE 0)
  BY <1>1, <1>4, <1>5 DEF Stops
<1> QED
  BY <1>5, <1>6, PopCounts DEF Leave

-----------------------------------------------------------------------------
(* Nothing has begun at first, and nothing is counted. *)
LEMMA InitCounts == Init => Counts
<1> SUFFICES ASSUME Init PROVE Counts
  OBVIOUS
<1>1. IsStack(<<>>)
  <2> DEFINE S == {f \in {0} : DOMAIN f = Fields}
  <2>1. <<>> \in Seq(S) /\ \A f \in S : DOMAIN f = Fields
    BY EmptySeq
  <2> HIDE DEF S
  <2>2. \E s : s = <<>> /\ s \in Seq(S)
    BY <2>1
  <2> QED
    BY <2>1, <2>2, StackOf
<1>2. \A t \in Threads : Right(t, <<>>, 0, <<>>)
  <2>1. Folds(<<>>) = {}
    BY DEF Folds
  <2>2. Cardinality(Folds(<<>>)) = 0
    BY <2>1, FS_EmptySet
  <2>3. \A t : TakenBy(t, <<>>)
    BY DEF TakenBy
  <2>4. 0 <= MAX_NESTING
    BY PoolAssumption
  <2> QED
    BY <2>2, <2>3, <2>4 DEF Right, Stops
<1> QED
  BY <1>1, <1>2 DEF Init, Counts

(* An application changed in place on top of t. *)
LEMMA ChangedAlike ==
  ASSUME Counts, NEW t \in Threads, stack[t] # <<>>,
         NEW f, DOMAIN f = Fields, f.layer = Top(t).layer, f.cell = Top(t).cell
  PROVE  AllAlike(stack, Changed(t, f))
<1>1. IsStack(stack[t]) /\ Len(stack[t]) \in 1 .. Len(stack[t])
  BY DEF Counts, IsStack
<1>2. Alike(stack[t], [stack[t] EXCEPT ![Len(stack[t])] = f])
  BY <1>1, ReplacedAlike DEF Top
<1>3. Changed(t, f) = [stack EXCEPT ![t] = [stack[t] EXCEPT ![Len(stack[t])] = f]]
  BY DEF Changed
<1> QED
  BY <1>2, <1>3, AlikeItself DEF AllAlike, Counts

(* One that is begun, got or lost otherwise is still of its layer. *)
LEMMA TopFields ==
  ASSUME Counts, NEW t \in Threads, stack[t] # <<>>, NEW x, NEW y
  PROVE  /\ DOMAIN [Top(t) EXCEPT !.begun = x] = Fields
         /\ [Top(t) EXCEPT !.begun = x].layer = Top(t).layer
         /\ [Top(t) EXCEPT !.begun = x].cell = Top(t).cell
         /\ DOMAIN [Top(t) EXCEPT !.got = x] = Fields
         /\ [Top(t) EXCEPT !.got = x].layer = Top(t).layer
         /\ [Top(t) EXCEPT !.got = x].cell = Top(t).cell
         /\ DOMAIN [Top(t) EXCEPT !.begun = x, !.got = y] = Fields
         /\ [Top(t) EXCEPT !.begun = x, !.got = y].layer = Top(t).layer
         /\ [Top(t) EXCEPT !.begun = x, !.got = y].cell = Top(t).cell
         /\ DOMAIN [Top(t) EXCEPT !.got = x, !.lost = y] = Fields
         /\ [Top(t) EXCEPT !.got = x, !.lost = y].layer = Top(t).layer
         /\ [Top(t) EXCEPT !.got = x, !.lost = y].cell = Top(t).cell
<1>1. DOMAIN Top(t) = Fields
  BY DEF Counts, IsStack, Top
<1> QED
  BY <1>1 DEF Fields

(* Each step of a thread keeps the first invariant. *)
LEMMA StepCounts ==
  ASSUME Counts, NEW t \in Threads, Step(t)
  PROVE  Counts'
<1>0. /\ \A u \in Threads : stops[u] \in Stops
      /\ DOMAIN stops = Threads
      /\ AllAlike(stack, stack)
  BY AlikeItself DEF Counts, Right, AllAlike
<1>1. CASE Run(t)
  BY <1>0, <1>1, EnterCounts DEF Run
<1>2. CASE Finish(t)
  BY <1>0, <1>2, AlikeCounts DEF Finish
<1>3. CASE Apply(t)
  BY <1>3, LeaveCounts DEF Apply, On
<1>4. ASSUME NEW k, NEW most, Inner(t, k, most)
      PROVE  Counts'
  <2>1. AllAlike(stack, Changed(t, [Top(t) EXCEPT !.begun = @ + 1]))
    BY <1>4, ChangedAlike, TopFields DEF Inner, On
  <2> QED
    BY <1>4, <2>1, EnterCounts DEF Inner
<1>5. CASE CellAnswered(t)
  <2>1. CASE \E v : Leave(t, v)
    BY <1>5, <2>1, LeaveCounts DEF CellAnswered, On
  <2>2. ASSUME NEW g, stack' = Changed(t, [Top(t) EXCEPT !.got = g]), UNCHANGED <<nesting, stops>>
        PROVE  Counts'
    BY <1>0, <1>5, <2>2, ChangedAlike, TopFields, AlikeCounts DEF CellAnswered, On
  <2> QED
    BY <1>5, <2>1, <2>2 DEF CellAnswered
<1>6. CASE StepAnswered(t)
  <2>1. CASE \E v : Leave(t, v)
    BY <1>6, <2>1, LeaveCounts DEF StepAnswered, On
  <2>2. ASSUME NEW g, NEW l, stack' = Changed(t, [Top(t) EXCEPT !.got = g, !.lost = l]),
               stops' = [stops EXCEPT ![t][Len(stops[t])] = NoStop], UNCHANGED nesting
        PROVE  Counts'
    <3>1. AllAlike(stack, stack')
      <4> DEFINE f == [Top(t) EXCEPT !.got = g, !.lost = l]
      <4>1. stack[t] # <<>>
        BY <1>6 DEF StepAnswered, On
      <4>2. DOMAIN f = Fields /\ f.layer = Top(t).layer /\ f.cell = Top(t).cell
        BY <4>1, TopFields
      <4>3. stack' = Changed(t, f)
        BY <2>2
      <4> HIDE DEF f
      <4> QED
        BY <4>1, <4>2, <4>3, ChangedAlike
    <3>2. /\ DOMAIN stops' = Threads
          /\ \A u \in Threads : stops'[u] \in Stops /\ Len(stops'[u]) = Len(stops[u])
      <4> DEFINE b == [stops[t] EXCEPT ![Len(stops[t])] = NoStop]
      <4>1. b \in Stops /\ Len(b) = Len(stops[t])
        <5>1. stops[t] \in Seq(Controls \cup {NoStop}) /\ NoStop \in Controls \cup {NoStop}
          BY <1>0 DEF Stops
        <5>2. Len(stops[t]) \in Nat /\ b \in [1 .. Len(stops[t]) -> Controls \cup {NoStop}]
          BY <5>1, LenProperties
        <5> HIDE DEF b
        <5> QED
          BY <5>2 DEF Stops
      <4>2. stops' = [stops EXCEPT ![t] = b]
        BY <2>2
      <4> HIDE DEF b
      <4> QED
        BY <1>0, <4>1, <4>2
    <3> QED
      BY <1>6, <2>2, <3>1, <3>2, AlikeCounts DEF StepAnswered
  <2> QED
    BY <1>6, <2>1, <2>2 DEF StepAnswered
<1>7. CASE Stop(t)
  <2>1. CASE \E v : Leave(t, v)
    BY <1>7, <2>1, LeaveCounts DEF Stop, On
  <2>2. CASE \E n, path : Enter(stack, t, n, path, NoCell)
    BY <1>0, <1>7, <2>2, EnterCounts DEF Stop
  <2> QED
    BY <1>7, <2>1, <2>2 DEF Stop
<1>8. CASE StopSaid(t)
  <2>1. /\ stack[t] # <<>> /\ Kind(Top(t)) # "fold" /\ program' = program
        /\ nesting' = [nesting EXCEPT ![t] = @ - 1]
    BY <1>8 DEF StopSaid, On
  <2>2. program.control \in Controls
    BY ProgramsAssumption DEF Counts, IsProgram
  <2>3. \/ stops' = stops
        \/ stops' = [stops EXCEPT ![t][Len(stops[t])] = program.control]
    BY <1>8 DEF StopSaid
  <2>4. /\ DOMAIN stops' = Threads /\ \A u \in Threads \ {t} : stops'[u] = stops[u]
        /\ stops'[t] \in Stops /\ Len(stops'[t]) = Len(stops[t])
    BY <1>0, <2>2, <2>3 DEF Stops
  <2>5. Len(stops[t]) \in Nat
    BY <1>0 DEF Stops
  <2>6. PICK v, cell : Answering([stack EXCEPT ![t] = Front(@)], t, v, cell)
    BY <1>8 DEF StopSaid
  <2>7. Len(stops'[t]) = Len(stops[t]) - (IF Kind(Top(t)) = "fold" THEN 1 ELSE 0)
    BY <2>1, <2>4, <2>5
  <2> QED
    BY <2>1, <2>4, <2>6, <2>7, PopCounts
<1>9. CASE HandOut(t)
  <2> DEFINE g == [i \in 1 .. CELLS |-> Nothing]
             f == [Top(t) EXCEPT !.begun = CELLS, !.got = g]
  <2>1. stack[t] # <<>>
    BY <1>9 DEF HandOut, On
  <2>2. DOMAIN f = Fields /\ f.layer = Top(t).layer /\ f.cell = Top(t).cell
    <3> HIDE DEF g
    <3> QED
      BY <2>1, TopFields
  <2>3. stack' = Changed(t, f)
    BY <1>9 DEF HandOut
  <2> HIDE DEF f, g
  <2>4. AllAlike(stack, stack')
    BY <2>1, <2>2, <2>3, ChangedAlike
  <2>5. program' = program /\ nesting' = nesting /\ stops' = stops
    BY <1>9 DEF HandOut
  <2> QED
    BY <1>0, <2>4, <2>5, AlikeCounts
<1>10. CASE Take(t)
  BY <1>0, <1>10, EnterCounts DEF Take
<1>11. CASE Collect(t)
  <2>1. PICK v : Leave(t, v)
    BY <1>11 DEF Collect
  <2> QED
    BY <1>11, <2>1, LeaveCounts DEF Collect, On
<1> QED
  BY <1>1, <1>2, <1>3, <1>4, <1>5, <1>6, <1>7, <1>8, <1>9, <1>10, <1>11 DEF Step

(* The first invariant holds throughout. *)
LEMMA CountsAlways == Spec => []Counts
<1>1. Counts /\ [Next]_vars => Counts'
  <2> SUFFICES ASSUME Counts, [Next]_vars PROVE Counts'
    OBVIOUS
  <2>1. CASE UNCHANGED vars
    BY <2>1 DEF vars, Counts, Right, TakenBy, Folds, Kind, Layer
  <2> QED
    BY <2>1, StepCounts DEF Next
<1> QED
  BY InitCounts, <1>1, PTL DEF Spec

-----------------------------------------------------------------------------
(* What is said, in terms of which the second invariant is put. *)

(* What is said of layer n at a path and what it leaves; and, the limit    *)
(* being a thread's own to reach, what an application there may tell.      *)
Limit                == Bad("limit", <<>>)
Says(p, n, path)     == Sequential(p)[n][path].said
Leaves(p, n, path)   == Sequential(p)[n][path].left
Tells(p, n, path, v) == v \in {Says(p, n, path), Limit}

(* The layer of an application f, and what its cells or steps come to one  *)
(* after the other.                                                        *)
KindOf(p, f) == LayerOf(p, f.layer)
CellsOf(p, f) == AlongCells(f.path, Sequential(p)[f.layer + 1])
StepsOf(p, f) == AlongSteps(f.path, Sequential(p)[f.layer + 1])

(* Every stop around layer n has a fold around it; n has one, with no pool *)
(* between; whatever n leaves it leaves to a fold of its own.              *)
Through(p, n) == \A j \in 1 .. n - 1 : LayerOf(p, j) = "stop" => InFold(p, j)
Home(p, n)    == \E i \in 1 .. n - 1 : /\ LayerOf(p, i) = "fold"
                                       /\ \A k \in i + 1 .. n - 1 : LayerOf(p, k) # "pool"
Quiet(p, n)   == \A j \in n .. Innermost(p) :
                    LayerOf(p, j) = "stop" /\ InFold(p, j) => \E k \in n .. j - 1 : LayerOf(p, k) = "fold"
Opened(p)     == \E k \in 1 .. Innermost(p) : LayerOf(p, k) = "fold" /\ Through(p, k)

(* What the application at depth d of a stack has asked for last. *)
Asks(p, s, d, n, path) ==
  IF d = 0 THEN n = 1 /\ path = <<1>>
  ELSE /\ KindOf(p, s[d]) \in {"fold", "cells", "stop"}
       /\ n = s[d].layer + 1
       /\ path = IF KindOf(p, s[d]) = "stop" THEN s[d].path ELSE Append(s[d].path, s[d].begun)

(* A cell of an application that waits for it. *)
Awaited(p, st, c, n, path) ==
  /\ c \in Threads \X Nat \X (1 .. CELLS)
  /\ c[2] \in 1 .. Len(st[c[1]])
  /\ LET f == st[c[1]][c[2]] IN
     /\ KindOf(p, f) = "pool" /\ f.begun = CELLS /\ f.got[c[3]] = Nothing
     /\ n = f.layer + 1 /\ path = Append(f.path, c[3])

(* Who asked for an application above depth d of t. *)
Asked(p, st, t, d, n, path, cell) ==
  IF cell = NoCell THEN Asks(p, st[t], d, n, path) /\ (d = 0 => t \in Hosts)
  ELSE /\ Awaited(p, st, cell, n, path)
       /\ d # 0 => KindOf(p, st[t][d]) = "pool"

(* What an application has come to, with `done` cells or steps done. *)
Came(p, f, done) ==
  /\ KindOf(p, f) = "cells" =>
       /\ done \in 0 .. CELLS - 1 /\ done = Len(f.got)
       /\ CellsOf(p, f)[done].said = Fine(f.got)
  /\ KindOf(p, f) = "fold" =>
       /\ done \in 0 .. STEPS - 1
       /\ StepsOf(p, f)[done] = [over |-> FALSE, said |-> Fine(<<>>), kept |-> f.got, lost |-> f.lost]
  /\ KindOf(p, f) = "pool" =>
       \/ f.begun = 0
       \/ /\ f.begun = CELLS /\ DOMAIN f.got = 1 .. CELLS
          /\ \A i \in 1 .. CELLS : \/ f.got[i] = Nothing
                                   \/ Tells(p, f.layer + 1, Append(f.path, i), f.got[i])
  /\ KindOf(p, f) = "stop" => (done < f.begun => InFold(p, f.layer))

(* How many of its cells or steps the application at depth d of t is done  *)
(* with: all it has begun but the one it waits for.                        *)
DoneOf(st, busy, t, d) == st[t][d].begun - (IF d < Len(st[t]) \/ t \in busy THEN 1 ELSE 0)

(* The application at depth d of t is one that something has asked for. *)
Placed(p, st, t, d) ==
  /\ st[t][d].layer \in 1 .. Innermost(p) /\ st[t][d].path \in Paths /\ st[t][d].begun \in Nat
  /\ Through(p, st[t][d].layer)
  /\ Asked(p, st, t, d - 1, st[t][d].layer, st[t][d].path, st[t][d].cell)

(* Every application begun was asked for, and has come to what it comes to *)
(* on one thread.                                                          *)
Begun(p, st, busy) ==
  \A t \in Threads : \A d \in 1 .. Len(st[t]) :
    Placed(p, st, t, d) /\ Came(p, st[t][d], DoneOf(st, busy, t, d))

(* The cells handed out and not begun. *)
Unbegun(p, st, cs) ==
  \A c \in cs : /\ \E n, path : Awaited(p, st, c, n, path)
                /\ \A t \in Threads : \A d \in 1 .. Len(st[t]) : st[t][d].cell # c

(* No cell is begun on two threads, or twice on one. *)
BegunOnce(st) ==
  \A t, u \in Threads : \A d \in 1 .. Len(st[t]), e \in 1 .. Len(st[u]) :
    st[t][d].cell = st[u][e].cell /\ st[t][d].cell # NoCell => t = u /\ d = e

(* A thread is busy when what its innermost application asked for last is *)
(* neither begun on top of it nor taken up.                                *)
BusyRight(p, st, busy) ==
  \A t \in Threads : t \in busy =>
    IF Len(st[t]) = 0 THEN t \in Hosts
    ELSE KindOf(p, st[t][Len(st[t])]) \in {"fold", "cells", "stop"}

(* The shape of the stacks st and of the cells cs not begun, with the      *)
(* threads in busy between one application and the next.                   *)
Shape(p, st, busy, cs) ==
  Begun(p, st, busy) /\ Unbegun(p, st, cs) /\ BegunOnce(st) /\ BusyRight(p, st, busy)
-----------------------------------------------------------------------------
(* The natural numbers, by way of their least elements. *)
LEMMA Least ==
  ASSUME NEW S, S \subseteq Nat, S # {}
  PROVE  \E x \in S : \A y \in S : x <= y
<1>1. PICK x \in S : \A y \in S : ~ (<<y, x>> \in OpToRel(<, Nat))
  BY WFMin, NatLessThanWellFounded
<1>2. ASSUME NEW y \in S PROVE x <= y
  <2>1. ~ (y < x)
    BY <1>1 DEF OpToRel
  <2> QED
    BY <2>1
<1> QED
  BY <1>2

(* What holds at 0, and one further on from where it holds below m, holds  *)
(* up to m.                                                                *)
LEMMA Climb ==
  ASSUME NEW m \in Nat, NEW S, 0 \in S, \A i \in Nat : i < m /\ i \in S => i + 1 \in S
  PROVE  \A i \in 0 .. m : i \in S
<1> DEFINE R == {i \in 0 .. m : i \notin S}
<1> SUFFICES ASSUME R # {} PROVE FALSE
  OBVIOUS
<1>1. R \subseteq Nat
  OBVIOUS
<1>2. PICK x \in R : \A y \in R : x <= y
  <2> HIDE DEF R
  <2> QED
    BY <1>1, Least
<1>3. x # 0 /\ x \in Nat /\ x <= m
  OBVIOUS
<1>4. x - 1 \in S
  <2>1. x - 1 \in 0 .. m /\ ~(x <= x - 1)
    BY <1>3
  <2> QED
    BY <1>2, <2>1
<1> QED
  BY <1>3, <1>4

(* What is said along cells, along steps and layer by layer. *)
LEMMA CellsAlong ==
  ASSUME NEW path, NEW inner
  PROVE  LET A == AlongCells(path, inner) IN
         /\ A[0] = [left |-> NoStop, said |-> Fine(<<>>)]
         /\ \A i \in 1 .. CELLS : A[i] = ThenCell(A[i - 1], inner[Append(path, i)])
<1> DEFINE none == [left |-> NoStop, said |-> Fine(<<>>)]
           Is(g, k) == g = [i \in 0 .. k |-> IF i = 0 THEN none
                                              ELSE ThenCell(g[i - 1], inner[Append(path, i)])]
           S == {k \in Nat : \E g : Is(g, k)}
<1> HIDE DEF none
<1>0. CELLS \in Nat
  BY PoolAssumption
<1>1. 0 \in S
  <2>1. Is([i \in 0 .. 0 |-> none], 0)
    OBVIOUS
  <2> QED
    BY <2>1
<1>2. ASSUME NEW k \in Nat, k \in S
      PROVE  k + 1 \in S
  <2>1. PICK g : Is(g, k)
    BY <1>2
  <2> DEFINE h == [i \in 0 .. k + 1 |-> IF i = k + 1 THEN ThenCell(g[k], inner[Append(path, k + 1)])
                                         ELSE g[i]]
  <2>2. \A i \in 0 .. k + 1 : h[i] = IF i = 0 THEN none ELSE ThenCell(h[i - 1], inner[Append(path, i)])
    <3> SUFFICES ASSUME NEW i \in 0 .. k + 1
                 PROVE  h[i] = IF i = 0 THEN none ELSE ThenCell(h[i - 1], inner[Append(path, i)])
      OBVIOUS
    <3>1. CASE i = k + 1
      <4>1. h[i - 1] = g[k] /\ i # 0
        BY <3>1
      <4> QED
        BY <3>1, <4>1
    <3>2. CASE i # k + 1
      <4>1. h[i] = g[i] /\ i \in 0 .. k
        BY <3>2
      <4>2. i # 0 => h[i - 1] = g[i - 1]
        BY <4>1
      <4>3. g[i] = IF i = 0 THEN none ELSE ThenCell(g[i - 1], inner[Append(path, i)])
        BY <2>1, <4>1
      <4> HIDE DEF h
      <4> QED
        BY <4>1, <4>2, <4>3
    <3> QED
      BY <3>1, <3>2
  <2>3. Is(h, k + 1)
    <3>1. h = [i \in 0 .. k + 1 |-> h[i]]
      OBVIOUS
    <3> HIDE DEF h
    <3> QED
      BY <2>2, <3>1
  <2> HIDE DEF h, Is
  <2> QED
    BY <2>3
<1>3. CELLS \in S
  <2> HIDE DEF S
  <2> QED
    BY <1>0, <1>1, <1>2, Climb
<1> DEFINE A == AlongCells(path, inner)
<1>4. A = CHOOSE g : Is(g, CELLS)
  BY DEF AlongCells, none
<1>5. Is(A, CELLS)
  <2> HIDE DEF Is, A
  <2> QED
    BY <1>3, <1>4
<1> HIDE DEF A
<1>6. \A i \in 0 .. CELLS : A[i] = IF i = 0 THEN none ELSE ThenCell(A[i - 1], inner[Append(path, i)])
  BY <1>5
<1> QED
  BY <1>0, <1>6 DEF A, none

(* So along steps. *)
LEMMA StepsAlong ==
  ASSUME NEW path, NEW inner
  PROVE  LET A == AlongSteps(path, inner) IN
         /\ A[0] = [over |-> FALSE, said |-> Fine(<<>>), kept |-> <<>>, lost |-> FALSE]
         /\ \A i \in 1 .. STEPS : A[i] = ThenStep(A[i - 1], i, inner[Append(path, i)])
<1> DEFINE none == [over |-> FALSE, said |-> Fine(<<>>), kept |-> <<>>, lost |-> FALSE]
           Is(g, k) == g = [i \in 0 .. k |-> IF i = 0 THEN none
                                              ELSE ThenStep(g[i - 1], i, inner[Append(path, i)])]
           S == {k \in Nat : \E g : Is(g, k)}
<1> HIDE DEF none
<1>0. STEPS \in Nat
  BY PoolAssumption
<1>1. 0 \in S
  <2>1. Is([i \in 0 .. 0 |-> none], 0)
    OBVIOUS
  <2> QED
    BY <2>1
<1>2. ASSUME NEW k \in Nat, k \in S
      PROVE  k + 1 \in S
  <2>1. PICK g : Is(g, k)
    BY <1>2
  <2> DEFINE h == [i \in 0 .. k + 1 |-> IF i = k + 1 THEN ThenStep(g[k], k + 1, inner[Append(path, k + 1)])
                                         ELSE g[i]]
  <2>2. \A i \in 0 .. k + 1 : h[i] = IF i = 0 THEN none ELSE ThenStep(h[i - 1], i, inner[Append(path, i)])
    <3> SUFFICES ASSUME NEW i \in 0 .. k + 1
                 PROVE  h[i] = IF i = 0 THEN none ELSE ThenStep(h[i - 1], i, inner[Append(path, i)])
      OBVIOUS
    <3>1. CASE i = k + 1
      <4>1. h[i - 1] = g[k] /\ i # 0
        BY <3>1
      <4> QED
        BY <3>1, <4>1
    <3>2. CASE i # k + 1
      <4>1. h[i] = g[i] /\ i \in 0 .. k
        BY <3>2
      <4>2. i # 0 => h[i - 1] = g[i - 1]
        BY <4>1
      <4>3. g[i] = IF i = 0 THEN none ELSE ThenStep(g[i - 1], i, inner[Append(path, i)])
        BY <2>1, <4>1
      <4> HIDE DEF h
      <4> QED
        BY <4>1, <4>2, <4>3
    <3> QED
      BY <3>1, <3>2
  <2>3. Is(h, k + 1)
    <3>1. h = [i \in 0 .. k + 1 |-> h[i]]
      OBVIOUS
    <3> HIDE DEF h
    <3> QED
      BY <2>2, <3>1
  <2> HIDE DEF h, Is
  <2> QED
    BY <2>3
<1>3. STEPS \in S
  <2> HIDE DEF S
  <2> QED
    BY <1>0, <1>1, <1>2, Climb
<1> DEFINE A == AlongSteps(path, inner)
<1>4. A = CHOOSE g : Is(g, STEPS)
  BY DEF AlongSteps, none
<1>5. Is(A, STEPS)
  <2> HIDE DEF Is, A
  <2> QED
    BY <1>3, <1>4
<1> HIDE DEF A
<1>6. \A i \in 0 .. STEPS : A[i] = IF i = 0 THEN none ELSE ThenStep(A[i - 1], i, inner[Append(path, i)])
  BY <1>5
<1>7. A[0] = none /\ \A i \in 1 .. STEPS : A[i] = ThenStep(A[i - 1], i, inner[Append(path, i)])
  BY <1>0, <1>6
<1> QED
  BY <1>7 DEF A, none

(* Each layer is what is applied to the one under it. *)
LEMMA SequentialIs ==
  ASSUME NEW p, p.layers \in Seq(Layers)
  PROVE  \A n \in 1 .. Innermost(p) : \A path \in Paths :
           Sequential(p)[n][path]
             = Applied(p, n, path, IF n = Innermost(p) THEN <<>> ELSE Sequential(p)[n + 1])
<1> DEFINE N == Innermost(p)
           Row(n, inner) == [path \in Paths |-> Applied(p, n, path, inner)]
           Is(g, k) == g = [n \in N - k .. N |-> Row(n, IF n = N THEN <<>> ELSE g[n + 1])]
           S == {k \in Nat : \E g : Is(g, k)}
<1> HIDE DEF Row
<1>0. N \in Nat /\ N > 0
  BY DEF Innermost
<1> HIDE DEF N
<1>1. 0 \in S
  <2>1. Is([n \in N - 0 .. N |-> Row(n, <<>>)], 0)
    BY <1>0
  <2> QED
    BY <2>1
<1>2. ASSUME NEW k \in Nat, k \in S
      PROVE  k + 1 \in S
  <2>1. PICK g : Is(g, k)
    BY <1>2
  <2> DEFINE l == N - (k + 1)
             h == [n \in l .. N |-> IF n = l THEN Row(l, g[l + 1]) ELSE g[n]]
  <2>0. l \in Int /\ l < N /\ l + 1 = N - k
    BY <1>0
  <2> HIDE DEF l
  <2>2. \A n \in l .. N : h[n] = Row(n, IF n = N THEN <<>> ELSE h[n + 1])
    <3> SUFFICES ASSUME NEW n \in l .. N
                 PROVE  h[n] = Row(n, IF n = N THEN <<>> ELSE h[n + 1])
      OBVIOUS
    <3>1. CASE n = l
      <4>1. h[n + 1] = g[l + 1] /\ n # N
        BY <3>1, <2>0, <1>0
      <4> QED
        BY <3>1, <4>1
    <3>2. CASE n # l
      <4>1. h[n] = g[n] /\ n \in N - k .. N
        BY <3>2, <2>0, <1>0
      <4>2. n # N => h[n + 1] = g[n + 1]
        BY <4>1, <2>0, <1>0
      <4>3. g[n] = Row(n, IF n = N THEN <<>> ELSE g[n + 1])
        BY <2>1, <4>1
      <4> HIDE DEF h
      <4> QED
        BY <4>1, <4>2, <4>3
    <3> QED
      BY <3>1, <3>2
  <2>3. Is(h, k + 1)
    <3>1. h = [n \in l .. N |-> h[n]]
      OBVIOUS
    <3> HIDE DEF h
    <3> QED
      BY <2>2, <3>1 DEF l
  <2> HIDE DEF h, Is
  <2> QED
    BY <2>3
<1>3. N - 1 \in S
  <2>1. N - 1 \in Nat /\ N - 1 \in 0 .. N - 1
    BY <1>0
  <2> HIDE DEF S
  <2>2. \A i \in 0 .. N - 1 : i \in S
    BY <1>1, <1>2, <2>1, Climb
  <2> QED
    BY <2>1, <2>2
<1> DEFINE A == Sequential(p)
<1>4. A = CHOOSE g : g = [n \in 1 .. N |-> Row(n, IF n = N THEN <<>> ELSE g[n + 1])]
  BY DEF Sequential, Row, N
<1>5. A = [n \in 1 .. N |-> Row(n, IF n = N THEN <<>> ELSE A[n + 1])]
  <2>1. \E g : g = [n \in 1 .. N |-> Row(n, IF n = N THEN <<>> ELSE g[n + 1])]
    <3>1. N - (N - 1) = 1
      BY <1>0
    <3> QED
      BY <1>3, <3>1
  <2> HIDE DEF A
  <2> QED
    BY <2>1, <1>4
<1> HIDE DEF A
<1>6. \A n \in 1 .. N : A[n] = Row(n, IF n = N THEN <<>> ELSE A[n + 1])
  BY <1>5
<1>7. ASSUME NEW n \in 1 .. N, NEW path \in Paths
      PROVE  A[n][path] = Applied(p, n, path, IF n = N THEN <<>> ELSE A[n + 1])
  BY <1>6 DEF Row
<1> QED
  BY <1>7 DEF A, N

(* The verb is the innermost layer, and the others have one under them. *)
LEMMA Kinds ==
  ASSUME NEW p, IsProgram(p), NEW n \in 1 .. Innermost(p)
  PROVE  /\ Innermost(p) \in Nat /\ LayerOf(p, n) \in Layers \cup {"verb"}
         /\ LayerOf(p, n) = "verb" <=> n = Innermost(p)
         /\ LayerOf(p, n) # "verb" => n + 1 \in 1 .. Innermost(p)
<1>1. p.layers \in Seq(Layers)
  BY DEF IsProgram
<1>2. Len(p.layers) \in Nat /\ \A i \in 1 .. Len(p.layers) : p.layers[i] \in Layers
  BY <1>1
<1> QED
  BY <1>2 DEF Innermost, LayerOf, Layers

(* What is said at a layer, kind by kind. *)
LEMMA LayerSays ==
  ASSUME NEW p, IsProgram(p), NEW n \in 1 .. Innermost(p), NEW path \in Paths
  PROVE  LET r     == Sequential(p)[n][path]
             inner == Sequential(p)[n + 1]
         IN /\ LayerOf(p, n) = "verb" => r = Verb(p, path)
            /\ LayerOf(p, n) = "stop" => r = Stopping(p, n, path, inner)
            /\ LayerOf(p, n) \in {"cells", "pool"} => r = AlongCells(path, inner)[CELLS]
            /\ LayerOf(p, n) = "fold" => r = Folded(path, AlongSteps(path, inner)[STEPS])
<1>1. /\ LayerOf(p, n) \in Layers \cup {"verb"}
      /\ LayerOf(p, n) # "verb" => n # Innermost(p)
  BY Kinds
<1>2. Sequential(p)[n][path]
        = Applied(p, n, path, IF n = Innermost(p) THEN <<>> ELSE Sequential(p)[n + 1])
  BY SequentialIs DEF IsProgram
<1>3. CASE LayerOf(p, n) = "verb"
  BY <1>2, <1>3 DEF Applied
<1>4. CASE LayerOf(p, n) # "verb"
  <2>1. Sequential(p)[n][path] = Applied(p, n, path, Sequential(p)[n + 1])
    BY <1>1, <1>2, <1>4
  <2> QED
    BY <1>4, <2>1 DEF Applied
<1> QED
  BY <1>3, <1>4

(* A refusal ends the cells. *)
LEMMA CellsEnd ==
  ASSUME NEW path, NEW inner, NEW k \in 0 .. CELLS, AlongCells(path, inner)[k].said.is # "fine"
  PROVE  AlongCells(path, inner)[CELLS] = AlongCells(path, inner)[k]
<1> DEFINE A == AlongCells(path, inner)
           S == {i \in Nat : k <= i /\ i <= CELLS => A[i] = A[k]}
<1>0. CELLS \in Nat /\ k \in Nat /\ k <= CELLS
  BY PoolAssumption
<1>1. \A i \in 1 .. CELLS : A[i] = ThenCell(A[i - 1], inner[Append(path, i)])
  BY CellsAlong
<1>2. A[k].said.is # "fine"
  OBVIOUS
<1> HIDE DEF A
<1>3. 0 \in S
  OBVIOUS
<1>4. ASSUME NEW i \in Nat, i < CELLS, i \in S PROVE i + 1 \in S
  <2> SUFFICES ASSUME k <= i + 1, k # i + 1 PROVE A[i + 1] = A[k]
    OBVIOUS
  <2>1. A[i] = A[k]
    BY <1>0, <1>4
  <2>2. A[i + 1] = ThenCell(A[i], inner[Append(path, i + 1)])
    <3>1. i + 1 \in 1 .. CELLS /\ (i + 1) - 1 = i
      BY <1>0, <1>4
    <3> QED
      BY <1>1, <3>1
  <2> QED
    BY <1>2, <2>1, <2>2 DEF ThenCell
<1>5. CELLS \in S
  <2> HIDE DEF S
  <2> QED
    BY <1>0, <1>3, <1>4, Climb
<1> QED
  BY <1>0, <1>5 DEF A

(* A refusal, or a control that ends the fold, ends its steps. *)
LEMMA StepsEnd ==
  ASSUME NEW path, NEW inner, NEW k \in 0 .. STEPS, AlongSteps(path, inner)[k].over
  PROVE  AlongSteps(path, inner)[STEPS] = AlongSteps(path, inner)[k]
<1> DEFINE A == AlongSteps(path, inner)
           S == {i \in Nat : k <= i /\ i <= STEPS => A[i] = A[k]}
<1>0. STEPS \in Nat /\ k \in Nat /\ k <= STEPS
  BY PoolAssumption
<1>1. \A i \in 1 .. STEPS : A[i] = ThenStep(A[i - 1], i, inner[Append(path, i)])
  BY StepsAlong
<1>2. A[k].over
  OBVIOUS
<1> HIDE DEF A
<1>3. 0 \in S
  OBVIOUS
<1>4. ASSUME NEW i \in Nat, i < STEPS, i \in S PROVE i + 1 \in S
  <2> SUFFICES ASSUME k <= i + 1, k # i + 1 PROVE A[i + 1] = A[k]
    OBVIOUS
  <2>1. A[i] = A[k]
    BY <1>0, <1>4
  <2>2. A[i + 1] = ThenStep(A[i], i + 1, inner[Append(path, i + 1)])
    <3>1. i + 1 \in 1 .. STEPS /\ (i + 1) - 1 = i
      BY <1>0, <1>4
    <3> QED
      BY <1>1, <3>1
  <2> QED
    BY <1>2, <2>1, <2>2 DEF ThenStep
<1>5. STEPS \in S
  <2> HIDE DEF S
  <2> QED
    BY <1>0, <1>3, <1>4, Climb
<1> QED
  BY <1>0, <1>5 DEF A

(* Cells that are all fine are said with what was got of each:             *)
(* map_indexed's answer is each_cell's.                                    *)
AllFine(path, inner, got, k) ==
  \A i \in 1 .. k : got[i] = inner[Append(path, i)].said /\ got[i].is = "fine"

LEMMA Collected ==
  ASSUME NEW path, NEW inner, NEW got, NEW k \in 0 .. CELLS, AllFine(path, inner, got, k)
  PROVE  AlongCells(path, inner)[k].said = Fine([i \in 1 .. k |-> got[i].value])
<1> DEFINE A == AlongCells(path, inner)
           G(j) == [i \in 1 .. j |-> got[i].value]
           S == {j \in Nat : A[j].said = Fine(G(j))}
<1>0. CELLS \in Nat /\ k \in Nat /\ k <= CELLS
  BY PoolAssumption
<1>1. /\ A[0] = [left |-> NoStop, said |-> Fine(<<>>)]
      /\ \A i \in 1 .. CELLS : A[i] = ThenCell(A[i - 1], inner[Append(path, i)])
  BY CellsAlong
<1> HIDE DEF A
<1>2. 0 \in S
  <2>1. G(0) = <<>>
    OBVIOUS
  <2> HIDE DEF G
  <2> QED
    BY <1>1, <2>1
<1>3. ASSUME NEW j \in Nat, j < k, j \in S PROVE j + 1 \in S
  <2>0. A[j].said = Fine(G(j))
    BY <1>3
  <2>1. A[j + 1] = ThenCell(A[j], inner[Append(path, j + 1)])
    <3>1. j + 1 \in 1 .. CELLS /\ (j + 1) - 1 = j
      BY <1>0, <1>3
    <3> QED
      BY <1>1, <3>1
  <2>2. got[j + 1] = inner[Append(path, j + 1)].said /\ got[j + 1].is = "fine"
    BY <1>0, <1>3 DEF AllFine
  <2>3. Append(G(j), got[j + 1].value) = G(j + 1)
    <3> DEFINE T == {got[i].value : i \in 1 .. j + 1}
               v == got[j + 1].value
    <3>1. G(j) \in [1 .. j -> T] /\ G(j + 1) \in [1 .. j + 1 -> T] /\ v \in T
      OBVIOUS
    <3>2. \A i \in 1 .. j : G(j)[i] = G(j + 1)[i]
      OBVIOUS
    <3>3. G(j + 1)[j + 1] = v
      OBVIOUS
    <3> HIDE DEF T, v, G
    <3>4. G(j) \in Seq(T) /\ G(j + 1) \in Seq(T) /\ Len(G(j)) = j /\ Len(G(j + 1)) = j + 1
      BY <3>1
    <3>5. /\ Append(G(j), v) \in Seq(T) /\ Len(Append(G(j), v)) = j + 1
          /\ \A i \in 1 .. j : Append(G(j), v)[i] = G(j)[i]
          /\ Append(G(j), v)[j + 1] = v
      BY <3>1, <3>4
    <3>6. \A i \in 1 .. j + 1 : Append(G(j), v)[i] = G(j + 1)[i]
      BY <3>2, <3>3, <3>5
    <3> QED
      BY <3>4, <3>5, <3>6, SeqEqual DEF v
  <2> HIDE DEF G
  <2>4. A[j].said.is = "fine" /\ A[j].said.value = G(j)
    BY <2>0 DEF Fine
  <2>5. A[j + 1].said = Fine(Append(G(j), got[j + 1].value))
    BY <2>1, <2>2, <2>4 DEF ThenCell
  <2> QED
    BY <2>3, <2>5
<1>4. k \in S
  <2> HIDE DEF S
  <2> QED
    BY <1>0, <1>2, <1>3, Climb
<1> QED
  BY <1>4 DEF A

(* Folds, stops and pools in a program. *)
LEMMA NearestFold ==
  ASSUME NEW p, NEW j \in Nat, InFold(p, j)
  PROVE  \E i \in 1 .. j - 1 : /\ LayerOf(p, i) = "fold"
                               /\ \A k \in i + 1 .. j - 1 : LayerOf(p, k) # "fold"
<1> DEFINE F == {i \in 1 .. j - 1 : LayerOf(p, i) = "fold"}
           S == {j - i : i \in F}
<1>1. S \subseteq Nat /\ S # {}
  <2>1. F # {}
    BY DEF InFold
  <2>2. \A i \in F : j - i \in Nat
    OBVIOUS
  <2> HIDE DEF F
  <2> QED
    BY <2>1, <2>2
<1>2. PICK x \in S : \A y \in S : x <= y
  <2> HIDE DEF S
  <2> QED
    BY <1>1, Least
<1>3. PICK i \in F : x = j - i
  OBVIOUS
<1>4. ASSUME NEW k \in i + 1 .. j - 1, LayerOf(p, k) = "fold"
      PROVE  FALSE
  <2>1. k \in F
    BY <1>4
  <2>2. j - i <= j - k
    BY <1>2, <1>3, <2>1
  <2> QED
    BY <2>2
<1> QED
  BY <1>4

(* A stop inside a fold has one with no pool between (StopsStayHome). *)
LEMMA HomeOfStop ==
  ASSUME NEW p, IsProgram(p), StopsStayHome(p), NEW j \in 1 .. Innermost(p),
         LayerOf(p, j) = "stop", InFold(p, j)
  PROVE  Home(p, j)
<1>1. PICK i \in 1 .. j - 1 : /\ LayerOf(p, i) = "fold"
                              /\ \A k \in i + 1 .. j - 1 : LayerOf(p, k) # "fold"
  BY NearestFold DEF Innermost, IsProgram
<1>2. /\ Len(p.layers) \in Nat /\ DOMAIN p.layers = 1 .. Len(p.layers)
      /\ Innermost(p) = Len(p.layers) + 1
  BY DEF IsProgram, Innermost
<1>3. j # Innermost(p)
  BY Kinds
<1>4. \A k \in 1 .. j : LayerOf(p, k) = p.layers[k]
  BY <1>2, <1>3 DEF LayerOf
<1>5. i \in DOMAIN p.layers /\ j \in DOMAIN p.layers /\ i < j
  BY <1>2, <1>3
<1>6. i \in 1 .. j /\ j \in 1 .. j /\ i + 1 .. j - 1 \subseteq 1 .. j
  OBVIOUS
<1>7. p.layers[i] = "fold" /\ p.layers[j] = "stop" /\ \A k \in i + 1 .. j - 1 : p.layers[k] # "fold"
  BY <1>1, <1>4, <1>6
<1>8. \A k \in i + 1 .. j - 1 : p.layers[k] # "pool"
  BY <1>5, <1>7 DEF StopsStayHome
<1> QED
  BY <1>1, <1>4, <1>6, <1>8 DEF Home

(* Under a pool nothing is left for a fold outside it: its stops are in    *)
(* folds of their own.                                                     *)
LEMMA QuietUnderPool ==
  ASSUME NEW p, IsProgram(p), StopsStayHome(p), NEW n \in 1 .. Innermost(p), LayerOf(p, n) = "pool"
  PROVE  Quiet(p, n + 1)
<1> SUFFICES ASSUME NEW j \in n + 1 .. Innermost(p), LayerOf(p, j) = "stop", InFold(p, j)
             PROVE  \E k \in n + 1 .. j - 1 : LayerOf(p, k) = "fold"
  BY DEF Quiet
<1>0. Innermost(p) \in Nat
  BY Kinds
<1>1. j \in 1 .. Innermost(p)
  BY <1>0
<1>2. Home(p, j)
  BY <1>1, HomeOfStop
<1>3. PICK i \in 1 .. j - 1 : /\ LayerOf(p, i) = "fold"
                              /\ \A k \in i + 1 .. j - 1 : LayerOf(p, k) # "pool"
  BY <1>2 DEF Home
<1>4. i # n /\ ~(n \in i + 1 .. j - 1)
  BY <1>3
<1>5. i \in n + 1 .. j - 1
  BY <1>0, <1>1, <1>4
<1> QED
  BY <1>3, <1>5

(* What is under a quiet layer that is no fold is quiet. *)
LEMMA QuietInside ==
  ASSUME NEW p, NEW n \in Nat, Innermost(p) \in Nat, Quiet(p, n), LayerOf(p, n) # "fold"
  PROVE  Quiet(p, n + 1)
<1> SUFFICES ASSUME NEW j \in n + 1 .. Innermost(p), LayerOf(p, j) = "stop", InFold(p, j)
             PROVE  \E k \in n + 1 .. j - 1 : LayerOf(p, k) = "fold"
  BY DEF Quiet
<1>1. PICK k \in n .. j - 1 : LayerOf(p, k) = "fold"
  BY DEF Quiet
<1>2. k \in n + 1 .. j - 1
  BY <1>1
<1> QED
  BY <1>1, <1>2

(* A stop that is quiet is in no fold. *)
LEMMA QuietStop ==
  ASSUME NEW p, NEW n \in Nat, n <= Innermost(p), Innermost(p) \in Nat, Quiet(p, n), LayerOf(p, n) = "stop"
  PROVE  ~InFold(p, n)
<1>1. n \in n .. Innermost(p) /\ n .. n - 1 = {}
  OBVIOUS
<1> QED
  BY <1>1 DEF Quiet

(* A path with an index more is a path. *)
LEMMA PathsGrow == ASSUME NEW path \in Paths, NEW i \in Nat PROVE Append(path, i) \in Paths
BY DEF Paths

(* What cells leave is what the last of them to leave anything left. *)
LEMMA CellsLeave ==
  ASSUME NEW path, NEW inner, NEW C, NoStop \in C,
         \A i \in 1 .. CELLS : /\ inner[Append(path, i)].left \in C
  PROVE  \A k \in 0 .. CELLS : AlongCells(path, inner)[k].left \in C
<1> DEFINE A == AlongCells(path, inner)
           S == {j \in Nat : A[j].left \in C}
<1>0. CELLS \in Nat
  BY PoolAssumption
<1>1. /\ A[0] = [left |-> NoStop, said |-> Fine(<<>>)]
      /\ \A i \in 1 .. CELLS : A[i] = ThenCell(A[i - 1], inner[Append(path, i)])
  BY CellsAlong
<1> HIDE DEF A
<1>2. 0 \in S
  BY <1>1
<1>3. ASSUME NEW j \in Nat, j < CELLS, j \in S PROVE j + 1 \in S
  <2>1. j + 1 \in 1 .. CELLS /\ (j + 1) - 1 = j
    BY <1>0, <1>3
  <2>2. A[j + 1] = ThenCell(A[j], inner[Append(path, j + 1)])
    BY <1>1, <2>1
  <2>3. inner[Append(path, j + 1)].left \in C /\ A[j].left \in C
    BY <1>3, <2>1
  <2>4. A[j + 1].left \in C
    BY <2>2, <2>3 DEF ThenCell, Over
  <2> QED
    BY <2>4
<1>4. \A k \in 0 .. CELLS : k \in S
  <2> HIDE DEF S
  <2> QED
    BY <1>0, <1>2, <1>3, Climb
<1> QED
  BY <1>4 DEF A

(* Cells that leave nothing, together, leave nothing. *)
LEMMA QuietCellsLeave ==
  ASSUME NEW path, NEW inner,
         \A i \in 1 .. CELLS : inner[Append(path, i)].said.is = "fine" => inner[Append(path, i)].left = NoStop
  PROVE  \A k \in 0 .. CELLS : AlongCells(path, inner)[k].said.is = "fine"
                                 => AlongCells(path, inner)[k].left = NoStop
<1> DEFINE A == AlongCells(path, inner)
           S == {j \in Nat : A[j].said.is = "fine" => A[j].left = NoStop}
<1>0. CELLS \in Nat
  BY PoolAssumption
<1>1. /\ A[0] = [left |-> NoStop, said |-> Fine(<<>>)]
      /\ \A i \in 1 .. CELLS : A[i] = ThenCell(A[i - 1], inner[Append(path, i)])
  BY CellsAlong
<1> HIDE DEF A
<1>2. 0 \in S
  BY <1>1
<1>3. ASSUME NEW j \in Nat, j < CELLS, j \in S PROVE j + 1 \in S
  <2>1. j + 1 \in 1 .. CELLS /\ (j + 1) - 1 = j
    BY <1>0, <1>3
  <2> DEFINE r == inner[Append(path, j + 1)]
  <2>2. A[j + 1] = ThenCell(A[j], r)
    BY <1>1, <2>1
  <2>3. r.said.is = "fine" => r.left = NoStop
    BY <2>1
  <2>4. A[j].said.is = "fine" => A[j].left = NoStop
    BY <1>3
  <2> HIDE DEF r
  <2>5. A[j + 1].said.is = "fine" => A[j + 1].left = NoStop
    BY <2>2, <2>3, <2>4 DEF ThenCell, Over
  <2> QED
    BY <2>5
<1>4. \A k \in 0 .. CELLS : k \in S
  <2> HIDE DEF S
  <2> QED
    BY <1>0, <1>2, <1>3, Climb
<1> QED
  BY <1>4 DEF A

(* What a layer leaves is a control, and where it is quiet it leaves none: *)
(* by descent on the layers.                                               *)
LEMMA LeavesIs ==
  ASSUME NEW p, IsProgram(p)
  PROVE  \A n \in 1 .. Innermost(p) : \A path \in Paths :
           /\ Leaves(p, n, path) \in Controls \cup {NoStop}
           /\ Quiet(p, n) /\ Says(p, n, path).is = "fine" => Leaves(p, n, path) = NoStop
<1> DEFINE N == Innermost(p)
           Good(n) == \A path \in Paths :
                        /\ Leaves(p, n, path) \in Controls \cup {NoStop}
                        /\ Quiet(p, n) /\ Says(p, n, path).is = "fine" => Leaves(p, n, path) = NoStop
           S == {k \in Nat : N - k \in 1 .. N => Good(N - k)}
<1>0. N \in Nat /\ N > 0
  BY DEF Innermost, IsProgram
<1>1. ASSUME NEW n \in 1 .. N, LayerOf(p, n) # "verb" => Good(n + 1)
      PROVE  Good(n)
  <2> SUFFICES ASSUME NEW path \in Paths
               PROVE  /\ Leaves(p, n, path) \in Controls \cup {NoStop}
                      /\ Quiet(p, n) /\ Says(p, n, path).is = "fine" => Leaves(p, n, path) = NoStop
    OBVIOUS
  <2> DEFINE r == Sequential(p)[n][path]
             inner == Sequential(p)[n + 1]
  <2>0. r.left = Leaves(p, n, path) /\ r.said = Says(p, n, path)
    BY DEF Leaves, Says
  <2>1. LayerOf(p, n) \in {"verb", "stop", "cells", "pool", "fold"}
    BY Kinds DEF Layers
  <2>2. /\ LayerOf(p, n) = "verb" => r = Verb(p, path)
        /\ LayerOf(p, n) = "stop" => r = Stopping(p, n, path, inner)
        /\ LayerOf(p, n) \in {"cells", "pool"} => r = AlongCells(path, inner)[CELLS]
        /\ LayerOf(p, n) = "fold" => r = Folded(path, AlongSteps(path, inner)[STEPS])
    BY LayerSays
  <2>3. LayerOf(p, n) # "verb" =>
          \A q \in Paths : /\ inner[q].left \in Controls \cup {NoStop}
                           /\ Quiet(p, n + 1) /\ inner[q].said.is = "fine" => inner[q].left = NoStop
    BY <1>1 DEF Leaves, Says
  <2>4. p.control \in Controls
    BY DEF IsProgram
  <2> HIDE DEF r, inner, N, Good
  <2>5. CASE LayerOf(p, n) = "verb"
    BY <2>0, <2>2, <2>5 DEF Verb
  <2>6. CASE LayerOf(p, n) = "fold"
    <3> DEFINE so == AlongSteps(path, inner)[STEPS]
    <3>1. r = Folded(path, so)
      BY <2>2, <2>6
    <3> HIDE DEF so
    <3>2. Folded(path, so).left = NoStop
      BY DEF Folded
    <3> QED
      BY <2>0, <3>1, <3>2
  <2>7. CASE LayerOf(p, n) = "stop"
    <3>1. r = Stopping(p, n, path, inner)
      BY <2>2, <2>7
    <3>2. inner[path].left \in Controls \cup {NoStop}
      BY <2>3, <2>7
    <3>3. r.left \in Controls \cup {NoStop}
      BY <2>4, <3>1, <3>2 DEF Stopping, Over
    <3>4. Quiet(p, n) => r.left = NoStop
      <4>1. Quiet(p, n) => ~InFold(p, n)
        BY <1>0, <2>7, QuietStop DEF N
      <4> QED
        BY <3>1, <4>1 DEF Stopping
    <3> QED
      BY <2>0, <3>3, <3>4
  <2>8. CASE LayerOf(p, n) \in {"cells", "pool"}
    <3>0. CELLS \in Nat /\ CELLS \in 0 .. CELLS
      BY PoolAssumption
    <3>1. r = AlongCells(path, inner)[CELLS]
      BY <2>2, <2>8
    <3>2. \A i \in 1 .. CELLS : Append(path, i) \in Paths
      BY PathsGrow
    <3>3. r.left \in Controls \cup {NoStop}
      <4>1. \A i \in 1 .. CELLS : inner[Append(path, i)].left \in Controls \cup {NoStop}
        BY <2>3, <2>8, <3>2
      <4>2. NoStop \in Controls \cup {NoStop}
        OBVIOUS
      <4> QED
        BY <3>0, <3>1, <4>1, <4>2, CellsLeave
    <3>4. ASSUME Quiet(p, n), r.said.is = "fine" PROVE r.left = NoStop
      <4>1. Quiet(p, n + 1)
        BY <1>0, <2>8, <3>4, QuietInside DEF N
      <4>2. \A i \in 1 .. CELLS : inner[Append(path, i)].said.is = "fine"
                                    => inner[Append(path, i)].left = NoStop
        BY <2>3, <2>8, <3>2, <4>1
      <4> QED
        BY <3>0, <3>1, <3>4, <4>2, QuietCellsLeave
    <3> QED
      BY <2>0, <3>3, <3>4
  <2> QED
    BY <2>1, <2>5, <2>6, <2>7, <2>8
<1> HIDE DEF Good
<1>2. 0 \in S
  <2>1. N \in 1 .. N
    BY <1>0
  <2>2. LayerOf(p, N) = "verb"
    BY <2>1, Kinds
  <2> QED
    BY <1>0, <1>1, <2>1, <2>2
<1>3. ASSUME NEW k \in Nat, k < N, k \in S PROVE k + 1 \in S
  <2> SUFFICES ASSUME N - (k + 1) \in 1 .. N PROVE Good(N - (k + 1))
    OBVIOUS
  <2>1. N - k \in 1 .. N /\ (N - (k + 1)) + 1 = N - k
    BY <1>0
  <2>2. Good(N - k)
    BY <1>3, <2>1
  <2> QED
    BY <1>1, <2>1, <2>2
<1>4. \A k \in 0 .. N : k \in S
  <2> HIDE DEF S, N
  <2> QED
    BY <1>0, <1>2, <1>3, Climb
<1>5. ASSUME NEW n \in 1 .. N PROVE Good(n)
  <2>1. N - n \in 0 .. N /\ N - (N - n) = n
    BY <1>0
  <2> QED
    BY <1>4, <2>1
<1> QED
  BY <1>5 DEF Good, N

-----------------------------------------------------------------------------
(* What a step does to the applications that are begun. *)

(* Every thread's stack is one. *)
AreStacks(st) == \A u \in Threads : IsStack(st[u])

(* A cell handed to the pool is not the mark of one that was not. *)
LEMMA CellIsNoStack ==
  ASSUME NEW p, NEW st, NEW c, NEW n, NEW path, Awaited(p, st, c, n, path)
  PROVE  c # NoCell
<1>1. c \in Threads \X Nat \X (1 .. CELLS)
  BY DEF Awaited
<1>2. c = <<c[1], c[2], c[3]>>
  BY <1>1
<1>3. Len(<<c[1], c[2], c[3]>>) = 3 /\ Len(<<>>) = 0
  OBVIOUS
<1>4. c # <<>>
  BY <1>2, <1>3
<1> QED
  BY <1>4 DEF NoCell

(* An application just begun has come to nothing yet. *)
LEMMA FreshCame ==
  ASSUME NEW p, NEW n, NEW path, NEW cell
  PROVE  Came(p, Application(n, path, cell), 0)
<1> DEFINE f == Application(n, path, cell)
<1>1. f.begun = 0 /\ f.got = <<>> /\ f.lost = FALSE
  BY DEF Application
<1>2. /\ CellsOf(p, f)[0] = [left |-> NoStop, said |-> Fine(<<>>)]
      /\ StepsOf(p, f)[0] = [over |-> FALSE, said |-> Fine(<<>>), kept |-> <<>>, lost |-> FALSE]
  BY CellsAlong, StepsAlong DEF CellsOf, StepsOf
<1>3. 0 \in 0 .. CELLS - 1 /\ 0 \in 0 .. STEPS - 1 /\ Len(<<>>) = 0
  BY PoolAssumption
<1> HIDE DEF f
<1>4. CellsOf(p, f)[0].said = Fine(f.got) /\ 0 = Len(f.got)
  BY <1>1, <1>2, <1>3
<1>5. StepsOf(p, f)[0] = [over |-> FALSE, said |-> Fine(<<>>), kept |-> f.got, lost |-> f.lost]
  BY <1>1, <1>2
<1>6. ~(0 < f.begun)
  BY <1>1
<1>7. Came(p, f, 0)
  BY <1>1, <1>3, <1>4, <1>5, <1>6 DEF Came
<1> QED
  BY <1>7 DEF f

(* What cells handed out have come to does not depend on how many are      *)
(* done.                                                                   *)
LEMMA PoolCame ==
  ASSUME NEW p, NEW f, KindOf(p, f) = "pool", NEW k, Came(p, f, k)
  PROVE  \A l : Came(p, f, l)
BY DEF Came

(* An application begun where it was asked for. *)
LEMMA ShapePush ==
  ASSUME NEW p, NEW st, NEW busy, NEW cs, Shape(p, st, busy, cs), AreStacks(st),
         NEW t \in Threads, NEW n \in 1 .. Innermost(p), NEW path \in Paths, NEW cell,
         Through(p, n), Asked(p, st, t, Len(st[t]), n, path, cell),
         cell = NoCell => t \in busy,
         cell # NoCell => t \notin busy /\ cell \in cs,
         NEW su, Pushes(st[t], Application(n, path, cell), su[t]),
         \A u \in Threads \ {t} : su[u] = st[u]
  PROVE  Shape(p, su, busy \ {t}, cs \ {cell})
<1> DEFINE f == Application(n, path, cell)
           L == Len(st[t])
<1>1. /\ f.layer = n /\ f.path = path /\ f.begun = 0 /\ f.cell = cell
  BY DEF Application
<1>2. Came(p, f, 0)
  BY FreshCame
<1>3. L \in Nat /\ Len(su[t]) = L + 1 /\ su[t][L + 1] = f /\ \A i \in 1 .. L : su[t][i] = st[t][i]
  BY StackLength DEF AreStacks, Pushes
<1> HIDE DEF f, L
<1>4. \A u \in Threads : /\ Len(st[u]) \in Nat /\ Len(st[u]) <= Len(su[u])
                         /\ \A i \in 1 .. Len(st[u]) : su[u][i] = st[u][i]
  BY <1>3, StackLength DEF AreStacks, L
<1>5. \A c, m, q : Awaited(p, st, c, m, q) => Awaited(p, su, c, m, q)
  <2> SUFFICES ASSUME NEW c, NEW m, NEW q, Awaited(p, st, c, m, q)
               PROVE  Awaited(p, su, c, m, q)
    OBVIOUS
  <2>1. c \in Threads \X Nat \X (1 .. CELLS) /\ c[1] \in Threads /\ c[2] \in 1 .. Len(st[c[1]])
    BY DEF Awaited
  <2>2. Len(st[c[1]]) \in Nat /\ Len(st[c[1]]) <= Len(su[c[1]]) /\ su[c[1]][c[2]] = st[c[1]][c[2]]
    BY <1>4, <2>1
  <2>3. c[2] \in 1 .. Len(su[c[1]])
    <3>1. Len(su[c[1]]) \in Nat
      BY <1>3, <1>4, <2>1 DEF L
    <3> QED
      BY <2>1, <2>2, <3>1
  <2> QED
    BY <2>1, <2>2, <2>3 DEF Awaited
<1>6. ASSUME NEW u \in Threads, NEW d \in 1 .. Len(st[u])
      PROVE  /\ Placed(p, su, u, d)
             /\ Came(p, su[u][d], DoneOf(su, busy \ {t}, u, d))
  <2>1. /\ Placed(p, st, u, d) /\ Came(p, st[u][d], DoneOf(st, busy, u, d))
    BY DEF Shape, Begun
  <2>2. su[u][d] = st[u][d] /\ (d - 1 # 0 => su[u][d - 1] = st[u][d - 1])
    BY <1>4
  <2>3. Placed(p, su, u, d)
    BY <1>5, <2>1, <2>2 DEF Placed, Asked, Asks
  <2>4. CASE u # t \/ d < L
    <3>1. DoneOf(su, busy \ {t}, u, d) = DoneOf(st, busy, u, d)
      BY <1>3, <2>2, <2>4 DEF DoneOf, L
    <3> QED
      BY <2>1, <2>2, <2>3, <3>1
  <2>5. CASE u = t /\ d = L
    <3>1. DoneOf(su, busy \ {t}, u, d) = st[t][L].begun - 1
      BY <1>3, <2>2, <2>5 DEF DoneOf
    <3>2. CASE cell = NoCell
      <4>1. DoneOf(st, busy, u, d) = st[t][L].begun - 1
        BY <2>5, <3>2 DEF DoneOf
      <4> QED
        BY <2>1, <2>2, <2>3, <3>1, <4>1
    <3>3. CASE cell # NoCell
      <4>1. KindOf(p, st[t][L]) = "pool"
        BY <2>5, <3>3, <1>3 DEF Asked, L
      <4> QED
        BY <2>1, <2>2, <2>3, <2>5, <4>1, PoolCame
    <3> QED
      BY <3>2, <3>3
  <2> QED
    BY <1>3, <2>4, <2>5 DEF L
<1>7. Placed(p, su, t, L + 1) /\ Came(p, su[t][L + 1], DoneOf(su, busy \ {t}, t, L + 1))
  <2>1. DoneOf(su, busy \ {t}, t, L + 1) = 0
    BY <1>1, <1>3 DEF DoneOf
  <2>2. (L + 1) - 1 = L /\ (L # 0 => su[t][L] = st[t][L])
    BY <1>3
  <2>3. Asked(p, st, t, L, n, path, cell)
    BY DEF L
  <2>4. Asked(p, su, t, L, n, path, cell)
    BY <1>5, <2>2, <2>3 DEF Asked, Asks
  <2>5. 0 \in Nat
    OBVIOUS
  <2>6. Placed(p, su, t, L + 1)
    BY <1>1, <1>3, <2>2, <2>4, <2>5 DEF Placed
  <2> QED
    BY <1>2, <1>3, <2>1, <2>6
<1>8. \A u \in Threads : \A d \in 1 .. Len(su[u]) :
        \/ d \in 1 .. Len(st[u]) /\ su[u][d] = st[u][d]
        \/ u = t /\ d = L + 1 /\ su[u][d] = f
  BY <1>3, <1>4 DEF L
<1>9. Begun(p, su, busy \ {t})
  BY <1>6, <1>7, <1>8 DEF Begun
<1>10. cell # NoCell => \A u \in Threads : \A d \in 1 .. Len(st[u]) : st[u][d].cell # cell
  BY DEF Shape, Unbegun
<1>11. Unbegun(p, su, cs \ {cell})
  BY <1>1, <1>5, <1>8 DEF Shape, Unbegun
<1>12. BegunOnce(su)
  <2> SUFFICES ASSUME NEW u \in Threads, NEW v \in Threads,
                      NEW d \in 1 .. Len(su[u]), NEW e \in 1 .. Len(su[v]),
                      su[u][d].cell = su[v][e].cell, su[u][d].cell # NoCell
               PROVE  u = v /\ d = e
    BY DEF BegunOnce
  <2>1. CASE d \in 1 .. Len(st[u]) /\ su[u][d] = st[u][d]
    <3>1. CASE e \in 1 .. Len(st[v]) /\ su[v][e] = st[v][e]
      BY <2>1, <3>1 DEF Shape, BegunOnce
    <3>2. CASE v = t /\ e = L + 1 /\ su[v][e] = f
      BY <1>1, <1>10, <2>1, <3>2
    <3> QED
      BY <1>8, <3>1, <3>2
  <2>2. CASE u = t /\ d = L + 1 /\ su[u][d] = f
    BY <1>1, <1>8, <1>10, <2>2
  <2> QED
    BY <1>8, <2>1, <2>2
<1>13. BusyRight(p, su, busy \ {t})
  BY DEF Shape, BusyRight
<1> QED
  BY <1>9, <1>11, <1>12, <1>13 DEF Shape

(* A cell's answer put where it is awaited. *)
LEMMA ShapeAnswer ==
  ASSUME NEW p, NEW st, NEW busy, NEW cs, Shape(p, st, busy, cs), AreStacks(st),
         NEW cell \in cs, NEW n, NEW path, Awaited(p, st, cell, n, path),
         NEW v, Tells(p, n, path, v),
         NEW su, Puts(st[cell[1]], cell[2], [st[cell[1]][cell[2]] EXCEPT !.got[cell[3]] = v], su[cell[1]]),
         \A u \in Threads \ {cell[1]} : su[u] = st[u]
  PROVE  Shape(p, su, busy, cs \ {cell})
<1> DEFINE a == cell[1]
           e == cell[2]
           i == cell[3]
           f == st[a][e]
           g == [f EXCEPT !.got[i] = v]
<1>1. /\ cell \in Threads \X Nat \X (1 .. CELLS) /\ a \in Threads /\ i \in 1 .. CELLS
      /\ e \in 1 .. Len(st[a]) /\ KindOf(p, f) = "pool" /\ f.begun = CELLS /\ f.got[i] = Nothing
      /\ n = f.layer + 1 /\ path = Append(f.path, i)
  BY DEF Awaited
<1>2. DOMAIN f = Fields
  BY <1>1, StackLength DEF AreStacks
<1>3. Begun(p, st, busy) /\ Unbegun(p, st, cs) /\ BegunOnce(st) /\ BusyRight(p, st, busy)
  BY DEF Shape
<1>4. Placed(p, st, a, e) /\ Came(p, f, DoneOf(st, busy, a, e))
  BY <1>1, <1>3 DEF Begun
<1>5. /\ CELLS \in Nat /\ CELLS # 0
  BY PoolAssumption
<1>6. /\ DOMAIN f.got = 1 .. CELLS
      /\ \A j \in 1 .. CELLS : f.got[j] = Nothing \/ Tells(p, f.layer + 1, Append(f.path, j), f.got[j])
  BY <1>1, <1>4, <1>5 DEF Came
<1>7. /\ g.layer = f.layer /\ g.path = f.path /\ g.begun = f.begun /\ g.cell = f.cell
      /\ DOMAIN g.got = 1 .. CELLS
      /\ \A j \in 1 .. CELLS : g.got[j] = IF j = i THEN v ELSE f.got[j]
  BY <1>2, <1>6 DEF Fields
<1>8. Puts(st[a], e, g, su[a])
  OBVIOUS
<1> HIDE DEF g
<1>9. KindOf(p, g) = "pool"
  BY <1>1, <1>7 DEF KindOf
<1>10. \A k : Came(p, g, k)
  <2>1. \A j \in 1 .. CELLS : g.got[j] = Nothing \/ Tells(p, g.layer + 1, Append(g.path, j), g.got[j])
    BY <1>1, <1>6, <1>7
  <2> QED
    BY <1>1, <1>7, <1>9, <2>1 DEF Came
<1>11. \A u \in Threads : /\ Len(su[u]) = Len(st[u]) /\ Len(st[u]) \in Nat
                          /\ \A d \in 1 .. Len(st[u]) :
                               \/ su[u][d] = st[u][d]
                               \/ u = a /\ d = e /\ su[u][d] = g /\ st[u][d] = f
  BY <1>8, StackLength DEF AreStacks, Puts
<1> HIDE DEF f
<1>12. \A u \in Threads : \A d \in 1 .. Len(st[u]) :
         /\ su[u][d].layer = st[u][d].layer /\ su[u][d].path = st[u][d].path
         /\ su[u][d].begun = st[u][d].begun /\ su[u][d].cell = st[u][d].cell
         /\ KindOf(p, su[u][d]) = KindOf(p, st[u][d])
  <2> SUFFICES ASSUME NEW u \in Threads, NEW d \in 1 .. Len(st[u]), su[u][d] = g, st[u][d] = f
               PROVE  /\ g.layer = f.layer /\ g.path = f.path /\ g.begun = f.begun /\ g.cell = f.cell
                      /\ KindOf(p, g) = KindOf(p, f)
    BY <1>11
  <2> QED
    BY <1>1, <1>7, <1>9
<1>13. ASSUME NEW c, NEW m, NEW q, c # cell, Awaited(p, st, c, m, q)
       PROVE  Awaited(p, su, c, m, q)
  <2>1. /\ c \in Threads \X Nat \X (1 .. CELLS) /\ c[1] \in Threads /\ c[3] \in 1 .. CELLS
        /\ c[2] \in 1 .. Len(st[c[1]]) /\ c[2] \in 1 .. Len(su[c[1]])
    BY <1>11, <1>13 DEF Awaited
  <2>2. su[c[1]][c[2]].got[c[3]] = Nothing
    <3>1. st[c[1]][c[2]].got[c[3]] = Nothing
      BY <1>13 DEF Awaited
    <3>2. CASE c[1] = a /\ c[2] = e /\ su[c[1]][c[2]] = g /\ st[c[1]][c[2]] = f
      <4>1. c[3] # i
        <5>1. c = <<c[1], c[2], c[3]>> /\ cell = <<cell[1], cell[2], cell[3]>>
          BY <1>1, <2>1
        <5> QED
          BY <1>13, <3>2, <5>1
      <4> QED
        BY <1>7, <2>1, <3>1, <3>2, <4>1
    <3> QED
      BY <1>11, <2>1, <3>1, <3>2
  <2>3. /\ su[c[1]][c[2]].layer = st[c[1]][c[2]].layer /\ su[c[1]][c[2]].path = st[c[1]][c[2]].path
        /\ su[c[1]][c[2]].begun = st[c[1]][c[2]].begun
        /\ KindOf(p, su[c[1]][c[2]]) = KindOf(p, st[c[1]][c[2]])
    BY <1>12, <2>1
  <2>4. /\ KindOf(p, st[c[1]][c[2]]) = "pool" /\ st[c[1]][c[2]].begun = CELLS
        /\ m = st[c[1]][c[2]].layer + 1 /\ q = Append(st[c[1]][c[2]].path, c[3])
    BY <1>13 DEF Awaited
  <2> QED
    BY <2>1, <2>2, <2>3, <2>4 DEF Awaited
<1>14. \A u \in Threads : \A d \in 1 .. Len(st[u]) : st[u][d].cell # cell
  BY <1>3 DEF Unbegun
<1>15. ASSUME NEW u \in Threads, NEW d \in 1 .. Len(su[u])
       PROVE  Placed(p, su, u, d) /\ Came(p, su[u][d], DoneOf(su, busy, u, d))
  <2>1. d \in 1 .. Len(st[u]) /\ Placed(p, st, u, d) /\ Came(p, st[u][d], DoneOf(st, busy, u, d))
    BY <1>3, <1>11 DEF Begun
  <2>2. DoneOf(su, busy, u, d) = DoneOf(st, busy, u, d)
    BY <1>11, <1>12, <2>1 DEF DoneOf
  <2>3. Came(p, su[u][d], DoneOf(su, busy, u, d))
    BY <1>10, <1>11, <2>1, <2>2
  <2>4. Asked(p, st, u, d - 1, st[u][d].layer, st[u][d].path, st[u][d].cell)
    BY <2>1 DEF Placed
  <2>5. Asked(p, su, u, d - 1, st[u][d].layer, st[u][d].path, st[u][d].cell)
    <3>1. d - 1 # 0 =>
            /\ KindOf(p, su[u][d - 1]) = KindOf(p, st[u][d - 1]) /\ su[u][d - 1].layer = st[u][d - 1].layer
            /\ su[u][d - 1].path = st[u][d - 1].path /\ su[u][d - 1].begun = st[u][d - 1].begun
      <4>1. d - 1 # 0 => d - 1 \in 1 .. Len(st[u])
        BY <1>11, <2>1
      <4> QED
        BY <1>12, <4>1
    <3>2. CASE st[u][d].cell = NoCell
      BY <2>4, <3>1, <3>2 DEF Asked, Asks
    <3>3. CASE st[u][d].cell # NoCell
      BY <1>13, <1>14, <2>1, <2>4, <3>1, <3>3 DEF Asked
    <3> QED
      BY <3>2, <3>3
  <2>6. /\ su[u][d].layer = st[u][d].layer /\ su[u][d].path = st[u][d].path
        /\ su[u][d].begun = st[u][d].begun /\ su[u][d].cell = st[u][d].cell
    BY <1>12, <2>1
  <2>7. Placed(p, su, u, d)
    BY <2>1, <2>5, <2>6 DEF Placed
  <2> QED
    BY <2>3, <2>7
<1>16. Unbegun(p, su, cs \ {cell})
  <2> SUFFICES ASSUME NEW c \in cs \ {cell}
               PROVE  /\ \E m, q : Awaited(p, su, c, m, q)
                      /\ \A u \in Threads : \A d \in 1 .. Len(su[u]) : su[u][d].cell # c
    BY DEF Unbegun
  <2>1. PICK m, q : Awaited(p, st, c, m, q)
    BY <1>3 DEF Unbegun
  <2> QED
    BY <1>3, <1>11, <1>12, <1>13, <2>1 DEF Unbegun
<1>17. BegunOnce(su)
  <2> SUFFICES ASSUME NEW u \in Threads, NEW w \in Threads,
                      NEW d \in 1 .. Len(su[u]), NEW k \in 1 .. Len(su[w]),
                      su[u][d].cell = su[w][k].cell, su[u][d].cell # NoCell
               PROVE  u = w /\ d = k
    BY DEF BegunOnce
  <2>1. d \in 1 .. Len(st[u]) /\ k \in 1 .. Len(st[w])
    BY <1>11
  <2>2. st[u][d].cell = su[u][d].cell /\ st[w][k].cell = su[w][k].cell
    BY <1>12, <2>1
  <2>3. BegunOnce(st) /\ st[u][d].cell = st[w][k].cell /\ st[u][d].cell # NoCell
    BY <1>3, <2>2
  <2> QED
    BY <2>1, <2>3 DEF BegunOnce
<1>18. BusyRight(p, su, busy)
  <2>1. \A u \in Threads : Len(st[u]) # 0 => Len(st[u]) \in 1 .. Len(st[u])
    BY <1>11
  <2> QED
    BY <1>3, <1>11, <1>12, <2>1 DEF BusyRight
<1> QED
  BY <1>15, <1>16, <1>17, <1>18 DEF Shape, Begun

(* The cells that are awaited are awaited still when an application that   *)
(* waits for none ends.                                                    *)
AwaitedStill(p, st, su) == \A c, n, path : Awaited(p, st, c, n, path) => Awaited(p, su, c, n, path)

LEMMA PopAwaited ==
  ASSUME NEW p, NEW st, AreStacks(st),
         NEW t \in Threads, Len(st[t]) # 0, NEW f, f = st[t][Len(st[t])],
         KindOf(p, f) = "pool" => \A i \in 1 .. CELLS : f.got[i] # Nothing,
         NEW su, Pops(st[t], su[t]), \A u \in Threads \ {t} : su[u] = st[u]
  PROVE  AwaitedStill(p, st, su)
<1> SUFFICES ASSUME NEW c, NEW m, NEW q, Awaited(p, st, c, m, q)
             PROVE  Awaited(p, su, c, m, q)
  BY DEF AwaitedStill
<1> DEFINE L == Len(st[t])
<1>1. L \in Nat /\ L # 0 /\ L \in 1 .. L /\ L - 1 \in Nat
  BY StackLength DEF AreStacks
<1>2. f = st[t][L]
  BY <1>1
<1>3. Len(su[t]) = L - 1 /\ \A d \in 1 .. L - 1 : su[t][d] = st[t][d]
  BY DEF Pops
<1>4. \A u \in Threads : Len(st[u]) \in Nat /\ Len(su[u]) \in Nat /\ Len(su[u]) <= Len(st[u])
  BY <1>1, <1>3, StackLength DEF AreStacks
<1>5. \A u \in Threads : \A d \in 1 .. Len(su[u]) : su[u][d] = st[u][d] /\ d \in 1 .. Len(st[u])
  BY <1>3, <1>4 DEF L
<1> HIDE DEF L
<1>6. /\ c \in Threads \X Nat \X (1 .. CELLS) /\ c[1] \in Threads /\ c[3] \in 1 .. CELLS
      /\ c[2] \in 1 .. Len(st[c[1]])
  BY DEF Awaited
<1>7. /\ KindOf(p, st[c[1]][c[2]]) = "pool" /\ st[c[1]][c[2]].begun = CELLS
      /\ st[c[1]][c[2]].got[c[3]] = Nothing
      /\ m = st[c[1]][c[2]].layer + 1 /\ q = Append(st[c[1]][c[2]].path, c[3])
  BY DEF Awaited
<1>8. ~(c[1] = t /\ c[2] = L)
  BY <1>2, <1>6, <1>7
<1>9. c[2] \in 1 .. Len(su[c[1]])
  <2>1. CASE c[1] = t
    BY <1>1, <1>3, <1>6, <1>8, <2>1 DEF L
  <2>2. CASE c[1] # t
    BY <1>6, <2>2
  <2> QED
    BY <2>1, <2>2
<1>10. su[c[1]][c[2]] = st[c[1]][c[2]]
  BY <1>5, <1>6, <1>9
<1> QED
  BY <1>6, <1>7, <1>9, <1>10 DEF Awaited

(* What the innermost application answers is asked for over what is under  *)
(* it.                                                                     *)
LEMMA PopAsked ==
  ASSUME NEW p, NEW st, NEW busy, NEW cs, Shape(p, st, busy, cs), AreStacks(st),
         NEW t \in Threads, Len(st[t]) # 0, NEW f, f = st[t][Len(st[t])],
         KindOf(p, f) = "pool" => \A i \in 1 .. CELLS : f.got[i] # Nothing,
         NEW su, Pops(st[t], su[t]), \A u \in Threads \ {t} : su[u] = st[u]
  PROVE  Asked(p, su, t, Len(su[t]), f.layer, f.path, f.cell) /\ f.cell \notin cs
<1> DEFINE L == Len(st[t])
<1>1. L \in Nat /\ L # 0 /\ L \in 1 .. L /\ L - 1 \in Nat
  BY StackLength DEF AreStacks
<1>2. Begun(p, st, busy) /\ Unbegun(p, st, cs) /\ BegunOnce(st) /\ BusyRight(p, st, busy)
  BY DEF Shape
<1>3. Len(su[t]) = L - 1 /\ \A d \in 1 .. L - 1 : su[t][d] = st[t][d]
  BY DEF Pops
<1>4. Placed(p, st, t, L) /\ f = st[t][L]
  BY <1>1, <1>2 DEF Begun
<1> HIDE DEF L
<1>5. Asked(p, st, t, L - 1, f.layer, f.path, f.cell)
  BY <1>4 DEF Placed
<1>6. L - 1 # 0 => su[t][L - 1] = st[t][L - 1]
  BY <1>1, <1>3
<1>7. AwaitedStill(p, st, su)
  BY PopAwaited
<1>8. Asked(p, su, t, L - 1, f.layer, f.path, f.cell)
  BY <1>5, <1>6, <1>7 DEF Asked, Asks, AwaitedStill
<1>9. f.cell \notin cs
  BY <1>1, <1>2, <1>4 DEF Unbegun, L
<1> QED
  BY <1>3, <1>8, <1>9

(* The innermost application gone, and what it was asked for again. *)
LEMMA ShapePop ==
  ASSUME NEW p, NEW st, NEW busy, NEW cs, Shape(p, st, busy, cs), AreStacks(st),
         NEW t \in Threads, Len(st[t]) # 0, NEW f, f = st[t][Len(st[t])],
         KindOf(p, f) = "pool" => \A i \in 1 .. CELLS : f.got[i] # Nothing,
         NEW su, Pops(st[t], su[t]), \A u \in Threads \ {t} : su[u] = st[u],
         NEW b, b = IF f.cell = NoCell THEN busy \cup {t} ELSE busy \ {t},
         NEW w, w = IF f.cell = NoCell THEN cs ELSE cs \cup {f.cell}
  PROVE  Shape(p, su, b, w)
<1> DEFINE L == Len(st[t])
<1>1. L \in Nat /\ L # 0 /\ L \in 1 .. L /\ L - 1 \in Nat
  BY StackLength DEF AreStacks
<1>2. Begun(p, st, busy) /\ Unbegun(p, st, cs) /\ BegunOnce(st) /\ BusyRight(p, st, busy)
  BY DEF Shape
<1>3. Len(su[t]) = L - 1 /\ \A d \in 1 .. L - 1 : su[t][d] = st[t][d]
  BY DEF Pops
<1>4. \A u \in Threads : Len(st[u]) \in Nat /\ Len(su[u]) \in Nat /\ Len(su[u]) <= Len(st[u])
  BY <1>1, <1>3, StackLength DEF AreStacks
<1>5. \A u \in Threads : \A d \in 1 .. Len(su[u]) : su[u][d] = st[u][d] /\ d \in 1 .. Len(st[u])
  BY <1>3, <1>4 DEF L
<1>6. Placed(p, st, t, L) /\ f = st[t][L]
  BY <1>1, <1>2 DEF Begun
<1> HIDE DEF L
<1>7. AwaitedStill(p, st, su)
  BY PopAwaited
<1>8. Asked(p, su, t, L - 1, f.layer, f.path, f.cell)
  BY <1>3, PopAsked DEF L
<1>9. ASSUME NEW u \in Threads, NEW d \in 1 .. Len(su[u])
       PROVE  Placed(p, su, u, d) /\ Came(p, su[u][d], DoneOf(su, b, u, d))
  <2>1. /\ d \in 1 .. Len(st[u]) /\ su[u][d] = st[u][d]
        /\ Placed(p, st, u, d) /\ Came(p, st[u][d], DoneOf(st, busy, u, d))
    BY <1>2, <1>5 DEF Begun
  <2>2. d - 1 # 0 => su[u][d - 1] = st[u][d - 1]
    <3>1. d - 1 # 0 => d - 1 \in 1 .. Len(su[u])
      BY <1>4
    <3> QED
      BY <1>5, <3>1
  <2>3. Placed(p, su, u, d)
    BY <1>7, <2>1, <2>2 DEF Placed, Asked, Asks, AwaitedStill
  <2>4. CASE u # t
    <3>1. DoneOf(su, b, u, d) = DoneOf(st, busy, u, d)
      BY <2>1, <2>4 DEF DoneOf
    <3> QED
      BY <2>1, <2>3, <3>1
  <2>5. CASE u = t
    <3>1. d < L /\ d \in 1 .. L - 1
      BY <1>1, <1>3, <2>5
    <3>2. DoneOf(st, busy, u, d) = st[t][d].begun - 1
      BY <2>5, <3>1 DEF DoneOf, L
    <3>3. CASE d < L - 1 \/ f.cell = NoCell
      <4>1. DoneOf(su, b, u, d) = st[t][d].begun - 1
        BY <1>3, <2>1, <2>5, <3>3 DEF DoneOf
      <4> QED
        BY <2>1, <2>3, <3>2, <4>1
    <3>4. CASE d = L - 1 /\ f.cell # NoCell
      <4>1. L - 1 # 0
        BY <3>1, <3>4
      <4>2. KindOf(p, su[t][d]) = "pool"
        BY <1>8, <3>4, <4>1 DEF Asked
      <4> QED
        BY <2>1, <2>3, <2>5, <4>2, PoolCame
    <3> QED
      BY <1>1, <3>1, <3>3, <3>4
  <2> QED
    BY <2>4, <2>5
<1>10. Unbegun(p, su, w)
  <2> SUFFICES ASSUME NEW c \in w
               PROVE  /\ \E m, q : Awaited(p, su, c, m, q)
                      /\ \A u \in Threads : \A d \in 1 .. Len(su[u]) : su[u][d].cell # c
    BY DEF Unbegun
  <2>1. CASE c \in cs
    <3>1. PICK m, q : Awaited(p, st, c, m, q)
      BY <1>2, <2>1 DEF Unbegun
    <3> QED
      BY <1>2, <1>5, <1>7, <2>1, <3>1 DEF Unbegun, AwaitedStill
  <2>2. CASE f.cell # NoCell /\ c = f.cell
    <3>1. Awaited(p, su, c, f.layer, f.path)
      BY <1>8, <2>2 DEF Asked
    <3>2. ASSUME NEW u \in Threads, NEW d \in 1 .. Len(su[u]), su[u][d].cell = c
          PROVE  FALSE
      <4>1. d \in 1 .. Len(st[u]) /\ st[u][d].cell = st[t][L].cell
        BY <1>5, <1>6, <2>2, <3>2
      <4>2. u = t /\ d = L
        BY <1>1, <1>2, <1>6, <2>2, <4>1 DEF BegunOnce, L
      <4> QED
        BY <1>1, <1>3, <3>2, <4>2
    <3> QED
      BY <3>1, <3>2
  <2> QED
    BY <2>1, <2>2
<1>11. BegunOnce(su)
  <2> SUFFICES ASSUME NEW u \in Threads, NEW v \in Threads,
                      NEW d \in 1 .. Len(su[u]), NEW e \in 1 .. Len(su[v]),
                      su[u][d].cell = su[v][e].cell, su[u][d].cell # NoCell
               PROVE  u = v /\ d = e
    BY DEF BegunOnce
  <2>1. /\ d \in 1 .. Len(st[u]) /\ e \in 1 .. Len(st[v])
        /\ st[u][d].cell = st[v][e].cell /\ st[u][d].cell # NoCell
    BY <1>5
  <2> QED
    BY <1>2, <2>1 DEF BegunOnce
<1>12. BusyRight(p, su, b)
  <2> SUFFICES ASSUME NEW u \in Threads, u \in b
               PROVE  IF Len(su[u]) = 0 THEN u \in Hosts
                      ELSE KindOf(p, su[u][Len(su[u])]) \in {"fold", "cells", "stop"}
    BY DEF BusyRight
  <2>1. CASE u # t
    BY <1>2, <2>1 DEF BusyRight
  <2>2. CASE u = t
    <3>1. f.cell = NoCell
      BY <2>2
    <3> QED
      BY <1>3, <1>8, <2>2, <3>1 DEF Asked, Asks
  <2> QED
    BY <2>1, <2>2
<1> QED
  BY <1>9, <1>10, <1>11, <1>12 DEF Shape, Begun

(* A thread with nothing on it is as well busy as not. *)
LEMMA ShapeIdle ==
  ASSUME NEW p, NEW st, NEW busy, NEW cs, Shape(p, st, busy, cs),
         NEW t \in Threads, Len(st[t]) = 0, NEW b, b \ {t} = busy \ {t}, t \in b => t \in Hosts
  PROVE  Shape(p, st, b, cs)
<1>1. \A u \in Threads : \A d \in 1 .. Len(st[u]) : DoneOf(st, b, u, d) = DoneOf(st, busy, u, d)
  <2> SUFFICES ASSUME NEW u \in Threads, NEW d \in 1 .. Len(st[u])
               PROVE  DoneOf(st, b, u, d) = DoneOf(st, busy, u, d)
    OBVIOUS
  <2>1. u # t
    OBVIOUS
  <2>2. u \in b <=> u \in busy
    BY <2>1
  <2> QED
    BY <2>2 DEF DoneOf
<1>2. Begun(p, st, b)
  BY <1>1 DEF Shape, Begun
<1>3. \A u \in Threads : u # t => (u \in b <=> u \in busy)
  OBVIOUS
<1>4. BusyRight(p, st, b)
  BY <1>3 DEF Shape, BusyRight
<1> QED
  BY <1>2, <1>4 DEF Shape

(* The innermost application further on. *)
LEMMA ShapePut ==
  ASSUME NEW p, NEW st, NEW busy, NEW cs, Shape(p, st, busy, cs), AreStacks(st),
         NEW t \in Threads, Len(st[t]) # 0, NEW f, f = st[t][Len(st[t])],
         NEW g, g.layer = f.layer, g.path = f.path, g.cell = f.cell, g.begun \in Nat,
         KindOf(p, f) # "pool",
         NEW b, b \ {t} = busy \ {t}, t \in b => KindOf(p, f) \in {"fold", "cells", "stop"},
         Came(p, g, g.begun - (IF t \in b THEN 1 ELSE 0)),
         NEW su, Puts(st[t], Len(st[t]), g, su[t]), \A u \in Threads \ {t} : su[u] = st[u]
  PROVE  Shape(p, su, b, cs)
<1> DEFINE L == Len(st[t])
<1>1. L \in Nat /\ L # 0 /\ L \in 1 .. L
  BY StackLength DEF AreStacks
<1>2. Begun(p, st, busy) /\ Unbegun(p, st, cs) /\ BegunOnce(st) /\ BusyRight(p, st, busy)
  BY DEF Shape
<1>3. Len(su[t]) = L /\ su[t][L] = g /\ \A d \in 1 .. L : d # L => su[t][d] = st[t][d]
  BY DEF Puts
<1>4. \A u \in Threads : /\ Len(st[u]) \in Nat /\ Len(su[u]) = Len(st[u])
                         /\ \A d \in 1 .. Len(st[u]) :
                              \/ su[u][d] = st[u][d] /\ (u # t \/ d < L)
                              \/ u = t /\ d = L /\ su[u][d] = g /\ st[u][d] = f
  BY <1>1, <1>3, StackLength DEF AreStacks, L
<1>5. KindOf(p, g) = KindOf(p, f)
  BY DEF KindOf
<1>6. \A u \in Threads : \A d \in 1 .. Len(st[u]) :
        /\ su[u][d].layer = st[u][d].layer /\ su[u][d].path = st[u][d].path
        /\ su[u][d].cell = st[u][d].cell /\ KindOf(p, su[u][d]) = KindOf(p, st[u][d])
  BY <1>4, <1>5
<1> HIDE DEF L
<1>7. ASSUME NEW c, NEW m, NEW q, Awaited(p, st, c, m, q)
      PROVE  Awaited(p, su, c, m, q)
  <2>1. /\ c \in Threads \X Nat \X (1 .. CELLS) /\ c[1] \in Threads
        /\ c[2] \in 1 .. Len(st[c[1]]) /\ c[2] \in 1 .. Len(su[c[1]])
        /\ KindOf(p, st[c[1]][c[2]]) = "pool"
    BY <1>4, <1>7 DEF Awaited
  <2>2. su[c[1]][c[2]] = st[c[1]][c[2]]
    BY <1>4, <2>1
  <2> QED
    BY <1>7, <2>1, <2>2 DEF Awaited
<1>8. ASSUME NEW u \in Threads, NEW d \in 1 .. Len(su[u])
      PROVE  Placed(p, su, u, d) /\ Came(p, su[u][d], DoneOf(su, b, u, d))
  <2>1. /\ d \in 1 .. Len(st[u]) /\ Len(st[u]) \in Nat
        /\ Placed(p, st, u, d) /\ Came(p, st[u][d], DoneOf(st, busy, u, d))
    BY <1>2, <1>4 DEF Begun
  <2>2. d - 1 # 0 => su[u][d - 1] = st[u][d - 1]
    <3>1. d - 1 # 0 => d - 1 \in 1 .. Len(st[u])
      BY <2>1
    <3>2. u = t => d - 1 # L
      BY <2>1 DEF L
    <3> QED
      BY <1>4, <3>1, <3>2
  <2>3. Asked(p, su, u, d - 1, st[u][d].layer, st[u][d].path, st[u][d].cell)
    BY <1>7, <2>1, <2>2 DEF Placed, Asked, Asks
  <2>4. su[u][d].begun \in Nat
    BY <1>4, <2>1 DEF Placed
  <2>5. Placed(p, su, u, d)
    BY <1>6, <2>1, <2>3, <2>4 DEF Placed
  <2>6. CASE su[u][d] = st[u][d] /\ (u # t \/ d < L)
    <3>1. DoneOf(su, b, u, d) = DoneOf(st, busy, u, d)
      <4>1. CASE u # t
        <5>1. u \in b <=> u \in busy
          BY <4>1
        <5> QED
          BY <1>4, <2>6, <5>1 DEF DoneOf
      <4>2. CASE u = t /\ d < L
        BY <1>3, <2>6, <4>2 DEF DoneOf, L
      <4> QED
        BY <2>6, <4>1, <4>2
    <3> QED
      BY <2>1, <2>5, <2>6, <3>1
  <2>7. CASE u = t /\ d = L /\ su[u][d] = g
    <3>1. DoneOf(su, b, u, d) = g.begun - (IF t \in b THEN 1 ELSE 0)
      BY <1>1, <1>3, <2>7 DEF DoneOf
    <3> QED
      BY <2>5, <2>7, <3>1
  <2> QED
    BY <1>4, <2>1, <2>6, <2>7
<1>9. Unbegun(p, su, cs)
  <2> SUFFICES ASSUME NEW c \in cs
               PROVE  /\ \E m, q : Awaited(p, su, c, m, q)
                      /\ \A u \in Threads : \A d \in 1 .. Len(su[u]) : su[u][d].cell # c
    BY DEF Unbegun
  <2>1. PICK m, q : Awaited(p, st, c, m, q)
    BY <1>2 DEF Unbegun
  <2>2. \A u \in Threads : \A d \in 1 .. Len(st[u]) : st[u][d].cell # c
    BY <1>2 DEF Unbegun
  <2> QED
    BY <1>4, <1>6, <1>7, <2>1, <2>2
<1>10. BegunOnce(su)
  <2> SUFFICES ASSUME NEW u \in Threads, NEW v \in Threads,
                      NEW d \in 1 .. Len(su[u]), NEW e \in 1 .. Len(su[v]),
                      su[u][d].cell = su[v][e].cell, su[u][d].cell # NoCell
               PROVE  u = v /\ d = e
    BY DEF BegunOnce
  <2>1. d \in 1 .. Len(st[u]) /\ e \in 1 .. Len(st[v])
    BY <1>4
  <2>2. su[u][d].cell = st[u][d].cell /\ su[v][e].cell = st[v][e].cell
    BY <1>6, <2>1
  <2>3. st[u][d].cell = st[v][e].cell /\ st[u][d].cell # NoCell
    BY <2>2
  <2> QED
    BY <1>2, <2>1, <2>3 DEF BegunOnce
<1>11. BusyRight(p, su, b)
  <2> SUFFICES ASSUME NEW u \in Threads, u \in b
               PROVE  IF Len(su[u]) = 0 THEN u \in Hosts
                      ELSE KindOf(p, su[u][Len(su[u])]) \in {"fold", "cells", "stop"}
    BY DEF BusyRight
  <2>1. CASE u # t
    <3>1. u \in busy
      BY <2>1
    <3> QED
      BY <1>2, <2>1, <3>1 DEF BusyRight
  <2>2. CASE u = t
    BY <1>1, <1>3, <1>5, <2>2 DEF L
  <2> QED
    BY <2>1, <2>2
<1> QED
  BY <1>8, <1>9, <1>10, <1>11 DEF Shape, Begun

(* The cells of an application handed out. *)
HandedOut(t, s) == {<<t, Len(s), i>> : i \in 1 .. CELLS}

LEMMA ShapeHandOut ==
  ASSUME NEW p, NEW st, NEW busy, NEW cs, Shape(p, st, busy, cs), AreStacks(st),
         NEW t \in Threads, Len(st[t]) # 0, NEW f, f = st[t][Len(st[t])],
         KindOf(p, f) = "pool", f.begun = 0,
         NEW g, g.layer = f.layer, g.path = f.path, g.cell = f.cell, g.begun = CELLS,
         DOMAIN g.got = 1 .. CELLS, \A i \in 1 .. CELLS : g.got[i] = Nothing,
         NEW su, Puts(st[t], Len(st[t]), g, su[t]), \A u \in Threads \ {t} : su[u] = st[u],
         NEW w, w = cs \cup HandedOut(t, st[t])
  PROVE  Shape(p, su, busy, w)
<1> DEFINE L == Len(st[t])
           new == {<<t, L, i>> : i \in 1 .. CELLS}
<1>0. CELLS \in Nat /\ CELLS # 0
  BY PoolAssumption
<1>1. L \in Nat /\ L # 0 /\ L \in 1 .. L
  BY StackLength DEF AreStacks
<1>2. Begun(p, st, busy) /\ Unbegun(p, st, cs) /\ BegunOnce(st) /\ BusyRight(p, st, busy)
  BY DEF Shape
<1>3. Len(su[t]) = L /\ su[t][L] = g /\ \A d \in 1 .. L : d # L => su[t][d] = st[t][d]
  BY DEF Puts
<1>4. \A u \in Threads : /\ Len(st[u]) \in Nat /\ Len(su[u]) = Len(st[u])
                         /\ \A d \in 1 .. Len(st[u]) :
                              \/ su[u][d] = st[u][d] /\ (u # t \/ d < L)
                              \/ u = t /\ d = L /\ su[u][d] = g /\ st[u][d] = f
  BY <1>1, <1>3, StackLength DEF AreStacks, L
<1>5. KindOf(p, g) = "pool"
  BY DEF KindOf
<1>6. \A u \in Threads : \A d \in 1 .. Len(st[u]) :
        /\ su[u][d].layer = st[u][d].layer /\ su[u][d].path = st[u][d].path
        /\ su[u][d].cell = st[u][d].cell /\ KindOf(p, su[u][d]) = KindOf(p, st[u][d])
  BY <1>4, <1>5
<1> HIDE DEF L
<1>7. ASSUME NEW c, NEW m, NEW q, Awaited(p, st, c, m, q)
      PROVE  Awaited(p, su, c, m, q) /\ ~(c[1] = t /\ c[2] = L)
  <2>1. /\ c \in Threads \X Nat \X (1 .. CELLS) /\ c[1] \in Threads
        /\ c[2] \in 1 .. Len(st[c[1]]) /\ c[2] \in 1 .. Len(su[c[1]])
        /\ st[c[1]][c[2]].begun = CELLS
    BY <1>4, <1>7 DEF Awaited
  <2>2. ~(c[1] = t /\ c[2] = L)
    BY <1>0, <2>1 DEF L
  <2>3. su[c[1]][c[2]] = st[c[1]][c[2]]
    BY <1>4, <2>1, <2>2
  <2> QED
    BY <1>7, <2>1, <2>2, <2>3 DEF Awaited
<1>8. \A k : Came(p, g, k)
  BY <1>5 DEF Came
<1>9. ASSUME NEW u \in Threads, NEW d \in 1 .. Len(su[u])
      PROVE  Placed(p, su, u, d) /\ Came(p, su[u][d], DoneOf(su, busy, u, d))
  <2>1. /\ d \in 1 .. Len(st[u]) /\ Len(st[u]) \in Nat
        /\ Placed(p, st, u, d) /\ Came(p, st[u][d], DoneOf(st, busy, u, d))
    BY <1>2, <1>4 DEF Begun
  <2>2. d - 1 # 0 => su[u][d - 1] = st[u][d - 1]
    <3>1. d - 1 # 0 => d - 1 \in 1 .. Len(st[u])
      BY <2>1
    <3>2. u = t => d - 1 # L
      BY <2>1 DEF L
    <3> QED
      BY <1>4, <3>1, <3>2
  <2>3. Asked(p, su, u, d - 1, st[u][d].layer, st[u][d].path, st[u][d].cell)
    BY <1>7, <2>1, <2>2 DEF Placed, Asked, Asks
  <2>4. su[u][d].begun \in Nat
    BY <1>0, <1>4, <2>1 DEF Placed
  <2>5. Placed(p, su, u, d)
    BY <1>6, <2>1, <2>3, <2>4 DEF Placed
  <2>6. CASE su[u][d] = st[u][d] /\ (u # t \/ d < L)
    <3>1. DoneOf(su, busy, u, d) = DoneOf(st, busy, u, d)
      BY <1>4, <2>6 DEF DoneOf
    <3> QED
      BY <2>1, <2>5, <2>6, <3>1
  <2>7. CASE u = t /\ d = L /\ su[u][d] = g
    BY <1>8, <2>5, <2>7
  <2> QED
    BY <1>4, <2>1, <2>6, <2>7
<1>10. Unbegun(p, su, cs \cup new)
  <2> SUFFICES ASSUME NEW c \in cs \cup new
               PROVE  /\ \E m, q : Awaited(p, su, c, m, q)
                      /\ \A u \in Threads : \A d \in 1 .. Len(su[u]) : su[u][d].cell # c
    BY DEF Unbegun
  <2>1. CASE c \in cs
    <3>1. PICK m, q : Awaited(p, st, c, m, q)
      BY <1>2, <2>1 DEF Unbegun
    <3>2. \A u \in Threads : \A d \in 1 .. Len(st[u]) : st[u][d].cell # c
      BY <1>2, <2>1 DEF Unbegun
    <3> QED
      BY <1>4, <1>6, <1>7, <3>1, <3>2
  <2>2. CASE c \in new
    <3>1. PICK i \in 1 .. CELLS : c = <<t, L, i>>
      BY <2>2
    <3>2. c \in Threads \X Nat \X (1 .. CELLS) /\ c[1] = t /\ c[2] = L /\ c[3] = i
      BY <1>1, <3>1
    <3>3. g.got[i] = Nothing
      OBVIOUS
    <3>4. Awaited(p, su, c, g.layer + 1, Append(g.path, i))
      <4>1. c[2] \in 1 .. Len(su[c[1]]) /\ su[c[1]][c[2]] = g
        BY <1>1, <1>3, <3>2
      <4> QED
        BY <1>5, <3>2, <3>3, <4>1 DEF Awaited
    <3>5. ASSUME NEW u \in Threads, NEW d \in 1 .. Len(su[u]), su[u][d].cell = c
          PROVE  FALSE
      <4>1. d \in 1 .. Len(st[u]) /\ st[u][d].cell = c
        BY <1>4, <1>6, <3>5
      <4>2. c # NoCell
        BY <3>4, CellIsNoStack
      <4>3. Awaited(p, st, c, st[u][d].layer, st[u][d].path)
        BY <1>2, <4>1, <4>2 DEF Begun, Placed, Asked
      <4> QED
        BY <1>7, <3>2, <4>3
    <3> QED
      BY <3>4, <3>5
  <2> QED
    BY <2>1, <2>2
<1>11. BegunOnce(su)
  <2> SUFFICES ASSUME NEW u \in Threads, NEW v \in Threads,
                      NEW d \in 1 .. Len(su[u]), NEW e \in 1 .. Len(su[v]),
                      su[u][d].cell = su[v][e].cell, su[u][d].cell # NoCell
               PROVE  u = v /\ d = e
    BY DEF BegunOnce
  <2>1. d \in 1 .. Len(st[u]) /\ e \in 1 .. Len(st[v])
    BY <1>4
  <2>2. su[u][d].cell = st[u][d].cell /\ su[v][e].cell = st[v][e].cell
    BY <1>6, <2>1
  <2>3. st[u][d].cell = st[v][e].cell /\ st[u][d].cell # NoCell
    BY <2>2
  <2> QED
    BY <1>2, <2>1, <2>3 DEF BegunOnce
<1>12. BusyRight(p, su, busy)
  <2>1. \A u \in Threads : Len(st[u]) # 0 => Len(st[u]) \in 1 .. Len(st[u])
    BY <1>4
  <2> QED
    BY <1>2, <1>4, <1>6, <2>1 DEF BusyRight
<1>13. Shape(p, su, busy, cs \cup new)
  BY <1>9, <1>10, <1>11, <1>12 DEF Shape, Begun
<1> QED
  BY <1>13 DEF L, HandedOut

-----------------------------------------------------------------------------
(* What a step does to what stops have left. *)

(* FOLD_STOPS after something has left c there: the innermost fold's cell  *)
(* is overwritten.                                                         *)
WithLeft(s, c) == IF c = NoStop THEN s ELSE [s EXCEPT ![Len(s)] = c]

(* Level by level of a stack, what each application finds in place again   *)
(* when what it has asked for last has left what it leaves: a fold opens a *)
(* cell, cells one after the other leave what they leave.                  *)
Stepped(p, s, f) ==
  IF KindOf(p, f) = "fold" THEN Append(s, NoStop)
  ELSE IF KindOf(p, f) = "cells" THEN WithLeft(s, CellsOf(p, f)[Len(f.got)].left) ELSE s

Levels(p, s, S) ==
  /\ S \in [Nat -> Stops] /\ S[0] = <<>>
  /\ \A d \in 1 .. Len(s) : /\ S[d] = Stepped(p, S[d - 1], s[d])
                            /\ Home(p, s[d].layer) => S[d - 1] # <<>>
  /\ \A d \in 0 .. Len(s) : S[d] # <<>> => Opened(p)

(* b is what is in place over the stack s when what was asked for last has *)
(* left c.                                                                 *)
KeptBy(p, s, b, c) == \E S : Levels(p, s, S) /\ b = WithLeft(S[Len(s)], c)

(* What is left is a control in place of the one before it, never a cell   *)
(* more or fewer.                                                          *)
LEMMA LeftIs ==
  ASSUME NEW s \in Stops, NEW a \in Controls \cup {NoStop}, NEW c \in Controls \cup {NoStop}
  PROVE  /\ WithLeft(s, NoStop) = s
         /\ WithLeft(s, c) \in Stops /\ Len(WithLeft(s, c)) = Len(s)
         /\ WithLeft(s, c) = <<>> <=> s = <<>>
         /\ WithLeft(WithLeft(s, a), c) = WithLeft(s, Over(a, c))
<1>1. /\ s \in Seq(Controls \cup {NoStop}) /\ Len(s) \in Nat
      /\ s = <<>> <=> Len(s) = 0
  <2>1. Len(s) = 0 => s = <<>>
    BY EmptySeq, SeqEqual DEF Stops
  <2> QED
    BY <2>1 DEF Stops
<1>2. \A x \in Controls \cup {NoStop} :
        /\ [s EXCEPT ![Len(s)] = x] \in Seq(Controls \cup {NoStop})
        /\ Len([s EXCEPT ![Len(s)] = x]) = Len(s)
  <2> SUFFICES ASSUME NEW x \in Controls \cup {NoStop}
               PROVE  /\ [s EXCEPT ![Len(s)] = x] \in Seq(Controls \cup {NoStop})
                      /\ Len([s EXCEPT ![Len(s)] = x]) = Len(s)
    OBVIOUS
  <2> DEFINE r == [s EXCEPT ![Len(s)] = x]
  <2>1. r \in [1 .. Len(s) -> Controls \cup {NoStop}]
    <3> DEFINE T == Controls \cup {NoStop}
    <3>1. s \in Seq(T) /\ x \in T
      BY <1>1
    <3> HIDE DEF T
    <3>2. s \in [1 .. Len(s) -> T]
      BY <3>1, LenProperties
    <3>3. r \in [1 .. Len(s) -> T]
      BY <3>1, <3>2
    <3> QED
      BY <3>3 DEF T
  <2> HIDE DEF r
  <2>2. r \in Seq(Controls \cup {NoStop}) /\ Len(r) = Len(s)
    BY <1>1, <2>1
  <2> QED
    BY <2>2 DEF r
<1>3. WithLeft(s, c) \in Stops /\ Len(WithLeft(s, c)) = Len(s)
  BY <1>1, <1>2 DEF WithLeft, Stops
<1>4. WithLeft(s, c) = <<>> <=> s = <<>>
  <2>1. Len(WithLeft(s, c)) = 0 => WithLeft(s, c) = <<>>
    BY <1>3, EmptySeq, SeqEqual DEF Stops
  <2> QED
    BY <1>1, <1>3, <2>1
<1>5. WithLeft(WithLeft(s, a), c) = WithLeft(s, Over(a, c))
  <2>1. CASE c = NoStop
    BY <2>1 DEF WithLeft, Over
  <2>2. CASE c # NoStop /\ a = NoStop
    BY <2>2 DEF WithLeft, Over
  <2>3. CASE c # NoStop /\ a # NoStop
    <3> DEFINE r == [s EXCEPT ![Len(s)] = a]
    <3>1. Len(r) = Len(s)
      BY <1>2
    <3>2. WithLeft(WithLeft(s, a), c) = [r EXCEPT ![Len(r)] = c]
      BY <2>3 DEF WithLeft
    <3>3. WithLeft(s, Over(a, c)) = [s EXCEPT ![Len(s)] = c]
      BY <2>3 DEF WithLeft, Over
    <3>4. [r EXCEPT ![Len(s)] = c] = [s EXCEPT ![Len(s)] = c]
      OBVIOUS
    <3> HIDE DEF r
    <3> QED
      BY <3>1, <3>2, <3>3, <3>4
  <2> QED
    BY <2>1, <2>2, <2>3
<1> QED
  BY <1>3, <1>4, <1>5 DEF WithLeft

(* Where no fold is open there is nowhere to leave anything. *)
LEMMA LeftOnNothing == ASSUME NEW c PROVE WithLeft(<<>>, c) = <<>>
<1>1. DOMAIN [<<>> EXCEPT ![Len(<<>>)] = c] = {}
  OBVIOUS
<1>2. [<<>> EXCEPT ![Len(<<>>)] = c] = <<>>
  BY <1>1
<1> QED
  BY <1>2 DEF WithLeft

(* The cell of a fold: opened, read, put back and dropped. *)
LEMMA FrameIs ==
  ASSUME NEW s \in Stops, NEW c \in Controls \cup {NoStop}
  PROVE  LET b == WithLeft(Append(s, NoStop), c) IN
         /\ Append(s, NoStop) \in Stops /\ Append(s, NoStop) # <<>>
         /\ Front(b) = s /\ Last(b) = c
         /\ [b EXCEPT ![Len(b)] = NoStop] = Append(s, NoStop)
<1> DEFINE T == Controls \cup {NoStop}
           r == Append(s, NoStop)
           b == WithLeft(r, c)
<1>1. s \in Seq(T) /\ NoStop \in T /\ Len(s) \in Nat
  BY DEF Stops
<1>2. /\ r \in Seq(T) /\ Len(r) = Len(s) + 1 /\ r[Len(s) + 1] = NoStop
      /\ \A i \in 1 .. Len(s) : r[i] = s[i]
  BY <1>1
<1>3. r # <<>>
  BY <1>1, <1>2
<1> HIDE DEF r
<1>4. b \in Seq(T) /\ Len(b) = Len(s) + 1
  BY <1>2, LeftIs DEF Stops
<1>5. b[Len(s) + 1] = c /\ \A i \in 1 .. Len(s) : b[i] = s[i]
  <2>1. CASE c = NoStop
    BY <1>2, <2>1 DEF WithLeft
  <2>2. CASE c # NoStop
    <3>1. b = [r EXCEPT ![Len(s) + 1] = c]
      BY <1>2, <2>2 DEF WithLeft
    <3>2. DOMAIN r = 1 .. Len(s) + 1
      BY <1>2
    <3> HIDE DEF b
    <3> QED
      BY <1>1, <1>2, <3>1, <3>2
  <2> QED
    BY <2>1, <2>2
<1> HIDE DEF T, b
<1>6. Last(b) = c
  BY <1>4, <1>5 DEF Last
<1>7. Front(b) = s
  <2> DEFINE q == SubSeq(b, 1, Len(b) - 1)
  <2>1. Front(b) = q
    BY DEF Front
  <2>2. Len(b) - 1 = Len(s) /\ 1 \in Int /\ Len(s) \in Int
    BY <1>1, <1>4
  <2>3. \A i \in 1 .. Len(s) : b[i] \in T
    BY <1>1, <1>5
  <2>4. /\ SubSeq(b, 1, Len(s)) \in Seq(T)
        /\ Len(SubSeq(b, 1, Len(s))) = IF 1 <= Len(s) THEN Len(s) - 1 + 1 ELSE 0
        /\ \A i \in 1 .. Len(s) - 1 + 1 : SubSeq(b, 1, Len(s))[i] = b[1 + i - 1]
    BY <2>2, <2>3, SubSeqProperties
  <2>5. q = SubSeq(b, 1, Len(s))
    BY <2>2
  <2> HIDE DEF q
  <2>6. q \in Seq(T) /\ Len(q) = IF 1 <= Len(s) THEN Len(s) - 1 + 1 ELSE 0
    BY <2>4, <2>5
  <2> DEFINE l == Len(q)
             n == Len(s)
  <2>7. l = (IF 1 <= n THEN n - 1 + 1 ELSE 0) /\ n \in Nat
    BY <1>1, <2>6
  <2> HIDE DEF l, n
  <2>8. l = n
    BY <2>7
  <2>9. \A i \in 1 .. n : q[i] = s[i]
    <3> SUFFICES ASSUME NEW i \in 1 .. n PROVE q[i] = s[i]
      OBVIOUS
    <3>1. i \in 1 .. n - 1 + 1 /\ 1 + i - 1 = i
      BY <2>7
    <3>2. SubSeq(b, 1, Len(s))[i] = b[1 + i - 1]
      BY <2>4, <3>1 DEF n
    <3>3. b[i] = s[i]
      BY <1>5 DEF n
    <3> QED
      BY <2>5, <3>1, <3>2, <3>3
  <2>10. Len(q) = Len(s) /\ \A i \in 1 .. Len(q) : q[i] = s[i]
    BY <2>8, <2>9 DEF l, n
  <2>11. q = s
    BY <1>1, <2>6, <2>10, SeqEqual
  <2> QED
    BY <2>1, <2>11
<1>8. [b EXCEPT ![Len(b)] = NoStop] = r
  <2> DEFINE q == [b EXCEPT ![Len(b)] = NoStop]
  <2>1. DOMAIN b = 1 .. Len(s) + 1 /\ DOMAIN r = 1 .. Len(s) + 1
    BY <1>2, <1>4
  <2>2. DOMAIN q = DOMAIN b /\ \A i \in DOMAIN b : q[i] = IF i = Len(b) THEN NoStop ELSE b[i]
    OBVIOUS
  <2> HIDE DEF q
  <2>3. \A i \in 1 .. Len(s) + 1 : q[i] = r[i]
    BY <1>1, <1>2, <1>4, <1>5, <2>1, <2>2
  <2>4. q \in Seq(T)
    <3>1. \A i \in 1 .. Len(s) + 1 : r[i] \in T
      BY <1>2
    <3>2. q = [i \in 1 .. Len(s) + 1 |-> q[i]]
      <4>1. b \in [1 .. Len(b) -> T]
        BY <1>4, LenProperties
      <4>2. q = [i \in DOMAIN b |-> q[i]]
        BY <4>1 DEF q
      <4> QED
        BY <2>1, <4>2
    <3>3. q \in [1 .. Len(s) + 1 -> T]
      BY <2>3, <3>1, <3>2
    <3> QED
      BY <1>1, <3>3
  <2>5. Len(q) = Len(s) + 1
    BY <1>1, <2>1, <2>2, <2>4
  <2>6. q = r
    BY <1>2, <2>3, <2>4, <2>5, SeqEqual
  <2> QED
    BY <2>6 DEF q
<1>9. r \in Stops
  BY <1>2 DEF Stops, T
<1> QED
  BY <1>3, <1>6, <1>7, <1>8, <1>9 DEF r, b

(* An application begun: a fold opens its cell, and finds those outside it *)
(* as they were.                                                           *)
LEMMA KeptPush ==
  ASSUME NEW p, NEW s, IsStack(s), NEW b, KeptBy(p, s, b, NoStop),
         NEW n \in 1 .. Innermost(p), NEW path, NEW cell, Through(p, n), Home(p, n) => b # <<>>,
         NEW r, Pushes(s, Application(n, path, cell), r)
  PROVE  KeptBy(p, r, IF LayerOf(p, n) = "fold" THEN Append(b, NoStop) ELSE b, NoStop)
<1> DEFINE f == Application(n, path, cell)
           L == Len(s)
           a == IF LayerOf(p, n) = "fold" THEN Append(b, NoStop) ELSE b
<1>1. f.layer = n /\ f.path = path /\ f.got = <<>>
  BY DEF Application
<1>2. L \in Nat /\ Len(r) = L + 1 /\ r[L + 1] = f /\ \A i \in 1 .. L : r[i] = s[i]
  BY StackLength DEF Pushes
<1>3. PICK S : Levels(p, s, S) /\ b = WithLeft(S[L], NoStop)
  BY DEF KeptBy
<1> HIDE DEF f, L
<1>4. /\ S \in [Nat -> Stops] /\ S[0] = <<>> /\ b = S[L] /\ S[L] \in Stops
      /\ \A d \in 1 .. L : S[d] = Stepped(p, S[d - 1], s[d]) /\ (Home(p, s[d].layer) => S[d - 1] # <<>>)
      /\ \A d \in 0 .. L : S[d] # <<>> => Opened(p)
  BY <1>2, <1>3 DEF Levels, WithLeft, L
<1>5. a \in Stops
  BY <1>4 DEF Stops
<1>6. Stepped(p, b, f) = a
  <2>1. CellsOf(p, f)[Len(f.got)].left = NoStop
    <3>1. CellsOf(p, f)[0] = [left |-> NoStop, said |-> Fine(<<>>)]
      BY CellsAlong DEF CellsOf
    <3>2. Len(f.got) = 0
      BY <1>1
    <3> QED
      BY <3>1, <3>2
  <2> QED
    BY <1>1, <2>1 DEF Stepped, KindOf, WithLeft
<1>7. a # <<>> => Opened(p)
  <2>1. L \in 0 .. L
    BY <1>2
  <2> QED
    BY <1>4, <2>1 DEF Opened
<1> HIDE DEF a
<1> DEFINE R == [S EXCEPT ![L + 1] = a]
<1>8. /\ R \in [Nat -> Stops] /\ R[0] = <<>> /\ R[L + 1] = a
      /\ \A d \in 0 .. L : R[d] = S[d]
  BY <1>2, <1>4, <1>5
<1> HIDE DEF R
<1>9. ASSUME NEW d \in 1 .. Len(r)
      PROVE  R[d] = Stepped(p, R[d - 1], r[d]) /\ (Home(p, r[d].layer) => R[d - 1] # <<>>)
  <2>1. CASE d \in 1 .. L
    <3>1. d - 1 \in 0 .. L /\ d \in 0 .. L
      BY <1>2, <2>1
    <3>2. R[d] = S[d] /\ R[d - 1] = S[d - 1] /\ r[d] = s[d]
      BY <1>2, <1>8, <2>1, <3>1
    <3> QED
      BY <1>4, <2>1, <3>2
  <2>2. CASE d = L + 1
    <3>1. d - 1 = L /\ L \in 0 .. L
      BY <1>2, <2>2
    <3>2. R[d] = a /\ R[d - 1] = b /\ r[d] = f
      BY <1>2, <1>4, <1>8, <2>2, <3>1
    <3> QED
      BY <1>1, <1>6, <3>2
  <2> QED
    BY <1>2, <2>1, <2>2
<1>10. \A d \in 0 .. Len(r) : R[d] # <<>> => Opened(p)
  <2>1. \A d \in 0 .. Len(r) : d \in 0 .. L \/ d = L + 1
    BY <1>2
  <2> QED
    BY <1>4, <1>7, <1>8, <2>1
<1>11. Levels(p, r, R) /\ a = WithLeft(R[Len(r)], NoStop)
  BY <1>2, <1>8, <1>9, <1>10 DEF Levels, WithLeft
<1> QED
  BY <1>11 DEF KeptBy, a

(* An application that ends: a fold drops its cell, cells leave theirs     *)
(* together.                                                               *)
LEMMA KeptPop ==
  ASSUME NEW p, NEW s, IsStack(s), Len(s) # 0, NEW b, NEW c \in Controls \cup {NoStop}, KeptBy(p, s, b, c),
         NEW f, f = s[Len(s)], NEW r, Pops(s, r),
         KindOf(p, f) = "cells" => CellsOf(p, f)[Len(f.got)].left \in Controls \cup {NoStop}
  PROVE  /\ KindOf(p, f) = "fold" => KeptBy(p, r, Front(b), NoStop) /\ Last(b) = c
         /\ KindOf(p, f) = "cells" => KeptBy(p, r, b, Over(CellsOf(p, f)[Len(f.got)].left, c))
         /\ KindOf(p, f) \notin {"fold", "cells"} => KeptBy(p, r, b, c)
<1> DEFINE L == Len(s)
           l == CellsOf(p, f)[Len(f.got)].left
<1>1. L \in Nat /\ L # 0 /\ Len(r) = L - 1 /\ \A d \in 1 .. L - 1 : r[d] = s[d]
  BY StackLength DEF Pops
<1>2. PICK S : Levels(p, s, S) /\ b = WithLeft(S[L], c)
  BY DEF KeptBy
<1>3. /\ S[L] = Stepped(p, S[L - 1], f) /\ S[L - 1] \in Stops
  <2>1. L \in 1 .. L /\ L - 1 \in Nat
    BY <1>1
  <2> QED
    BY <1>2, <2>1 DEF Levels
<1> HIDE DEF L, l
<1>4. Levels(p, r, S)
  <2>1. \A d \in 0 .. Len(r) : d \in 0 .. Len(s)
    BY <1>1 DEF L
  <2>2. \A d \in 1 .. Len(r) : d \in 1 .. Len(s) /\ r[d] = s[d]
    BY <1>1 DEF L
  <2> QED
    BY <1>2, <2>1, <2>2 DEF Levels
<1>5. CASE KindOf(p, f) = "fold"
  <2>1. b = WithLeft(Append(S[L - 1], NoStop), c)
    BY <1>2, <1>3, <1>5 DEF Stepped
  <2>2. Front(b) = S[L - 1] /\ Last(b) = c
    BY <1>3, <2>1, FrameIs
  <2>3. Front(b) = WithLeft(S[Len(r)], NoStop)
    BY <1>1, <2>2 DEF WithLeft
  <2> QED
    BY <1>4, <1>5, <2>2, <2>3 DEF KeptBy
<1>6. CASE KindOf(p, f) = "cells"
  <2>1. b = WithLeft(WithLeft(S[L - 1], l), c)
    BY <1>2, <1>3, <1>6 DEF Stepped, l
  <2>2. l \in Controls \cup {NoStop}
    BY <1>6 DEF l
  <2>3. b = WithLeft(S[Len(r)], Over(l, c))
    BY <1>1, <1>3, <2>1, <2>2, LeftIs
  <2> QED
    BY <1>4, <1>6, <2>3 DEF KeptBy, l
<1>7. CASE KindOf(p, f) \notin {"fold", "cells"}
  <2>1. b = WithLeft(S[Len(r)], c)
    BY <1>1, <1>2, <1>3, <1>7 DEF Stepped
  <2> QED
    BY <1>4, <1>7, <2>1 DEF KeptBy
<1> QED
  BY <1>5, <1>6, <1>7

(* What is on the stack changed but not what it has left. *)
LEMMA KeptAlike ==
  ASSUME NEW p, NEW s, NEW b, NEW c, KeptBy(p, s, b, c), NEW r, Len(r) = Len(s),
         \A d \in 1 .. Len(s) :
           /\ r[d].layer = s[d].layer
           /\ KindOf(p, s[d]) = "cells" => r[d].path = s[d].path /\ r[d].got = s[d].got
  PROVE  KeptBy(p, r, b, c)
<1>1. PICK S : Levels(p, s, S) /\ b = WithLeft(S[Len(s)], c)
  BY DEF KeptBy
<1>2. \A d \in 1 .. Len(s) : \A x : Stepped(p, x, r[d]) = Stepped(p, x, s[d])
  BY DEF Stepped, KindOf, CellsOf
<1>3. Levels(p, r, S)
  BY <1>1, <1>2 DEF Levels
<1> QED
  BY <1>1, <1>3 DEF KeptBy

(* The innermost application with a cell or step more: what was left is    *)
(* taken up by it.                                                         *)
LEMMA KeptPut ==
  ASSUME NEW p, NEW s, IsStack(s), Len(s) # 0, NEW b, NEW c \in Controls \cup {NoStop}, KeptBy(p, s, b, c),
         NEW f, f = s[Len(s)], NEW g, g.layer = f.layer, NEW r, Puts(s, Len(s), g, r),
         KindOf(p, f) = "cells" => /\ CellsOf(p, f)[Len(f.got)].left \in Controls \cup {NoStop}
                                   /\ CellsOf(p, g)[Len(g.got)].left = Over(CellsOf(p, f)[Len(f.got)].left, c)
  PROVE  /\ KindOf(p, f) = "cells" => KeptBy(p, r, b, NoStop)
         /\ KindOf(p, f) = "fold" => KeptBy(p, r, [b EXCEPT ![Len(b)] = NoStop], NoStop)
<1> DEFINE L == Len(s)
           l == CellsOf(p, f)[Len(f.got)].left
<1>1. L \in Nat /\ L # 0 /\ Len(r) = L /\ r[L] = g /\ \A d \in 1 .. L - 1 : r[d] = s[d]
  BY StackLength DEF Puts
<1>2. PICK S : Levels(p, s, S) /\ b = WithLeft(S[L], c)
  BY DEF KeptBy
<1>3. /\ S[L] = Stepped(p, S[L - 1], f) /\ S[L - 1] \in Stops /\ S[L] \in Stops
      /\ S[L] # <<>> => Opened(p)
      /\ Home(p, f.layer) => S[L - 1] # <<>>
  <2>1. L \in 1 .. L /\ L \in 0 .. L /\ L - 1 \in Nat
    BY <1>1
  <2> QED
    BY <1>2, <2>1 DEF Levels
<1>4. KindOf(p, g) = KindOf(p, f)
  BY DEF KindOf
<1> HIDE DEF L, l
<1>5. ASSUME NEW a \in Stops, a = Stepped(p, S[L - 1], g), a # <<>> => S[L] # <<>>
      PROVE  KeptBy(p, r, a, NoStop)
  <2> DEFINE R == [S EXCEPT ![L] = a]
  <2>1. /\ R \in [Nat -> Stops] /\ R[0] = <<>> /\ R[L] = a
        /\ \A d \in 0 .. L - 1 : R[d] = S[d]
    BY <1>1, <1>2, <1>5 DEF Levels
  <2> HIDE DEF R
  <2>2. ASSUME NEW d \in 1 .. Len(r)
        PROVE  R[d] = Stepped(p, R[d - 1], r[d]) /\ (Home(p, r[d].layer) => R[d - 1] # <<>>)
    <3>1. CASE d \in 1 .. L - 1
      <4>1. d - 1 \in 0 .. L - 1 /\ d \in 0 .. L - 1 /\ d \in 1 .. L
        BY <1>1, <3>1
      <4>2. R[d] = S[d] /\ R[d - 1] = S[d - 1] /\ r[d] = s[d]
        BY <1>1, <2>1, <3>1, <4>1
      <4> QED
        BY <1>2, <4>1, <4>2 DEF Levels, L
    <3>2. CASE d = L
      <4>1. d - 1 \in 0 .. L - 1
        BY <1>1, <3>2
      <4>2. R[d] = a /\ R[d - 1] = S[L - 1] /\ r[d] = g
        BY <1>1, <2>1, <3>2, <4>1
      <4> QED
        BY <1>3, <1>5, <4>2
    <3> QED
      BY <1>1, <3>1, <3>2
  <2>3. \A d \in 0 .. Len(r) : R[d] # <<>> => Opened(p)
    <3>1. \A d \in 0 .. Len(r) : d \in 0 .. L - 1 \/ d = L
      BY <1>1
    <3>2. \A d \in 0 .. L - 1 : S[d] # <<>> => Opened(p)
      <4>1. \A d \in 0 .. L - 1 : d \in 0 .. L
        BY <1>1
      <4> QED
        BY <1>2, <4>1 DEF Levels, L
    <3> QED
      BY <1>3, <1>5, <2>1, <3>1, <3>2
  <2>4. Levels(p, r, R) /\ a = WithLeft(R[Len(r)], NoStop)
    BY <1>1, <2>1, <2>2, <2>3 DEF Levels, WithLeft
  <2> QED
    BY <2>4 DEF KeptBy
<1>6. CASE KindOf(p, f) = "cells"
  <2>1. b = WithLeft(WithLeft(S[L - 1], l), c) /\ S[L] = WithLeft(S[L - 1], l)
    BY <1>2, <1>3, <1>6 DEF Stepped, l
  <2>2. l \in Controls \cup {NoStop} /\ CellsOf(p, g)[Len(g.got)].left = Over(l, c)
    BY <1>6 DEF l
  <2>3. b = WithLeft(S[L - 1], Over(l, c))
    BY <1>3, <2>1, <2>2, LeftIs
  <2>4. b = Stepped(p, S[L - 1], g)
    BY <1>4, <1>6, <2>2, <2>3 DEF Stepped
  <2>5. b \in Stops /\ (b # <<>> => S[L] # <<>>)
    BY <1>2, <1>3, LeftIs
  <2> QED
    BY <1>5, <1>6, <2>4, <2>5
<1>7. CASE KindOf(p, f) = "fold"
  <2> DEFINE a == [b EXCEPT ![Len(b)] = NoStop]
  <2>1. S[L] = Append(S[L - 1], NoStop) /\ b = WithLeft(Append(S[L - 1], NoStop), c)
    BY <1>2, <1>3, <1>7 DEF Stepped
  <2>2. a = Append(S[L - 1], NoStop)
    BY <1>3, <2>1, FrameIs
  <2> HIDE DEF a
  <2>3. a = Stepped(p, S[L - 1], g) /\ a \in Stops /\ a = S[L]
    BY <1>3, <1>4, <1>7, <2>1, <2>2 DEF Stepped
  <2>4. KeptBy(p, r, a, NoStop)
    BY <1>5, <2>3
  <2> QED
    BY <1>7, <2>4 DEF a
<1> QED
  BY <1>6, <1>7

-----------------------------------------------------------------------------
(* The second invariant. *)

(* The threads whose last application has answered and has not been heard. *)
Told == {t \in Threads : told[t] # Nothing}

(* What an application answers, and what it leaves. *)
Gives(p, n, path, v, c) ==
  /\ Tells(p, n, path, v)
  /\ v.is = "fine" => c = Leaves(p, n, path)
  /\ Quiet(p, n) => c = NoStop

(* FOLD_STOPS of a thread, b, is right for its stack and what it was told: *)
(* what is in place over the stack with what the one that told left.       *)
StopsRight(p, s, b, v) ==
  \E c \in Controls \cup {NoStop} :
    /\ KeptBy(p, s, b, c)
    /\ v = Nothing => c = NoStop
    /\ v # Nothing => \A n, path : Asks(p, s, Len(s), n, path) => Gives(p, n, path, v, c)

(* The second invariant, for the programs whose stops stay home: every     *)
(* application was asked for and has come to what it comes to on one       *)
(* thread, FOLD_STOPS is what the applications on the stack have left, and *)
(* the answers are the ones meant.                                         *)
AsMeant ==
  /\ program \in Programs
  /\ DOMAIN stack = Threads /\ DOMAIN stops = Threads /\ DOMAIN told = Threads /\ DOMAIN answer = Hosts
  /\ AreStacks(stack)
  /\ Shape(program, stack, Told, cells)
  /\ \A t \in Threads : StopsRight(program, stack[t], stops[t], told[t])
  /\ \A h \in Hosts : answer[h] = Nothing \/ Tells(program, 1, <<1>>, answer[h])

(* It is right for another stack whose applications have begun and left as *)
(* much.                                                                   *)
LEMMA StopsRightAlike ==
  ASSUME NEW p, NEW s, NEW b, NEW v, StopsRight(p, s, b, v), Len(s) \in Nat,
         NEW r, Len(r) = Len(s),
         \A d \in 1 .. Len(s) :
           /\ r[d].layer = s[d].layer /\ r[d].path = s[d].path /\ r[d].begun = s[d].begun
           /\ KindOf(p, s[d]) = "cells" => r[d].got = s[d].got
  PROVE  StopsRight(p, r, b, v)
<1>1. PICK c \in Controls \cup {NoStop} :
        /\ KeptBy(p, s, b, c)
        /\ v = Nothing => c = NoStop
        /\ v # Nothing => \A n, path : Asks(p, s, Len(s), n, path) => Gives(p, n, path, v, c)
  BY DEF StopsRight
<1>2. KeptBy(p, r, b, c)
  BY <1>1, KeptAlike
<1>3. \A n, path : Asks(p, r, Len(r), n, path) => Asks(p, s, Len(s), n, path)
  <2>1. Len(s) # 0 => Len(s) \in 1 .. Len(s)
    OBVIOUS
  <2> QED
    BY <2>1 DEF Asks, KindOf
<1>4. v # Nothing => \A n, path : Asks(p, r, Len(r), n, path) => Gives(p, n, path, v, c)
  BY <1>1, <1>3
<1> QED
  BY <1>1, <1>2, <1>4 DEF StopsRight

(* From what a thread is told, and from its being told nothing. *)
LEMMA AnswersRight ==
  ASSUME NEW p, NEW s, NEW b, NEW c \in Controls \cup {NoStop}, KeptBy(p, s, b, c),
         NEW n, NEW path, NEW v, v # Nothing, Asks(p, s, Len(s), n, path), Gives(p, n, path, v, c)
  PROVE  StopsRight(p, s, b, v)
<1>1. \A m, q : Asks(p, s, Len(s), m, q) => m = n /\ q = path
  BY DEF Asks
<1>2. \A m, q : Asks(p, s, Len(s), m, q) => Gives(p, m, q, v, c)
  BY <1>1
<1> QED
  BY <1>2 DEF StopsRight

LEMMA SilentRight ==
  ASSUME NEW p, NEW s, NEW b, KeptBy(p, s, b, NoStop)
  PROVE  StopsRight(p, s, b, Nothing)
BY DEF StopsRight

(* The second invariant from what it says of each thread. *)
LEMMA MeantRebuilt ==
  ASSUME AsMeant, program' = program, answer' = answer,
         DOMAIN stack' = Threads, DOMAIN stops' = Threads, DOMAIN told' = Threads,
         AreStacks(stack'), Shape(program, stack', Told', cells'),
         \A t \in Threads : StopsRight(program, stack'[t], stops'[t], told'[t])
  PROVE  AsMeant'
BY DEF AsMeant

(* An application asked for over t answers, and has left c. *)
LEMMA AnswerKeeps ==
  ASSUME AsMeant, StopsStayHome(program), program' = program, answer' = answer,
         NEW st, DOMAIN st = Threads, AreStacks(st),
         NEW t \in Threads, \A u \in Threads \ {t} : st[u] = stack[u],
         NEW busy, NEW cs, Shape(program, st, busy, cs), busy \ {t} = Told \ {t},
         NEW n, NEW path, NEW cell, Asked(program, st, t, Len(st[t]), n, path, cell),
         cell = NoCell => t \in busy,
         cell # NoCell => t \notin busy /\ cell \in cs,
         cells' = cs \ {cell},
         NEW v, v # Nothing, Answering(st, t, v, cell),
         NEW b, NEW c \in Controls \cup {NoStop}, KeptBy(program, st[t], b, c), Gives(program, n, path, v, c),
         DOMAIN stops' = Threads, stops'[t] = b, \A u \in Threads \ {t} : stops'[u] = stops[u]
  PROVE  AsMeant'
<1>0. /\ DOMAIN told = Threads /\ IsProgram(program)
      /\ \A u \in Threads \ {t} : StopsRight(program, st[u], stops'[u], told[u])
  BY ProgramsAssumption DEF AsMeant
<1>1. CASE cell = NoCell
  <2>1. stack' = st /\ told' = [told EXCEPT ![t] = v]
    BY <1>1 DEF Answering
  <2>2. /\ DOMAIN told' = Threads /\ told'[t] = v /\ \A u \in Threads \ {t} : told'[u] = told[u]
    BY <1>0, <2>1
  <2>3. Told' = busy
    BY <1>1, <2>2 DEF Told
  <2>4. cells' = cs
    <3>1. cell \notin cs
      BY <1>1, CellIsNoStack DEF Shape, Unbegun
    <3> QED
      BY <3>1
  <2>5. StopsRight(program, st[t], b, v)
    <3>1. Asks(program, st[t], Len(st[t]), n, path)
      BY <1>1 DEF Asked
    <3> QED
      BY <3>1, AnswersRight
  <2>6. \A u \in Threads : StopsRight(program, stack'[u], stops'[u], told'[u])
    BY <1>0, <2>1, <2>2, <2>5
  <2>7. Shape(program, stack', Told', cells') /\ AreStacks(stack') /\ DOMAIN stack' = Threads
    BY <2>1, <2>3, <2>4
  <2> QED
    BY <2>2, <2>6, <2>7, MeantRebuilt
<1>2. CASE cell # NoCell
  <2> DEFINE a == cell[1]
             e == cell[2]
             f == st[a][e]
             g == [f EXCEPT !.got[cell[3]] = v]
             r == [st[a] EXCEPT ![e] = g]
  <2>1. Awaited(program, st, cell, n, path) /\ cell \in cs
    BY <1>2 DEF Asked
  <2>2. /\ a \in Threads /\ e \in 1 .. Len(st[a]) /\ KindOf(program, f) = "pool"
        /\ n = f.layer + 1
    BY <2>1 DEF Awaited
  <2>3. IsStack(st[a]) /\ DOMAIN f = Fields
    BY <2>2, StackLength DEF AreStacks
  <2>4. DOMAIN g = Fields /\ g.layer = f.layer /\ g.path = f.path /\ g.begun = f.begun
    BY <2>3 DEF Fields
  <2>5. stack' = [st EXCEPT ![a] = r] /\ told' = [told EXCEPT ![t] = Nothing]
    BY <1>2 DEF Answering
  <2>6. Puts(st[a], e, g, r)
    <3> HIDE DEF g
    <3> QED
      BY <2>2, <2>3, <2>4, PutIs
  <2>7. /\ DOMAIN told' = Threads /\ told'[t] = Nothing /\ \A u \in Threads \ {t} : told'[u] = told[u]
    BY <1>0, <2>5
  <2>8. Told' = busy
    BY <1>2, <2>7 DEF Told
  <2>9. DOMAIN stack' = Threads /\ stack'[a] = r /\ \A u \in Threads \ {a} : stack'[u] = st[u]
    <3> HIDE DEF r, a
    <3> QED
      BY <2>2, <2>5
  <2>10. Puts(st[a], e, g, stack'[a])
    <3> HIDE DEF r, g, a, e
    <3> QED
      BY <2>6, <2>9
  <2>11. Tells(program, n, path, v)
    BY DEF Gives
  <2>12. Shape(program, stack', busy, cs \ {cell})
    <3>1. Puts(st[cell[1]], cell[2], [st[cell[1]][cell[2]] EXCEPT !.got[cell[3]] = v], stack'[cell[1]])
      BY <2>10
    <3>2. \A u \in Threads \ {cell[1]} : stack'[u] = st[u]
      BY <2>9
    <3> HIDE DEF a, e, f, g, r
    <3> QED
      BY <2>1, <2>11, <3>1, <3>2, ShapeAnswer
  <2>13. AreStacks(stack')
    <3> HIDE DEF g
    <3> QED
      BY <2>9, <2>10 DEF AreStacks, Puts
  <2>14. Quiet(program, n)
    <3>1. f.layer \in 1 .. Innermost(program)
      BY <2>2 DEF Shape, Begun, Placed
    <3>2. LayerOf(program, f.layer) = "pool"
      BY <2>2 DEF KindOf
    <3> QED
      BY <1>0, <2>2, <3>1, <3>2, QuietUnderPool
  <2>15. KeptBy(program, st[t], b, NoStop)
    BY <2>14 DEF Gives
  <2>16. \A u \in Threads : StopsRight(program, st[u], stops'[u], told'[u])
    BY <1>0, <2>7, <2>15, SilentRight
  <2> HIDE DEF g
  <2>17. ASSUME NEW u \in Threads PROVE StopsRight(program, stack'[u], stops'[u], told'[u])
    <3>1. CASE u # a
      BY <2>9, <2>16, <3>1
    <3>2. CASE u = a
      <4>1. /\ Len(stack'[a]) = Len(st[a])
            /\ \A d \in 1 .. Len(st[a]) :
                 /\ stack'[a][d].layer = st[a][d].layer /\ stack'[a][d].path = st[a][d].path
                 /\ stack'[a][d].begun = st[a][d].begun
                 /\ KindOf(program, st[a][d]) = "cells" => stack'[a][d].got = st[a][d].got
        <5>1. /\ Len(stack'[a]) = Len(st[a]) /\ stack'[a][e] = g
              /\ \A d \in 1 .. Len(st[a]) : d # e => stack'[a][d] = st[a][d]
          BY <2>10 DEF Puts
        <5> SUFFICES ASSUME NEW d \in 1 .. Len(st[a])
                     PROVE  /\ stack'[a][d].layer = st[a][d].layer /\ stack'[a][d].path = st[a][d].path
                            /\ stack'[a][d].begun = st[a][d].begun
                            /\ KindOf(program, st[a][d]) = "cells" => stack'[a][d].got = st[a][d].got
          BY <5>1
        <5> QED
          BY <2>2, <2>4, <5>1
      <4>2. Len(st[a]) \in Nat
        BY <2>3, StackLength
      <4>3. StopsRight(program, st[a], stops'[a], told'[a])
        <5>1. a \in Threads
          BY <2>2
        <5> HIDE DEF a
        <5> QED
          BY <2>16, <5>1
      <4>4. StopsRight(program, stack'[a], stops'[a], told'[a])
        <5> DEFINE s == st[a]
                   q == stack'[a]
                   k == stops'[a]
                   w == told'[a]
        <5> HIDE DEF a, e, f, r
        <5>1. /\ Len(q) = Len(s) /\ Len(s) \in Nat /\ StopsRight(program, s, k, w)
              /\ \A d \in 1 .. Len(s) :
                   /\ q[d].layer = s[d].layer /\ q[d].path = s[d].path /\ q[d].begun = s[d].begun
                   /\ KindOf(program, s[d]) = "cells" => q[d].got = s[d].got
          BY <4>1, <4>2, <4>3
        <5> HIDE DEF s, q, k, w
        <5>2. StopsRight(program, q, k, w)
          BY <5>1, StopsRightAlike
        <5> QED
          BY <5>2 DEF q, k, w
      <4> QED
        BY <3>2, <4>4
    <3> QED
      BY <3>1, <3>2
  <2>18. Shape(program, stack', Told', cells')
    BY <2>8, <2>12
  <2> QED
    BY <2>7, <2>9, <2>13, <2>17, <2>18, MeantRebuilt
<1> QED
  BY <1>1, <1>2

(* What cells leave is a control. *)
LEMMA CellsLeft ==
  ASSUME NEW p, IsProgram(p), NEW f, f.layer \in 1 .. Innermost(p), f.path \in Paths,
         KindOf(p, f) = "cells", NEW k \in 0 .. CELLS
  PROVE  /\ CellsOf(p, f)[k].left \in Controls \cup {NoStop}
         /\ Quiet(p, f.layer) /\ CellsOf(p, f)[k].said.is = "fine" => CellsOf(p, f)[k].left = NoStop
<1> DEFINE inner == Sequential(p)[f.layer + 1]
<1>1. f.layer + 1 \in 1 .. Innermost(p) /\ Innermost(p) \in Nat
  BY Kinds DEF KindOf
<1>2. \A i \in 1 .. CELLS : Append(f.path, i) \in Paths
  BY PathsGrow
<1>3. \A q \in Paths : /\ inner[q].left \in Controls \cup {NoStop}
                       /\ Quiet(p, f.layer + 1) /\ inner[q].said.is = "fine" => inner[q].left = NoStop
  BY <1>1, LeavesIs DEF Leaves, Says
<1> HIDE DEF inner
<1>4. AlongCells(f.path, inner)[k].left \in Controls \cup {NoStop}
  <2>1. \A i \in 1 .. CELLS : inner[Append(f.path, i)].left \in Controls \cup {NoStop}
    BY <1>2, <1>3
  <2>2. NoStop \in Controls \cup {NoStop}
    OBVIOUS
  <2> QED
    BY <2>1, <2>2, CellsLeave
<1>5. ASSUME Quiet(p, f.layer), AlongCells(f.path, inner)[k].said.is = "fine"
      PROVE  AlongCells(f.path, inner)[k].left = NoStop
  <2>1. Quiet(p, f.layer + 1)
    <3>1. LayerOf(p, f.layer) # "fold" /\ f.layer \in Nat
      BY DEF KindOf
    <3> QED
      BY <1>1, <1>5, <3>1, QuietInside
  <2>2. \A i \in 1 .. CELLS : inner[Append(f.path, i)].said.is = "fine"
                                => inner[Append(f.path, i)].left = NoStop
    BY <1>2, <1>3, <2>1
  <2> QED
    BY <1>5, <2>2, QuietCellsLeave
<1> QED
  BY <1>4, <1>5 DEF CellsOf, inner

(* The cell that a stop will find is there when it is asked for. *)
LEMMA HomeKept ==
  ASSUME NEW p, IsProgram(p), NEW st, NEW busy, NEW cs, Shape(p, st, busy, cs), AreStacks(st),
         NEW t \in Threads, NEW n, NEW path, NEW cell, Asked(p, st, t, Len(st[t]), n, path, cell),
         NEW b, NEW c \in Controls \cup {NoStop}, KeptBy(p, st[t], b, c), Home(p, n)
  PROVE  b # <<>>
<1> DEFINE L == Len(st[t])
<1>1. PICK i \in 1 .. n - 1 : /\ LayerOf(p, i) = "fold"
                              /\ \A k \in i + 1 .. n - 1 : LayerOf(p, k) # "pool"
  BY DEF Home
<1>2. PICK S : Levels(p, st[t], S) /\ b = WithLeft(S[L], c)
  BY DEF KeptBy
<1>3. L \in Nat
  BY StackLength DEF AreStacks
<1>4. S[L] \in Stops /\ S \in [Nat -> Stops]
  BY <1>2, <1>3 DEF Levels
<1> SUFFICES S[L] # <<>>
  <2> HIDE DEF L
  <2> QED
    BY <1>2, <1>4, LeftIs
<1>5. CASE cell # NoCell
  <2>1. PICK f : f = st[cell[1]][cell[2]] /\ KindOf(p, f) = "pool" /\ n = f.layer + 1
                 /\ cell[1] \in Threads /\ cell[2] \in 1 .. Len(st[cell[1]])
    BY <1>5 DEF Asked, Awaited
  <2>2. f.layer \in 1 .. Innermost(p)
    BY <2>1 DEF Shape, Begun, Placed
  <2>3. LayerOf(p, n - 1) = "pool" /\ n \in Int
    BY <2>1, <2>2 DEF KindOf
  <2> QED
    BY <1>1, <2>3
<1>6. CASE cell = NoCell
  <2>1. Asks(p, st[t], L, n, path)
    BY <1>6 DEF Asked
  <2>2. L # 0
    BY <1>1, <2>1 DEF Asks
  <2> DEFINE f == st[t][L]
  <2>3. KindOf(p, f) \in {"fold", "cells", "stop"} /\ n = f.layer + 1
    BY <2>1, <2>2 DEF Asks
  <2>4. L \in 1 .. L /\ L - 1 \in Nat
    BY <1>3, <2>2
  <2>5. f.layer \in 1 .. Innermost(p) /\ f.path \in Paths /\ \E k : Came(p, f, k)
    BY <2>4 DEF Shape, Begun, Placed
  <2>6. S[L] = Stepped(p, S[L - 1], f) /\ (Home(p, f.layer) => S[L - 1] # <<>>) /\ S[L - 1] \in Stops
    BY <1>2, <1>4, <2>4 DEF Levels
  <2> HIDE DEF f, L
  <2>7. CASE KindOf(p, f) = "fold"
    <3>1. S[L] = Append(S[L - 1], NoStop)
      BY <2>6, <2>7 DEF Stepped
    <3>2. Append(S[L - 1], NoStop) # <<>>
      BY <2>6, FrameIs
    <3> QED
      BY <3>1, <3>2
  <2>8. CASE KindOf(p, f) \in {"cells", "stop"}
    <3>1. Home(p, f.layer)
      <4>1. i # f.layer
        BY <1>1, <2>8 DEF KindOf
      <4>2. i \in 1 .. f.layer - 1 /\ \A k \in i + 1 .. f.layer - 1 : k \in i + 1 .. n - 1
        BY <1>1, <2>3, <2>5, <4>1
      <4> QED
        BY <1>1, <4>2 DEF Home
    <3>2. CASE KindOf(p, f) = "stop"
      BY <2>6, <3>1, <3>2 DEF Stepped
    <3>3. CASE KindOf(p, f) = "cells"
      <4> DEFINE l == CellsOf(p, f)[Len(f.got)].left
      <4>1. S[L] = WithLeft(S[L - 1], l)
        BY <2>6, <3>3 DEF Stepped
      <4>2. l \in Controls \cup {NoStop}
        <5>1. Len(f.got) \in 0 .. CELLS - 1
          BY <2>5, <3>3 DEF Came
        <5>2. Len(f.got) \in 0 .. CELLS
          BY <5>1, PoolAssumption
        <5> QED
          BY <2>5, <3>3, <5>2, CellsLeft
      <4> HIDE DEF l
      <4> QED
        BY <2>6, <3>1, <4>1, <4>2, LeftIs
    <3> QED
      BY <2>8, <3>2, <3>3
  <2> QED
    BY <2>3, <2>7, <2>8
<1> QED
  BY <1>5, <1>6

(* An application is asked for over t, and begun or refused at the limit. *)
LEMMA BeginKeeps ==
  ASSUME AsMeant, StopsStayHome(program), program' = program, answer' = answer,
         NEW st, DOMAIN st = Threads, AreStacks(st),
         NEW t \in Threads, \A u \in Threads \ {t} : st[u] = stack[u],
         NEW busy, NEW cs, Shape(program, st, busy, cs), busy \ {t} = Told \ {t},
         NEW n \in 1 .. Innermost(program), NEW path \in Paths, NEW cell, Through(program, n),
         Asked(program, st, t, Len(st[t]), n, path, cell),
         cell = NoCell => t \in busy,
         cell # NoCell => t \notin busy /\ cell \in cs,
         cells' = cs \ {cell},
         KeptBy(program, st[t], stops[t], NoStop),
         Enter(st, t, n, path, cell)
  PROVE  AsMeant'
<1>0. /\ DOMAIN told = Threads /\ DOMAIN stops = Threads /\ IsProgram(program)
      /\ \A u \in Threads \ {t} : StopsRight(program, st[u], stops[u], told[u])
  BY ProgramsAssumption DEF AsMeant
<1>1. CASE nesting[t] < MAX_NESTING
  <2> DEFINE f == Application(n, path, cell)
  <2>1. /\ stack' = [st EXCEPT ![t] = Append(@, f)]
        /\ told' = [told EXCEPT ![t] = Nothing]
        /\ stops' = IF LayerOf(program, n) = "fold" THEN [stops EXCEPT ![t] = Append(@, NoStop)] ELSE stops
    BY <1>1 DEF Enter, Layer
  <2>2. DOMAIN f = Fields
    BY DEF Application, Fields
  <2> HIDE DEF f
  <2>3. /\ DOMAIN stack' = Threads /\ stack'[t] = Append(st[t], f)
        /\ \A u \in Threads \ {t} : stack'[u] = st[u]
    BY <2>1
  <2>4. Pushes(st[t], f, stack'[t])
    BY <2>2, <2>3, PushIs DEF AreStacks
  <2>5. AreStacks(stack')
    BY <2>3, <2>4 DEF AreStacks, Pushes
  <2>6. /\ DOMAIN told' = Threads /\ told'[t] = Nothing /\ \A u \in Threads \ {t} : told'[u] = told[u]
    BY <1>0, <2>1
  <2>7. Told' = busy \ {t}
    BY <2>6 DEF Told
  <2>8. Shape(program, stack', busy \ {t}, cs \ {cell})
    BY <2>3, <2>4, ShapePush DEF f
  <2>9. /\ DOMAIN stops' = Threads /\ \A u \in Threads \ {t} : stops'[u] = stops[u]
        /\ stops'[t] = IF LayerOf(program, n) = "fold" THEN Append(stops[t], NoStop) ELSE stops[t]
    BY <1>0, <2>1
  <2>10. KeptBy(program, stack'[t], stops'[t], NoStop)
    <3>1. Home(program, n) => stops[t] # <<>>
      <4>1. NoStop \in Controls \cup {NoStop}
        OBVIOUS
      <4> QED
        BY <1>0, <4>1, HomeKept
    <3>2. IsStack(st[t])
      BY DEF AreStacks
    <3> QED
      BY <2>4, <2>9, <3>1, <3>2, KeptPush DEF f
  <2>11. \A u \in Threads : StopsRight(program, stack'[u], stops'[u], told'[u])
    BY <1>0, <2>3, <2>6, <2>9, <2>10, SilentRight
  <2>12. Shape(program, stack', Told', cells')
    BY <2>7, <2>8
  <2> QED
    BY <2>3, <2>5, <2>6, <2>9, <2>11, <2>12, MeantRebuilt
<1>2. CASE ~(nesting[t] < MAX_NESTING)
  <2>1. Answering(st, t, Limit, cell) /\ stops' = stops
    BY <1>2 DEF Enter, Limit
  <2>2. Limit # Nothing /\ Limit.is # "fine"
    BY DEF Limit, Bad, Nothing
  <2>3. Gives(program, n, path, Limit, NoStop)
    BY <2>2 DEF Gives, Tells
  <2>4. NoStop \in Controls \cup {NoStop}
    OBVIOUS
  <2>5. DOMAIN stops' = Threads /\ stops'[t] = stops[t] /\ \A u \in Threads \ {t} : stops'[u] = stops[u]
    BY <1>0, <2>1
  <2> QED
    BY <2>1, <2>2, <2>3, <2>4, <2>5, AnswerKeeps
<1> QED
  BY <1>1, <1>2

(* The application on top of t ends, and has left c. *)
LEMMA EndKeeps ==
  ASSUME AsMeant, StopsStayHome(program), program' = program, answer' = answer, cells' = cells,
         NEW t \in Threads, stack[t] # <<>>, NEW f, f = Top(t),
         KindOf(program, f) = "pool" => \A i \in 1 .. CELLS : f.got[i] # Nothing,
         NEW v, v # Nothing, Answering([stack EXCEPT ![t] = Front(@)], t, v, f.cell),
         NEW b, NEW c \in Controls \cup {NoStop}, KeptBy(program, Front(stack[t]), b, c),
         Gives(program, f.layer, f.path, v, c),
         DOMAIN stops' = Threads, stops'[t] = b, \A u \in Threads \ {t} : stops'[u] = stops[u]
  PROVE  AsMeant'
<1> DEFINE st   == [stack EXCEPT ![t] = Front(@)]
           busy == IF f.cell = NoCell THEN Told \cup {t} ELSE Told \ {t}
           cs   == IF f.cell = NoCell THEN cells ELSE cells \cup {f.cell}
<1>0. /\ DOMAIN stack = Threads /\ AreStacks(stack) /\ Shape(program, stack, Told, cells)
      /\ IsStack(stack[t])
  BY DEF AsMeant, AreStacks
<1>1. /\ DOMAIN st = Threads /\ st[t] = Front(stack[t]) /\ \A u \in Threads \ {t} : st[u] = stack[u]
  BY <1>0
<1>2. Answering(st, t, v, f.cell) /\ KeptBy(program, st[t], b, c)
  BY <1>1
<1>3. Pops(stack[t], st[t])
  BY <1>0, <1>1, PopIs
<1> HIDE DEF st
<1>4. AreStacks(st)
  BY <1>0, <1>1, <1>3 DEF AreStacks, Pops
<1>5. Len(stack[t]) # 0 /\ f = stack[t][Len(stack[t])]
  BY <1>0, StackLength DEF Top
<1>6. Shape(program, st, busy, cs)
  <2>1. /\ busy = IF f.cell = NoCell THEN Told \cup {t} ELSE Told \ {t}
        /\ cs = IF f.cell = NoCell THEN cells ELSE cells \cup {f.cell}
    OBVIOUS
  <2> HIDE DEF busy, cs
  <2> QED
    BY <1>0, <1>1, <1>3, <1>5, <2>1, ShapePop
<1>7. Asked(program, st, t, Len(st[t]), f.layer, f.path, f.cell) /\ f.cell \notin cells
  BY <1>0, <1>1, <1>3, <1>5, PopAsked
<1>8. /\ busy \ {t} = Told \ {t} /\ cells' = cs \ {f.cell}
      /\ f.cell = NoCell => t \in busy
      /\ f.cell # NoCell => t \notin busy /\ f.cell \in cs
  BY <1>7
<1> HIDE DEF busy, cs
<1> QED
  BY <1>1, <1>2, <1>4, <1>6, <1>8, <1>7, AnswerKeeps

(* Leave, by the kind of what ends. *)
LEMMA LeaveKeeps ==
  ASSUME AsMeant, StopsStayHome(program), program' = program, answer' = answer, cells' = cells,
         NEW t \in Threads, stack[t] # <<>>, NEW f, f = Top(t),
         KindOf(program, f) = "pool" => \A i \in 1 .. CELLS : f.got[i] # Nothing,
         NEW v, v # Nothing, Leave(t, v),
         NEW c \in Controls \cup {NoStop}, KeptBy(program, stack[t], stops[t], c),
         NEW e,
         KindOf(program, f) = "fold" => e = NoStop,
         KindOf(program, f) = "cells" => e = Over(CellsOf(program, f)[Len(f.got)].left, c),
         KindOf(program, f) \notin {"fold", "cells"} => e = c,
         Gives(program, f.layer, f.path, v, e)
  PROVE  AsMeant'
<1> DEFINE b == IF KindOf(program, f) = "fold" THEN Front(stops[t]) ELSE stops[t]
           l == CellsOf(program, f)[Len(f.got)].left
<1>0. /\ DOMAIN stack = Threads /\ IsStack(stack[t]) /\ DOMAIN stops = Threads /\ IsProgram(program)
      /\ Shape(program, stack, Told, cells)
  BY ProgramsAssumption DEF AsMeant, AreStacks
<1>1. /\ Answering([stack EXCEPT ![t] = Front(@)], t, v, f.cell)
      /\ stops' = IF KindOf(program, f) = "fold" THEN [stops EXCEPT ![t] = Front(@)] ELSE stops
  BY DEF Leave, On, Kind, Layer, KindOf
<1>2. DOMAIN stops' = Threads /\ stops'[t] = b /\ \A u \in Threads \ {t} : stops'[u] = stops[u]
  BY <1>0, <1>1
<1>3. Len(stack[t]) # 0 /\ f = stack[t][Len(stack[t])] /\ Len(stack[t]) \in 1 .. Len(stack[t])
  BY <1>0, StackLength DEF Top
<1>4. KindOf(program, f) = "cells" => l \in Controls \cup {NoStop}
  <2> SUFFICES ASSUME KindOf(program, f) = "cells" PROVE l \in Controls \cup {NoStop}
    OBVIOUS
  <2>1. f.layer \in 1 .. Innermost(program) /\ f.path \in Paths /\ \E k : Came(program, f, k)
    BY <1>0, <1>3 DEF Shape, Begun, Placed
  <2>2. Len(f.got) \in 0 .. CELLS
    BY <2>1, PoolAssumption DEF Came
  <2> QED
    BY <1>0, <2>1, <2>2, CellsLeft
<1>5. Pops(stack[t], Front(stack[t]))
  BY <1>0, PopIs
<1>6. KeptBy(program, Front(stack[t]), b, e)
  <2>1. /\ KindOf(program, f) = "fold" => KeptBy(program, Front(stack[t]), Front(stops[t]), NoStop)
        /\ KindOf(program, f) = "cells" => KeptBy(program, Front(stack[t]), stops[t], Over(l, c))
        /\ KindOf(program, f) \notin {"fold", "cells"} => KeptBy(program, Front(stack[t]), stops[t], c)
    BY <1>0, <1>3, <1>4, <1>5, KeptPop
  <2> QED
    BY <2>1
<1>7. e \in Controls \cup {NoStop}
  BY <1>4 DEF Over
<1> HIDE DEF b
<1> QED
  BY <1>1, <1>2, <1>6, <1>7, EndKeeps

(* What AsMeant says of the application on top of a thread's stack. *)
LEMMA TopIs ==
  ASSUME AsMeant, NEW t \in Threads, stack[t] # <<>>, NEW f, f = Top(t)
  PROVE  /\ IsStack(stack[t]) /\ Len(stack[t]) \in Nat /\ Len(stack[t]) # 0 /\ f = stack[t][Len(stack[t])]
         /\ DOMAIN f = Fields /\ f.layer \in 1 .. Innermost(program) /\ f.path \in Paths /\ f.begun \in Nat
         /\ Through(program, f.layer)
         /\ Came(program, f, IF told[t] = Nothing THEN f.begun ELSE f.begun - 1)
         /\ told[t] # Nothing => KindOf(program, f) \in {"fold", "cells", "stop"}
<1>1. IsStack(stack[t]) /\ Begun(program, stack, Told) /\ BusyRight(program, stack, Told)
  BY DEF AsMeant, AreStacks, Shape
<1>2. /\ Len(stack[t]) \in Nat /\ Len(stack[t]) # 0 /\ f = stack[t][Len(stack[t])]
      /\ Len(stack[t]) \in 1 .. Len(stack[t]) /\ DOMAIN f = Fields
  BY <1>1, StackLength DEF Top
<1>3. /\ Placed(program, stack, t, Len(stack[t]))
      /\ Came(program, f, DoneOf(stack, Told, t, Len(stack[t])))
  BY <1>1, <1>2 DEF Begun
<1>4. f.layer \in 1 .. Innermost(program) /\ f.path \in Paths /\ f.begun \in Nat /\ Through(program, f.layer)
  BY <1>2, <1>3 DEF Placed
<1>5. DoneOf(stack, Told, t, Len(stack[t])) = IF told[t] = Nothing THEN f.begun ELSE f.begun - 1
  BY <1>2, <1>4 DEF DoneOf, Told
<1>6. told[t] # Nothing => KindOf(program, f) \in {"fold", "cells", "stop"}
  BY <1>1, <1>2 DEF BusyRight, Told
<1> QED
  BY <1>1, <1>2, <1>3, <1>4, <1>5, <1>6

(* What the second invariant says of a thread that is told something, and  *)
(* of one that is not.                                                     *)
LEMMA TopSays ==
  ASSUME AsMeant, NEW t \in Threads, told[t] # Nothing,
         NEW n, NEW path, Asks(program, stack[t], Len(stack[t]), n, path)
  PROVE  \E c \in Controls \cup {NoStop} :
           KeptBy(program, stack[t], stops[t], c) /\ Gives(program, n, path, told[t], c)
BY DEF AsMeant, StopsRight

LEMMA TopSilent ==
  ASSUME AsMeant, NEW t \in Threads, told[t] = Nothing
  PROVE  KeptBy(program, stack[t], stops[t], NoStop)
BY DEF AsMeant, StopsRight

(* The application on top of t, changed. *)
LEMMA ChangedIs ==
  ASSUME AsMeant, NEW t \in Threads, stack[t] # <<>>, NEW g, DOMAIN g = Fields,
         NEW st, st = Changed(t, g)
  PROVE  /\ DOMAIN st = Threads /\ AreStacks(st) /\ Puts(stack[t], Len(stack[t]), g, st[t])
         /\ \A u \in Threads \ {t} : st[u] = stack[u]
<1>1. DOMAIN stack = Threads /\ AreStacks(stack) /\ IsStack(stack[t])
  BY DEF AsMeant, AreStacks
<1>2. Len(stack[t]) \in 1 .. Len(stack[t])
  BY <1>1, StackLength
<1>3. /\ DOMAIN st = Threads /\ st[t] = [stack[t] EXCEPT ![Len(stack[t])] = g]
      /\ \A u \in Threads \ {t} : st[u] = stack[u]
  BY <1>1 DEF Changed
<1>4. Puts(stack[t], Len(stack[t]), g, st[t])
  <2> DEFINE s == stack[t]
             k == Len(s)
  <2>1. IsStack(s) /\ k \in 1 .. Len(s)
    BY <1>1, <1>2
  <2> HIDE DEF s, k
  <2>2. Puts(s, k, g, [s EXCEPT ![k] = g])
    BY <2>1, PutIs
  <2> QED
    BY <1>3, <2>2 DEF s, k
<1>5. AreStacks(st)
  BY <1>1, <1>3, <1>4 DEF AreStacks, Puts
<1> QED
  BY <1>3, <1>4, <1>5

(* Under a layer whose stop, if it is one, has a fold, every stop so far   *)
(* has one.                                                                *)
LEMMA ThroughNext ==
  ASSUME NEW p, NEW n \in Nat, Through(p, n), LayerOf(p, n) = "stop" => InFold(p, n)
  PROVE  Through(p, n + 1)
<1> SUFFICES ASSUME NEW j \in 1 .. (n + 1) - 1, LayerOf(p, j) = "stop" PROVE InFold(p, j)
  BY DEF Through
<1>1. j = n \/ j \in 1 .. n - 1
  OBVIOUS
<1> QED
  BY <1>1 DEF Through

(* The mark of an application that is no cell is not among the cells. *)
LEMMA NoCellUnbegun ==
  ASSUME AsMeant
  PROVE  NoCell \notin cells
<1>1. Unbegun(program, stack, cells)
  BY DEF AsMeant, Shape
<1> QED
  BY <1>1, CellIsNoStack DEF Unbegun

(* A host begins its program. *)
LEMMA RunKeeps ==
  ASSUME AsMeant, StopsStayHome(program), NEW h \in Threads, Run(h)
  PROVE  AsMeant'
<1> DEFINE busy == Told \cup {h}
<1>1. /\ h \in Hosts /\ stack[h] = <<>> /\ told[h] = Nothing
      /\ Enter(stack, h, 1, <<1>>, NoCell)
      /\ program' = program /\ cells' = cells /\ answer' = answer
  BY DEF Run
<1>2. /\ DOMAIN stack = Threads /\ AreStacks(stack) /\ Shape(program, stack, Told, cells)
      /\ IsProgram(program)
  BY ProgramsAssumption DEF AsMeant
<1>3. Len(stack[h]) = 0
  BY <1>1
<1>4. busy \ {h} = Told \ {h} /\ h \in busy
  OBVIOUS
<1> HIDE DEF busy
<1>5. Shape(program, stack, busy, cells)
  BY <1>1, <1>2, <1>3, <1>4, ShapeIdle
<1>6. 1 \in 1 .. Innermost(program) /\ <<1>> \in Paths /\ Through(program, 1)
  BY <1>2 DEF IsProgram, Innermost, Paths, Through
<1>7. Asked(program, stack, h, Len(stack[h]), 1, <<1>>, NoCell)
  BY <1>1, <1>3 DEF Asked, Asks
<1>8. cells' = cells \ {NoCell}
  BY <1>1, NoCellUnbegun
<1>9. KeptBy(program, stack[h], stops[h], NoStop)
  BY <1>1, TopSilent
<1> QED
  BY <1>1, <1>2, <1>4, <1>5, <1>6, <1>7, <1>8, <1>9, BeginKeeps

(* A host takes its answer. *)
LEMMA FinishKeeps ==
  ASSUME AsMeant, StopsStayHome(program), NEW h \in Threads, Finish(h)
  PROVE  AsMeant'
<1>1. /\ h \in Hosts /\ stack[h] = <<>> /\ told[h] # Nothing
      /\ answer' = [answer EXCEPT ![h] = told[h]]
      /\ told' = [told EXCEPT ![h] = Nothing]
      /\ program' = program /\ stack' = stack /\ stops' = stops /\ cells' = cells
  BY DEF Finish
<1>2. /\ DOMAIN stack = Threads /\ AreStacks(stack) /\ Shape(program, stack, Told, cells)
      /\ DOMAIN told = Threads /\ DOMAIN answer = Hosts /\ DOMAIN stops = Threads
      /\ \A t \in Threads : StopsRight(program, stack[t], stops[t], told[t])
      /\ \A g \in Hosts : answer[g] = Nothing \/ Tells(program, 1, <<1>>, answer[g])
      /\ program \in Programs
  BY DEF AsMeant
<1>3. Len(stack[h]) = 0
  BY <1>1
<1>4. /\ DOMAIN told' = Threads /\ told'[h] = Nothing /\ \A t \in Threads \ {h} : told'[t] = told[t]
  BY <1>1, <1>2
<1>5. Shape(program, stack, Told', cells)
  <2>1. Told' \ {h} = Told \ {h} /\ h \notin Told'
    BY <1>4 DEF Told
  <2> QED
    BY <1>1, <1>2, <1>3, <2>1, ShapeIdle
<1>6. PICK c \in Controls \cup {NoStop} :
        KeptBy(program, stack[h], stops[h], c) /\ Gives(program, 1, <<1>>, told[h], c)
  <2>1. Asks(program, stack[h], Len(stack[h]), 1, <<1>>)
    BY <1>3 DEF Asks
  <2> QED
    BY <1>1, <2>1, TopSays
<1>7. KeptBy(program, stack[h], stops[h], NoStop)
  <2>1. PICK S : Levels(program, stack[h], S) /\ stops[h] = WithLeft(S[Len(stack[h])], c)
    BY <1>6 DEF KeptBy
  <2>2. S[Len(stack[h])] = <<>>
    BY <1>3, <2>1 DEF Levels
  <2>3. WithLeft(<<>>, c) = <<>> /\ WithLeft(<<>>, NoStop) = <<>>
    BY LeftOnNothing
  <2> QED
    BY <2>1, <2>2, <2>3 DEF KeptBy
<1>8. \A t \in Threads : StopsRight(program, stack'[t], stops'[t], told'[t])
  BY <1>1, <1>2, <1>4, <1>7, SilentRight
<1>9. DOMAIN answer' = Hosts /\ \A g \in Hosts : answer'[g] = Nothing \/ Tells(program, 1, <<1>>, answer'[g])
  <2>1. Tells(program, 1, <<1>>, told[h])
    BY <1>6 DEF Gives
  <2>2. DOMAIN answer' = Hosts /\ answer'[h] = told[h] /\ \A g \in Hosts \ {h} : answer'[g] = answer[g]
    BY <1>1, <1>2
  <2> QED
    BY <1>2, <2>1, <2>2
<1> QED
  BY <1>1, <1>2, <1>4, <1>5, <1>8, <1>9 DEF AsMeant

(* The innermost verb answers or is refused. *)
LEMMA ApplyKeeps ==
  ASSUME AsMeant, StopsStayHome(program), NEW t \in Threads, Apply(t)
  PROVE  AsMeant'
<1> DEFINE f == Top(t)
           v == IF Last(f.path) \in program.refused THEN Bad("refused", f.path) ELSE Fine(f.path)
<1>1. /\ stack[t] # <<>> /\ KindOf(program, f) = "verb" /\ Leave(t, v)
      /\ program' = program /\ cells' = cells /\ answer' = answer
  BY DEF Apply, On, Kind, Layer, KindOf
<1>2. IsProgram(program)
  BY ProgramsAssumption DEF AsMeant
<1>3. /\ f.layer \in 1 .. Innermost(program) /\ f.path \in Paths /\ told[t] = Nothing
  BY <1>1, TopIs
<1>4. KeptBy(program, stack[t], stops[t], NoStop)
  BY <1>3, TopSilent
<1>5. /\ Says(program, f.layer, f.path) = v /\ Leaves(program, f.layer, f.path) = NoStop
  <2>1. Sequential(program)[f.layer][f.path] = Verb(program, f.path)
    BY <1>1, <1>2, <1>3, LayerSays DEF KindOf
  <2>2. Verb(program, f.path).said = v /\ Verb(program, f.path).left = NoStop
    BY DEF Verb
  <2> HIDE DEF v
  <2> QED
    BY <2>1, <2>2 DEF Says, Leaves
<1>6. v # Nothing
  BY DEF Bad, Fine, Nothing
<1> HIDE DEF v
<1>7. Gives(program, f.layer, f.path, v, NoStop)
  BY <1>5 DEF Gives, Tells
<1>8. NoStop \in Controls \cup {NoStop}
  OBVIOUS
<1> QED
  BY <1>1, <1>4, <1>6, <1>7, <1>8, LeaveKeeps

(* A fold's next step, or the next of cells too few to split, is begun. *)
LEMMA InnerKeeps ==
  ASSUME AsMeant, StopsStayHome(program), NEW t \in Threads, NEW k \in {"fold", "cells"}, NEW most, Inner(t, k, most)
  PROVE  AsMeant'
<1> DEFINE f    == Top(t)
           g    == [f EXCEPT !.begun = @ + 1]
           st   == Changed(t, g)
           busy == Told \cup {t}
           n    == f.layer + 1
           path == Append(f.path, f.begun + 1)
<1>1. /\ stack[t] # <<>> /\ KindOf(program, f) = k /\ told[t] = Nothing
      /\ Enter(st, t, n, path, NoCell)
      /\ program' = program /\ cells' = cells /\ answer' = answer
  BY DEF Inner, On, Kind, Layer, KindOf
<1>2. /\ IsProgram(program) /\ AreStacks(stack) /\ Shape(program, stack, Told, cells)
  BY ProgramsAssumption DEF AsMeant
<1>3. /\ IsStack(stack[t]) /\ Len(stack[t]) \in Nat /\ Len(stack[t]) # 0 /\ f = stack[t][Len(stack[t])]
      /\ DOMAIN f = Fields /\ f.layer \in 1 .. Innermost(program) /\ f.path \in Paths /\ f.begun \in Nat
      /\ Through(program, f.layer)
      /\ Came(program, f, f.begun)
  BY <1>1, TopIs
<1> HIDE DEF f
<1>4. /\ DOMAIN g = Fields /\ g.layer = f.layer /\ g.path = f.path /\ g.cell = f.cell
      /\ g.begun = f.begun + 1 /\ g.got = f.got /\ g.lost = f.lost
  BY <1>3 DEF Fields
<1> HIDE DEF g
<1>5. /\ DOMAIN st = Threads /\ AreStacks(st) /\ Puts(stack[t], Len(stack[t]), g, st[t])
      /\ \A u \in Threads \ {t} : st[u] = stack[u]
  BY <1>1, <1>4, ChangedIs
<1> HIDE DEF st
<1>6. busy \ {t} = Told \ {t} /\ t \in busy
  OBVIOUS
<1> HIDE DEF busy
<1>7. Shape(program, st, busy, cells)
  <2>1. CellsOf(program, g) = CellsOf(program, f) /\ StepsOf(program, g) = StepsOf(program, f)
        /\ KindOf(program, g) = KindOf(program, f)
    BY <1>4 DEF CellsOf, StepsOf, KindOf
  <2>2. Came(program, g, f.begun)
    BY <1>1, <1>3, <1>4, <2>1 DEF Came
  <2>3. g.begun \in Nat /\ g.begun - (IF t \in busy THEN 1 ELSE 0) = f.begun
    BY <1>3, <1>4, <1>6
  <2>4. KindOf(program, f) # "pool" /\ KindOf(program, f) \in {"fold", "cells", "stop"}
    BY <1>1
  <2>5. g.layer = f.layer /\ g.path = f.path /\ g.cell = f.cell /\ g.begun \in Nat
    BY <1>4, <2>3
  <2>6. Came(program, g, g.begun - (IF t \in busy THEN 1 ELSE 0))
    BY <2>2, <2>3
  <2>7. Len(stack[t]) # 0 /\ f = stack[t][Len(stack[t])] /\ busy \ {t} = Told \ {t}
    BY <1>3, <1>6
  <2>8. Puts(stack[t], Len(stack[t]), g, st[t]) /\ \A u \in Threads \ {t} : st[u] = stack[u]
    BY <1>5
  <2> HIDE DEF n, path
  <2> QED
    BY <1>2, <2>4, <2>5, <2>6, <2>7, <2>8, ShapePut
<1>8. KeptBy(program, st[t], stops[t], NoStop)
  <2>1. KeptBy(program, stack[t], stops[t], NoStop)
    BY <1>1, TopSilent
  <2>2. Len(st[t]) = Len(stack[t])
    BY <1>5 DEF Puts
  <2>3. \A d \in 1 .. Len(stack[t]) :
          /\ st[t][d].layer = stack[t][d].layer
          /\ KindOf(program, stack[t][d]) = "cells" => st[t][d].path = stack[t][d].path /\ st[t][d].got = stack[t][d].got
    BY <1>3, <1>4, <1>5 DEF Puts
  <2> QED
    BY <2>1, <2>2, <2>3, KeptAlike
<1>9. n \in 1 .. Innermost(program) /\ Through(program, n)
  <2>1. LayerOf(program, f.layer) # "verb" /\ LayerOf(program, f.layer) # "stop" /\ f.layer \in Nat
    BY <1>1, <1>3 DEF KindOf
  <2> QED
    BY <1>2, <1>3, <2>1, Kinds, ThroughNext
<1>10. path \in Paths
  BY <1>3, PathsGrow
<1>11. Asked(program, st, t, Len(st[t]), n, path, NoCell)
  <2>1. Len(st[t]) = Len(stack[t]) /\ st[t][Len(st[t])] = g
    BY <1>5 DEF Puts
  <2>2. KindOf(program, g) = k
    BY <1>1, <1>4 DEF KindOf
  <2>3. Asks(program, st[t], Len(st[t]), n, path)
    BY <1>3, <1>4, <2>1, <2>2 DEF Asks
  <2> QED
    BY <1>3, <2>1, <2>3 DEF Asked
<1>12. cells' = cells \ {NoCell}
  BY <1>1, NoCellUnbegun
<1> HIDE DEF n, path
<1> QED
  BY <1>1, <1>5, <1>6, <1>7, <1>8, <1>9, <1>10, <1>11, <1>12, BeginKeeps

(* The application on top of t goes on. *)
LEMMA GoesOnKeeps ==
  ASSUME AsMeant, program' = program, answer' = answer, cells' = cells,
         NEW t \in Threads, stack[t] # <<>>, NEW f, f = Top(t), KindOf(program, f) # "pool",
         NEW g, DOMAIN g = Fields, g.layer = f.layer, g.path = f.path, g.cell = f.cell, g.begun \in Nat,
         Came(program, g, g.begun),
         stack' = Changed(t, g), told' = [told EXCEPT ![t] = Nothing],
         DOMAIN stops' = Threads, \A u \in Threads \ {t} : stops'[u] = stops[u],
         \A r : Puts(stack[t], Len(stack[t]), g, r) => KeptBy(program, r, stops'[t], NoStop)
  PROVE  AsMeant'
<1>1. /\ AreStacks(stack) /\ Shape(program, stack, Told, cells) /\ DOMAIN told = Threads
      /\ \A u \in Threads : StopsRight(program, stack[u], stops[u], told[u])
  BY DEF AsMeant
<1>2. Len(stack[t]) # 0 /\ f = stack[t][Len(stack[t])]
  BY TopIs
<1>3. /\ DOMAIN stack' = Threads /\ AreStacks(stack') /\ Puts(stack[t], Len(stack[t]), g, stack'[t])
      /\ \A u \in Threads \ {t} : stack'[u] = stack[u]
  BY ChangedIs
<1>4. /\ DOMAIN told' = Threads /\ told'[t] = Nothing /\ \A u \in Threads \ {t} : told'[u] = told[u]
  BY <1>1
<1>5. Told' \ {t} = Told \ {t} /\ t \notin Told'
  BY <1>4 DEF Told
<1>6. Shape(program, stack', Told', cells)
  <2>1. g.begun - (IF t \in Told' THEN 1 ELSE 0) = g.begun
    BY <1>5
  <2> QED
    BY <1>1, <1>2, <1>3, <1>5, <2>1, ShapePut
<1>7. \A u \in Threads : StopsRight(program, stack'[u], stops'[u], told'[u])
  BY <1>1, <1>3, <1>4, SilentRight
<1> QED
  BY <1>3, <1>4, <1>6, <1>7, MeantRebuilt

(* As many answers as there are cells done. *)
LEMMA CellsSaid ==
  ASSUME NEW path, NEW inner, NEW k \in 0 .. CELLS, AlongCells(path, inner)[k].said.is = "fine"
  PROVE  \E T : AlongCells(path, inner)[k].said.value \in Seq(T) /\ Len(AlongCells(path, inner)[k].said.value) = k
<1> DEFINE A == AlongCells(path, inner)
           T == {inner[Append(path, i)].said.value : i \in 1 .. CELLS}
           S == {j \in Nat : A[j].said.is = "fine" => A[j].said.value \in Seq(T) /\ Len(A[j].said.value) = j}
<1> HIDE DEF T
<1>0. CELLS \in Nat
  BY PoolAssumption
<1>1. /\ A[0] = [left |-> NoStop, said |-> Fine(<<>>)]
      /\ \A i \in 1 .. CELLS : A[i] = ThenCell(A[i - 1], inner[Append(path, i)])
  BY CellsAlong
<1> HIDE DEF A
<1>2. 0 \in S
  <2>1. A[0].said.value = <<>>
    BY <1>1 DEF Fine
  <2>2. <<>> \in Seq(T) /\ Len(<<>>) = 0
    OBVIOUS
  <2> QED
    BY <2>1, <2>2
<1>3. ASSUME NEW j \in Nat, j < CELLS, j \in S PROVE j + 1 \in S
  <2> SUFFICES ASSUME A[j + 1].said.is = "fine" PROVE A[j + 1].said.value \in Seq(T) /\ Len(A[j + 1].said.value) = j + 1
    OBVIOUS
  <2> DEFINE r == inner[Append(path, j + 1)]
             v == A[j].said.value
  <2>1. j + 1 \in 1 .. CELLS /\ (j + 1) - 1 = j
    BY <1>0, <1>3
  <2>2. A[j + 1] = ThenCell(A[j], r)
    BY <1>1, <2>1
  <2>3. r.said.value \in T
    BY <2>1 DEF T
  <2>4. A[j].said.is = "fine" => v \in Seq(T) /\ Len(v) = j
    BY <1>3
  <2> HIDE DEF r
  <2>5. A[j].said.is = "fine" /\ A[j + 1].said = Fine(Append(v, r.said.value))
    BY <2>2 DEF ThenCell
  <2> HIDE DEF v
  <2>6. Append(v, r.said.value) \in Seq(T) /\ Len(Append(v, r.said.value)) = j + 1
    BY <2>3, <2>4, <2>5
  <2> QED
    BY <2>5, <2>6 DEF Fine
<1>4. \A i \in 0 .. CELLS : i \in S
  <2> HIDE DEF S
  <2> QED
    BY <1>0, <1>2, <1>3, Climb
<1> QED
  BY <1>4 DEF A

(* A cell has answered: the refusal, the last cell, or one more. *)
LEMMA CellAnsweredKeeps ==
  ASSUME AsMeant, StopsStayHome(program), NEW t \in Threads, CellAnswered(t)
  PROVE  AsMeant'
<1> DEFINE f    == Top(t)
           v    == told[t]
           got  == Append(f.got, v.value)
           g    == [f EXCEPT !.got = got]
           n    == f.layer + 1
           path == Append(f.path, f.begun)
           r    == Sequential(program)[n][path]
           A    == CellsOf(program, f)
           done == f.begun - 1
<1>1. /\ stack[t] # <<>> /\ KindOf(program, f) = "cells" /\ v # Nothing
      /\ program' = program /\ cells' = cells /\ answer' = answer
  BY DEF CellAnswered, On, Kind, Layer, KindOf
<1>2. /\ v.is # "fine" => Leave(t, v)
      /\ v.is = "fine" /\ Len(got) = CELLS => Leave(t, Fine(got))
      /\ v.is = "fine" /\ Len(got) # CELLS =>
           stack' = Changed(t, g) /\ told' = [told EXCEPT ![t] = Nothing] /\ stops' = stops
  BY DEF CellAnswered
<1>3. IsProgram(program) /\ DOMAIN stops = Threads
  BY ProgramsAssumption DEF AsMeant
<1>4. /\ Len(stack[t]) \in Nat /\ Len(stack[t]) # 0 /\ f = stack[t][Len(stack[t])] /\ IsStack(stack[t])
      /\ DOMAIN f = Fields /\ f.layer \in 1 .. Innermost(program) /\ f.path \in Paths /\ f.begun \in Nat
      /\ Came(program, f, done)
  BY <1>1, TopIs
<1> HIDE DEF f, v
<1>5. done \in 0 .. CELLS - 1 /\ done = Len(f.got) /\ A[done].said = Fine(f.got)
  BY <1>1, <1>4 DEF Came
<1>6. PICK c \in Controls \cup {NoStop} :
        KeptBy(program, stack[t], stops[t], c) /\ Gives(program, n, path, v, c)
  <2>1. Asks(program, stack[t], Len(stack[t]), n, path)
    BY <1>1, <1>4 DEF Asks
  <2> QED
    BY <1>1, <2>1, TopSays DEF v
<1>7. /\ v \in {r.said, Limit}
      /\ v.is = "fine" => c = r.left
      /\ Quiet(program, n) => c = NoStop
  BY <1>6 DEF Gives, Tells, Says, Leaves
<1>8. CELLS \in Nat /\ f.begun \in 1 .. CELLS /\ done \in 0 .. CELLS
  <2>1. CELLS \in Nat
    BY PoolAssumption
  <2>2. f.begun \in Nat /\ f.begun - 1 \in 0 .. CELLS - 1
    BY <1>4, <1>5
  <2> QED
    BY <2>1, <2>2
<1>9. A[f.begun] = ThenCell(A[done], r)
  <2>1. \A i \in 1 .. CELLS : A[i] = ThenCell(A[i - 1], Sequential(program)[n][Append(f.path, i)])
    BY CellsAlong DEF CellsOf
  <2> QED
    BY <1>8, <2>1
<1>10. /\ Sequential(program)[f.layer][f.path] = A[CELLS]
       /\ \A k \in 0 .. CELLS : A[k].said.is # "fine" => A[CELLS] = A[k]
  <2>1. f.layer \in 1 .. Innermost(program) /\ f.path \in Paths /\ LayerOf(program, f.layer) = "cells"
    BY <1>1, <1>4 DEF KindOf
  <2>2. Sequential(program)[f.layer][f.path] = A[CELLS]
    BY <1>3, <2>1, LayerSays DEF CellsOf
  <2>3. \A k \in 0 .. CELLS : A[k].said.is # "fine" => A[CELLS] = A[k]
    BY CellsEnd DEF CellsOf
  <2> QED
    BY <2>2, <2>3
<1>11. /\ A[done].left \in Controls \cup {NoStop}
       /\ Quiet(program, f.layer) => A[done].left = NoStop
  <2>1. A[done].said.is = "fine"
    BY <1>5 DEF Fine
  <2> QED
    BY <1>1, <1>3, <1>4, <1>8, <2>1, CellsLeft
<1>12. Quiet(program, f.layer) => Quiet(program, n)
  <2>1. LayerOf(program, f.layer) # "fold" /\ f.layer \in Nat /\ Innermost(program) \in Nat
    BY <1>1, <1>3, <1>4, Kinds DEF KindOf
  <2> QED
    BY <2>1, QuietInside
<1>13. \E T : f.got \in Seq(T)
  <2>1. A[done].said.is = "fine" /\ A[done].said.value = f.got
    BY <1>5 DEF Fine
  <2>2. \E T : A[done].said.value \in Seq(T)
    BY <1>8, <2>1, CellsSaid DEF CellsOf
  <2> QED
    BY <1>5, <2>1, <2>2
<1>14. Len(got) = f.begun
  <2>1. PICK T : f.got \in Seq(T)
    BY <1>13
  <2>2. Len(got) = Len(f.got) + 1
    BY <2>1
  <2> QED
    BY <1>4, <1>5, <2>2
<1> DEFINE e == Over(A[Len(f.got)].left, c)
<1>15. e = Over(A[done].left, c) /\ (Quiet(program, f.layer) => e = NoStop)
  BY <1>5, <1>7, <1>11, <1>12 DEF Over
<1> HIDE DEF e
<1>16. CASE v.is # "fine"
  <2>1. Tells(program, f.layer, f.path, v)
    <3>1. CASE v = Limit
      BY <3>1 DEF Tells
    <3>2. CASE v = r.said
      <4>1. A[f.begun].said = v
        BY <1>5, <1>9, <1>16, <3>2 DEF ThenCell, Fine
      <4>2. A[CELLS].said = v
        <5>1. f.begun \in 0 .. CELLS
          BY <1>8
        <5> QED
          BY <1>10, <1>16, <4>1, <5>1
      <4> QED
        BY <1>10, <4>2 DEF Tells, Says
    <3> QED
      BY <1>7, <3>1, <3>2
  <2>2. Gives(program, f.layer, f.path, v, e)
    BY <1>15, <1>16, <2>1 DEF Gives
  <2>3. Leave(t, v)
    BY <1>2, <1>16
  <2>4. KindOf(program, f) = "cells" => e = Over(CellsOf(program, f)[Len(f.got)].left, c)
    BY DEF e
  <2> QED
    BY <1>1, <1>6, <2>2, <2>3, <2>4, LeaveKeeps DEF f
<1>17. CASE v.is = "fine"
  <2>1. v = r.said /\ c = r.left
    BY <1>7, <1>17 DEF Limit, Bad
  <2>2. A[f.begun] = [left |-> e, said |-> Fine(got)]
    <3>1. A[done].said.is = "fine" /\ A[done].said.value = f.got
      BY <1>5 DEF Fine
    <3> QED
      BY <1>9, <1>15, <1>17, <2>1, <3>1 DEF ThenCell
  <2> HIDE DEF got
  <2>3. CASE Len(got) = CELLS
    <3>1. Says(program, f.layer, f.path) = Fine(got) /\ Leaves(program, f.layer, f.path) = e
      BY <1>10, <1>14, <2>2, <2>3 DEF Says, Leaves
    <3>2. Gives(program, f.layer, f.path, Fine(got), e)
      BY <1>15, <3>1 DEF Gives, Tells
    <3>3. Leave(t, Fine(got)) /\ Fine(got) # Nothing
      BY <1>2, <1>17, <2>3 DEF Fine, Nothing
    <3>4. KindOf(program, f) = "cells" => e = Over(CellsOf(program, f)[Len(f.got)].left, c)
      BY DEF e
    <3> QED
      BY <1>1, <1>6, <3>2, <3>3, <3>4, LeaveKeeps DEF f
  <2>4. CASE Len(got) # CELLS
    <3>1. stack' = Changed(t, g) /\ told' = [told EXCEPT ![t] = Nothing] /\ stops' = stops
      BY <1>2, <1>17, <2>4
    <3>2. /\ DOMAIN g = Fields /\ g.layer = f.layer /\ g.path = f.path /\ g.cell = f.cell
          /\ g.begun = f.begun /\ g.got = got
      BY <1>4 DEF Fields
    <3> HIDE DEF g
    <3>3. CellsOf(program, g) = A /\ KindOf(program, g) = KindOf(program, f)
      BY <3>2 DEF CellsOf, KindOf
    <3>4. Came(program, g, g.begun)
      <4>1. f.begun \in 0 .. CELLS - 1
        BY <1>8, <1>14, <2>4
      <4> QED
        BY <1>1, <1>14, <2>2, <3>2, <3>3, <4>1 DEF Came
    <3>5. ASSUME NEW q, Puts(stack[t], Len(stack[t]), g, q)
          PROVE  KeptBy(program, q, stops'[t], NoStop)
      <4>1. CellsOf(program, g)[Len(g.got)].left = Over(CellsOf(program, f)[Len(f.got)].left, c)
        BY <1>14, <2>2, <3>2, <3>3 DEF e
      <4>2. CellsOf(program, f)[Len(f.got)].left \in Controls \cup {NoStop}
        BY <1>5, <1>11
      <4>3. KeptBy(program, q, stops[t], NoStop)
        BY <1>1, <1>4, <1>6, <3>2, <3>5, <4>1, <4>2, KeptPut
      <4> QED
        BY <3>1, <4>3
    <3>6. DOMAIN stops' = Threads /\ \A u \in Threads \ {t} : stops'[u] = stops[u]
      BY <1>3, <3>1
    <3>7. KindOf(program, f) # "pool" /\ g.begun \in Nat
      BY <1>1, <1>4, <3>2
    <3> QED
      BY <1>1, <3>1, <3>2, <3>4, <3>5, <3>6, <3>7, GoesOnKeeps DEF f
  <2> QED
    BY <2>3, <2>4
<1> QED
  BY <1>16, <1>17

(* A step has answered: the refusal, the end of the fold, or one more,     *)
(* kept or left out as its stop said.                                      *)
LEMMA StepAnsweredKeeps ==
  ASSUME AsMeant, StopsStayHome(program), NEW t \in Threads, StepAnswered(t)
  PROVE  AsMeant'
<1> DEFINE f    == Top(t)
           v    == told[t]
           took == Last(stops[t])
           kept == IF Kept(took) THEN Append(f.got, f.begun) ELSE f.got
           lost == f.lost \/ ~Kept(took)
           says == IF lost /\ kept = <<>> THEN Bad("left out", f.path) ELSE Fine(kept)
           g    == [f EXCEPT !.got = kept, !.lost = lost]
           n    == f.layer + 1
           path == Append(f.path, f.begun)
           r    == Sequential(program)[n][path]
           A    == StepsOf(program, f)
           done == f.begun - 1
<1>1. /\ stack[t] # <<>> /\ KindOf(program, f) = "fold" /\ v # Nothing
      /\ program' = program /\ cells' = cells /\ answer' = answer
  BY DEF StepAnswered, On, Kind, Layer, KindOf
<1>2. /\ v.is # "fine" => Leave(t, v)
      /\ v.is = "fine" /\ (f.begun = STEPS \/ Ended(took)) => Leave(t, says)
      /\ v.is = "fine" /\ ~(f.begun = STEPS \/ Ended(took)) =>
           /\ stack' = Changed(t, g) /\ told' = [told EXCEPT ![t] = Nothing]
           /\ stops' = [stops EXCEPT ![t][Len(stops[t])] = NoStop]
  BY DEF StepAnswered
<1>3. IsProgram(program) /\ DOMAIN stops = Threads
  BY ProgramsAssumption DEF AsMeant
<1>4. /\ Len(stack[t]) \in Nat /\ Len(stack[t]) # 0 /\ f = stack[t][Len(stack[t])] /\ IsStack(stack[t])
      /\ DOMAIN f = Fields /\ f.layer \in 1 .. Innermost(program) /\ f.path \in Paths /\ f.begun \in Nat
      /\ Came(program, f, done)
  BY <1>1, TopIs
<1> HIDE DEF f, v, took
<1>5. /\ done \in 0 .. STEPS - 1
      /\ A[done] = [over |-> FALSE, said |-> Fine(<<>>), kept |-> f.got, lost |-> f.lost]
  BY <1>1, <1>4 DEF Came
<1>6. PICK c \in Controls \cup {NoStop} :
        KeptBy(program, stack[t], stops[t], c) /\ Gives(program, n, path, v, c)
  <2>1. Asks(program, stack[t], Len(stack[t]), n, path)
    BY <1>1, <1>4 DEF Asks
  <2> QED
    BY <1>1, <2>1, TopSays DEF v
<1>7. took = c
  <2>1. Pops(stack[t], Front(stack[t]))
    BY <1>1, <1>4, PopIs
  <2>2. KindOf(program, f) # "cells"
    BY <1>1
  <2> QED
    BY <1>1, <1>4, <1>6, <2>1, <2>2, KeptPop DEF took
<1>8. v \in {r.said, Limit} /\ (v.is = "fine" => c = r.left)
  BY <1>6 DEF Gives, Tells, Says, Leaves
<1>9. STEPS \in Nat /\ f.begun \in 1 .. STEPS /\ f.begun \in 0 .. STEPS
  <2>1. STEPS \in Nat
    BY PoolAssumption
  <2>2. f.begun \in Nat /\ f.begun - 1 \in 0 .. STEPS - 1
    BY <1>4, <1>5
  <2> QED
    BY <2>1, <2>2
<1>10. A[f.begun] = ThenStep(A[done], f.begun, r)
  <2>1. \A i \in 1 .. STEPS : A[i] = ThenStep(A[i - 1], i, Sequential(program)[n][Append(f.path, i)])
    BY StepsAlong DEF StepsOf
  <2> QED
    BY <1>9, <2>1
<1>11. /\ Sequential(program)[f.layer][f.path] = Folded(f.path, A[STEPS])
       /\ A[f.begun].over => A[STEPS] = A[f.begun]
  <2>1. f.layer \in 1 .. Innermost(program) /\ f.path \in Paths /\ LayerOf(program, f.layer) = "fold"
    BY <1>1, <1>4 DEF KindOf
  <2>2. Sequential(program)[f.layer][f.path] = Folded(f.path, A[STEPS])
    BY <1>3, <2>1, LayerSays DEF StepsOf
  <2>3. A[f.begun].over => A[STEPS] = A[f.begun]
    BY <1>9, StepsEnd DEF StepsOf
  <2> QED
    BY <2>2, <2>3
<1>12. CASE v.is # "fine"
  <2>1. Tells(program, f.layer, f.path, v)
    <3>1. CASE v = Limit
      BY <3>1 DEF Tells
    <3>2. CASE v = r.said
      <4>1. A[f.begun].said = v /\ A[f.begun].over
        BY <1>5, <1>10, <1>12, <3>2 DEF ThenStep
      <4>2. Folded(f.path, A[STEPS]).said = v
        BY <1>11, <1>12, <4>1 DEF Folded
      <4> QED
        BY <1>11, <4>2 DEF Tells, Says
    <3> QED
      BY <1>8, <3>1, <3>2
  <2>2. Gives(program, f.layer, f.path, v, NoStop)
    BY <1>12, <2>1 DEF Gives
  <2>3. Leave(t, v)
    BY <1>2, <1>12
  <2> QED
    BY <1>1, <1>6, <2>2, <2>3, LeaveKeeps DEF f
<1>13. CASE v.is = "fine"
  <2>1. v = r.said /\ took = r.left
    BY <1>7, <1>8, <1>13 DEF Limit, Bad
  <2>2. A[f.begun] = [over |-> Ended(took), said |-> Fine(<<>>), kept |-> kept, lost |-> lost]
    BY <1>5, <1>10, <1>13, <2>1 DEF ThenStep
  <2>3. CASE f.begun = STEPS \/ Ended(took)
    <3>1. A[STEPS] = A[f.begun]
      BY <1>11, <2>2, <2>3
    <3>2. Folded(f.path, A[STEPS]).said = says /\ Folded(f.path, A[STEPS]).left = NoStop
      <4> HIDE DEF kept, lost
      <4>1. A[STEPS].said.is = "fine" /\ A[STEPS].kept = kept /\ A[STEPS].lost = lost
        BY <2>2, <3>1 DEF Fine
      <4> HIDE DEF A
      <4> QED
        BY <4>1 DEF Folded
    <3>3. Leave(t, says) /\ says # Nothing
      BY <1>2, <1>13, <2>3 DEF Fine, Bad, Nothing
    <3> HIDE DEF says
    <3>4. Gives(program, f.layer, f.path, says, NoStop)
      BY <1>11, <3>2 DEF Gives, Tells, Says, Leaves
    <3> QED
      BY <1>1, <1>6, <3>3, <3>4, LeaveKeeps DEF f
  <2>4. CASE ~(f.begun = STEPS \/ Ended(took))
    <3>1. /\ stack' = Changed(t, g) /\ told' = [told EXCEPT ![t] = Nothing]
          /\ stops' = [stops EXCEPT ![t][Len(stops[t])] = NoStop]
      BY <1>2, <1>13, <2>4
    <3>2. A[f.begun] = [over |-> FALSE, said |-> Fine(<<>>), kept |-> kept, lost |-> lost]
      <4>1. Ended(took) = FALSE
        BY <2>4 DEF Ended
      <4> HIDE DEF kept, lost, A
      <4> QED
        BY <2>2, <4>1
    <3> HIDE DEF kept, lost
    <3>3. /\ DOMAIN g = Fields /\ g.layer = f.layer /\ g.path = f.path /\ g.cell = f.cell
          /\ g.begun = f.begun /\ g.got = kept /\ g.lost = lost
      BY <1>4 DEF Fields
    <3> HIDE DEF g
    <3>4. StepsOf(program, g) = A /\ KindOf(program, g) = "fold"
      BY <1>1, <3>3 DEF StepsOf, KindOf
    <3>5. Came(program, g, g.begun)
      <4>1. f.begun \in 0 .. STEPS - 1
        BY <1>9, <2>4
      <4> QED
        BY <3>2, <3>3, <3>4, <4>1 DEF Came
    <3>6. /\ DOMAIN stops' = Threads /\ \A u \in Threads \ {t} : stops'[u] = stops[u]
          /\ stops'[t] = [stops[t] EXCEPT ![Len(stops[t])] = NoStop]
      BY <1>3, <3>1
    <3>7. ASSUME NEW q, Puts(stack[t], Len(stack[t]), g, q)
          PROVE  KeptBy(program, q, stops'[t], NoStop)
      <4>1. KindOf(program, f) # "cells"
        BY <1>1
      <4>2. KeptBy(program, q, [stops[t] EXCEPT ![Len(stops[t])] = NoStop], NoStop)
        BY <1>1, <1>4, <1>6, <3>3, <3>7, <4>1, KeptPut
      <4> QED
        BY <3>6, <4>2
    <3>8. KindOf(program, f) # "pool" /\ g.begun \in Nat
      BY <1>1, <1>4, <3>3
    <3> QED
      BY <1>1, <3>1, <3>3, <3>5, <3>6, <3>7, <3>8, GoesOnKeeps DEF f
  <2> QED
    BY <2>3, <2>4
<1> QED
  BY <1>12, <1>13

(* Where a fold has been opened, a stop that is reached is inside one. *)
LEMMA OpenedInFold ==
  ASSUME NEW p, IsProgram(p), Opened(p), NEW n \in 1 .. Innermost(p), Through(p, n), LayerOf(p, n) = "stop"
  PROVE  InFold(p, n)
<1>1. PICK k \in 1 .. Innermost(p) : LayerOf(p, k) = "fold" /\ Through(p, k)
  BY DEF Opened
<1>2. k # n /\ Innermost(p) \in Nat
  BY <1>1, Kinds
<1>3. CASE k < n
  <2>1. k \in 1 .. n - 1
    BY <1>2, <1>3
  <2> QED
    BY <1>1, <2>1 DEF InFold
<1>4. CASE n < k
  <2>1. n \in 1 .. k - 1
    BY <1>2, <1>4
  <2> QED
    BY <1>1, <2>1 DEF Through
<1> QED
  BY <1>2, <1>3, <1>4

(* A stop is refused where no fold is open, or begins its v. *)
LEMMA StopKeeps ==
  ASSUME AsMeant, StopsStayHome(program), NEW t \in Threads, Stop(t)
  PROVE  AsMeant'
<1> DEFINE f == Top(t)
           L == Len(stack[t])
           v == Bad("no fold", f.path)
<1>1. /\ stack[t] # <<>> /\ KindOf(program, f) = "stop" /\ told[t] = Nothing
      /\ stops[t] = <<>> => Leave(t, v)
      /\ stops[t] # <<>> => Enter(stack, t, f.layer + 1, f.path, NoCell)
      /\ program' = program /\ cells' = cells /\ answer' = answer
  BY DEF Stop, On, Kind, Layer, KindOf
<1>2. IsProgram(program) /\ DOMAIN stack = Threads /\ AreStacks(stack) /\ Shape(program, stack, Told, cells)
  BY ProgramsAssumption DEF AsMeant
<1>3. /\ IsStack(stack[t]) /\ L \in Nat /\ L # 0 /\ f = stack[t][L]
      /\ f.layer \in 1 .. Innermost(program) /\ f.path \in Paths /\ f.begun \in Nat
      /\ Through(program, f.layer)
  BY <1>1, TopIs
<1> HIDE DEF f, L, v
<1>4. KeptBy(program, stack[t], stops[t], NoStop)
  BY <1>1, TopSilent
<1>5. PICK S : Levels(program, stack[t], S) /\ stops[t] = S[L]
  BY <1>4 DEF KeptBy, WithLeft, L
<1>6. LayerOf(program, f.layer) = "stop"
  BY <1>1 DEF KindOf
<1>7. CASE stops[t] = <<>>
  <2>1. ~InFold(program, f.layer)
    <3> SUFFICES ASSUME InFold(program, f.layer) PROVE FALSE
      OBVIOUS
    <3>1. Home(program, f.layer)
      BY <1>2, <1>3, <1>6, HomeOfStop
    <3>2. L \in 1 .. Len(stack[t])
      BY <1>3 DEF L
    <3>3. S[L] = Stepped(program, S[L - 1], f) /\ S[L - 1] # <<>>
      BY <1>3, <1>5, <3>1, <3>2 DEF Levels
    <3>4. Stepped(program, S[L - 1], f) = S[L - 1]
      BY <1>1 DEF Stepped
    <3> QED
      BY <1>5, <1>7, <3>3, <3>4
  <2>2. Sequential(program)[f.layer][f.path] = [left |-> NoStop, said |-> v]
    BY <1>2, <1>3, <1>6, <2>1, LayerSays DEF Stopping, v
  <2>3. Gives(program, f.layer, f.path, v, NoStop)
    BY <2>2 DEF Gives, Tells, Says, Leaves
  <2>4. v # Nothing
    BY DEF v, Bad, Nothing
  <2>5. NoStop \in Controls \cup {NoStop}
    OBVIOUS
  <2> QED
    BY <1>1, <1>4, <1>7, <2>3, <2>4, <2>5, LeaveKeeps DEF f
<1>8. CASE stops[t] # <<>>
  <2> DEFINE busy == Told \cup {t}
  <2>1. InFold(program, f.layer)
    <3>1. L \in 0 .. Len(stack[t])
      BY <1>3 DEF L
    <3>2. Opened(program)
      BY <1>5, <1>8, <3>1 DEF Levels
    <3> QED
      BY <1>2, <1>3, <1>6, <3>2, OpenedInFold
  <2>2. busy \ {t} = Told \ {t} /\ t \in busy
    OBVIOUS
  <2> HIDE DEF busy
  <2>3. Shape(program, stack, busy, cells)
    <3>1. Came(program, f, f.begun - (IF t \in busy THEN 1 ELSE 0))
      BY <1>1, <2>1 DEF Came
    <3>2. Puts(stack[t], Len(stack[t]), f, stack[t])
      BY <1>3 DEF Puts, L
    <3>3. KindOf(program, f) # "pool" /\ KindOf(program, f) \in {"fold", "cells", "stop"}
      BY <1>1
    <3>4. f = stack[t][Len(stack[t])] /\ Len(stack[t]) # 0
      BY <1>3 DEF L
    <3> QED
      BY <1>2, <1>3, <2>2, <3>1, <3>2, <3>3, <3>4, ShapePut
  <2>4. f.layer + 1 \in 1 .. Innermost(program) /\ Through(program, f.layer + 1)
    BY <1>2, <1>3, <1>6, <2>1, Kinds, ThroughNext
  <2>5. Asked(program, stack, t, Len(stack[t]), f.layer + 1, f.path, NoCell)
    BY <1>1, <1>3 DEF Asked, Asks, L
  <2>6. cells' = cells \ {NoCell}
    BY <1>1, NoCellUnbegun
  <2>7. Enter(stack, t, f.layer + 1, f.path, NoCell)
    BY <1>1, <1>8
  <2> QED
    BY <1>1, <1>2, <1>3, <1>4, <2>2, <2>3, <2>4, <2>5, <2>6, <2>7, BeginKeeps
<1> QED
  BY <1>7, <1>8

(* A stop's v has answered, and its control is left for the innermost      *)
(* fold.                                                                   *)
LEMMA StopSaidKeeps ==
  ASSUME AsMeant, StopsStayHome(program), NEW t \in Threads, StopSaid(t)
  PROVE  AsMeant'
<1> DEFINE f == Top(t)
           v == told[t]
           w == IF v.is = "fine" THEN Fine(<<>>) ELSE v
           x == IF Last(f.path) = 1 THEN program.control ELSE NoStop
           n == f.layer + 1
           r == Sequential(program)[n][f.path]
<1>1. /\ stack[t] # <<>> /\ KindOf(program, f) = "stop" /\ v # Nothing
      /\ Answering([stack EXCEPT ![t] = Front(@)], t, w, f.cell)
      /\ stops' = IF v.is = "fine" /\ Last(f.path) = 1
                  THEN [stops EXCEPT ![t][Len(stops[t])] = program.control] ELSE stops
      /\ program' = program /\ cells' = cells /\ answer' = answer
  BY DEF StopSaid, On, Kind, Layer, KindOf
<1>2. IsProgram(program) /\ DOMAIN stops = Threads
  BY ProgramsAssumption DEF AsMeant
<1>3. /\ IsStack(stack[t]) /\ Len(stack[t]) \in Nat /\ Len(stack[t]) # 0 /\ f = stack[t][Len(stack[t])]
      /\ f.layer \in 1 .. Innermost(program) /\ f.path \in Paths /\ f.begun \in Nat
      /\ Came(program, f, f.begun - 1)
  BY <1>1, TopIs
<1> HIDE DEF f, v, w
<1>4. InFold(program, f.layer)
  <2>1. f.begun - 1 < f.begun
    BY <1>3
  <2> QED
    BY <1>1, <1>3, <2>1 DEF Came
<1>5. PICK c \in Controls \cup {NoStop} :
        KeptBy(program, stack[t], stops[t], c) /\ Gives(program, n, f.path, v, c)
  <2>1. Asks(program, stack[t], Len(stack[t]), n, f.path)
    BY <1>1, <1>3 DEF Asks
  <2> QED
    BY <1>1, <2>1, TopSays DEF v
<1>6. v \in {r.said, Limit} /\ (v.is = "fine" => c = r.left)
  BY <1>5 DEF Gives, Tells, Says, Leaves
<1>7. KeptBy(program, Front(stack[t]), stops[t], c)
  <2>1. Pops(stack[t], Front(stack[t]))
    BY <1>1, <1>3, PopIs
  <2>2. KindOf(program, f) \notin {"fold", "cells"} /\ KindOf(program, f) # "cells"
    BY <1>1
  <2> QED
    BY <1>3, <1>5, <2>1, <2>2, KeptPop
<1> DEFINE e == IF v.is = "fine" THEN Over(c, x) ELSE c
<1>8. program.control \in Controls /\ x \in Controls \cup {NoStop} /\ e \in Controls \cup {NoStop}
  BY <1>2 DEF IsProgram, Over
<1>9. DOMAIN stops' = Threads /\ \A u \in Threads \ {t} : stops'[u] = stops[u]
  BY <1>1, <1>2
<1>10. KeptBy(program, Front(stack[t]), stops'[t], e)
  <2>1. CASE v.is = "fine" /\ Last(f.path) = 1
    <3>1. stops'[t] = [stops[t] EXCEPT ![Len(stops[t])] = program.control]
      BY <1>1, <1>2, <2>1
    <3>2. x = program.control /\ x # NoStop
      BY <1>8, <2>1 DEF Controls, NoStop
    <3>3. stops'[t] = WithLeft(stops[t], x) /\ e = Over(c, x)
      BY <2>1, <3>1, <3>2 DEF WithLeft
    <3> HIDE DEF e, x
    <3>4. PICK S : Levels(program, Front(stack[t]), S) /\ stops[t] = WithLeft(S[Len(Front(stack[t]))], c)
      BY <1>7 DEF KeptBy
    <3> DEFINE b == S[Len(Front(stack[t]))]
    <3>5. b \in Stops /\ stops[t] = WithLeft(b, c)
      <4>1. Len(Front(stack[t])) \in Nat
        BY <1>1, <1>3, PopIs, StackLength DEF Pops
      <4> QED
        BY <3>4, <4>1 DEF Levels
    <3>6. stops'[t] = WithLeft(b, e)
      <4> HIDE DEF b
      <4> QED
        BY <1>8, <3>3, <3>5, LeftIs
    <3> QED
      BY <3>4, <3>6 DEF KeptBy
  <2>2. CASE ~(v.is = "fine" /\ Last(f.path) = 1)
    <3>1. stops'[t] = stops[t]
      BY <1>1, <2>2
    <3>2. e = c
      BY <2>2 DEF Over
    <3> QED
      BY <1>7, <3>1, <3>2
  <2> QED
    BY <2>1, <2>2
<1>11. Sequential(program)[f.layer][f.path] = Stopping(program, f.layer, f.path, Sequential(program)[n])
  BY <1>1, <1>2, <1>3, LayerSays DEF KindOf
<1>12. Gives(program, f.layer, f.path, w, e)
  <2>0. Innermost(program) \in Nat /\ f.layer \in Nat /\ f.layer <= Innermost(program)
    <3>1. IsProgram(program) /\ f.layer \in 1 .. Innermost(program)
      BY <1>2, <1>3
    <3>2. Innermost(program) \in Nat
      BY <3>1, Kinds
    <3> QED
      BY <3>1, <3>2
  <2>1. ~Quiet(program, f.layer)
    BY <1>1, <1>4, <2>0, QuietStop DEF KindOf
  <2>2. CASE v.is = "fine"
    <3>1. v = r.said /\ c = r.left
      BY <1>6, <2>2 DEF Limit, Bad
    <3>2. Stopping(program, f.layer, f.path, Sequential(program)[n]) = [left |-> e, said |-> w]
      BY <1>4, <2>2, <3>1 DEF Stopping, w
    <3> QED
      BY <1>11, <2>1, <3>2 DEF Gives, Tells, Says, Leaves
  <2>3. CASE v.is # "fine"
    <3>1. v = r.said => Stopping(program, f.layer, f.path, Sequential(program)[n]) = r
      BY <1>4, <2>3 DEF Stopping
    <3>2. v = Limit \/ Says(program, f.layer, f.path) = v
      BY <1>6, <1>11, <3>1 DEF Says
    <3>3. w = v
      BY <2>3 DEF w
    <3> QED
      BY <2>1, <2>3, <3>2, <3>3 DEF Gives, Tells
  <2> QED
    BY <2>2, <2>3
<1>13. w # Nothing
  BY <1>1 DEF w, Fine, Nothing
<1>14. KindOf(program, f) # "pool"
  BY <1>1
<1> HIDE DEF e
<1> QED
  BY <1>1, <1>8, <1>9, <1>10, <1>12, <1>13, <1>14, EndKeeps DEF f

(* Cells are handed to the pool. *)
LEMMA HandOutKeeps ==
  ASSUME AsMeant, StopsStayHome(program), NEW t \in Threads, HandOut(t)
  PROVE  AsMeant'
<1> DEFINE f == Top(t)
           g == [f EXCEPT !.begun = CELLS, !.got = [i \in 1 .. CELLS |-> Nothing]]
<1>1. /\ stack[t] # <<>> /\ KindOf(program, f) = "pool" /\ f.begun = 0
      /\ stack' = Changed(t, g)
      /\ cells' = cells \cup {<<t, Len(stack[t]), i>> : i \in 1 .. CELLS}
      /\ program' = program /\ stops' = stops /\ told' = told /\ answer' = answer
  BY DEF HandOut, On, Kind, Layer, KindOf
<1>2. /\ AreStacks(stack) /\ Shape(program, stack, Told, cells)
      /\ DOMAIN stops = Threads /\ DOMAIN told = Threads
      /\ \A u \in Threads : StopsRight(program, stack[u], stops[u], told[u])
  BY DEF AsMeant
<1>3. /\ Len(stack[t]) # 0 /\ f = stack[t][Len(stack[t])] /\ DOMAIN f = Fields /\ told[t] = Nothing
  BY <1>1, TopIs
<1> HIDE DEF f
<1>4. /\ DOMAIN g = Fields /\ g.layer = f.layer /\ g.path = f.path /\ g.cell = f.cell
      /\ g.begun = CELLS /\ g.got = [i \in 1 .. CELLS |-> Nothing]
  BY <1>3 DEF Fields
<1> HIDE DEF g
<1>5. /\ DOMAIN stack' = Threads /\ AreStacks(stack') /\ Puts(stack[t], Len(stack[t]), g, stack'[t])
      /\ \A u \in Threads \ {t} : stack'[u] = stack[u]
  BY <1>1, <1>4, ChangedIs
<1>6. Shape(program, stack', Told, cells')
  <2>1. cells' = cells \cup HandedOut(t, stack[t])
    BY <1>1 DEF HandedOut
  <2>2. DOMAIN g.got = 1 .. CELLS /\ \A i \in 1 .. CELLS : g.got[i] = Nothing
    BY <1>4
  <2>3. g.layer = f.layer /\ g.path = f.path /\ g.cell = f.cell /\ g.begun = CELLS
    BY <1>4
  <2>4. KindOf(program, f) = "pool" /\ f.begun = 0 /\ Len(stack[t]) # 0 /\ f = stack[t][Len(stack[t])]
    BY <1>1, <1>3
  <2>5. Shape(program, stack, Told, cells) /\ AreStacks(stack)
    BY <1>2
  <2>6. Puts(stack[t], Len(stack[t]), g, stack'[t]) /\ \A u \in Threads \ {t} : stack'[u] = stack[u]
    BY <1>5
  <2> QED
    BY <2>1, <2>2, <2>3, <2>4, <2>5, <2>6, ShapeHandOut
<1>7. Told' = Told
  BY <1>1 DEF Told
<1>8. KeptBy(program, stack'[t], stops[t], NoStop)
  <2>1. KeptBy(program, stack[t], stops[t], NoStop)
    BY <1>3, TopSilent
  <2>2. Len(stack'[t]) = Len(stack[t])
    BY <1>5 DEF Puts
  <2>3. \A d \in 1 .. Len(stack[t]) :
          /\ stack'[t][d].layer = stack[t][d].layer
          /\ KindOf(program, stack[t][d]) = "cells" =>
               stack'[t][d].path = stack[t][d].path /\ stack'[t][d].got = stack[t][d].got
    BY <1>1, <1>3, <1>4, <1>5 DEF Puts
  <2> QED
    BY <2>1, <2>2, <2>3, KeptAlike
<1>9. \A u \in Threads : StopsRight(program, stack'[u], stops'[u], told'[u])
  BY <1>1, <1>2, <1>3, <1>5, <1>8, SilentRight
<1>10. Shape(program, stack', Told', cells')
  BY <1>6, <1>7
<1>11. DOMAIN stops' = Threads /\ DOMAIN told' = Threads
  BY <1>1, <1>2
<1> QED
  BY <1>1, <1>5, <1>9, <1>10, <1>11, MeantRebuilt

(* A worker begins a cell, on top of whatever it waits in. *)
LEMMA TakeKeeps ==
  ASSUME AsMeant, StopsStayHome(program), NEW t \in Threads, Take(t)
  PROVE  AsMeant'
<1>1. PICK c \in cells : /\ Enter(stack, t, stack[c[1]][c[2]].layer + 1, Append(stack[c[1]][c[2]].path, c[3]), c)
                         /\ cells' = cells \ {c}
  BY DEF Take
<1>2. t \in Workers /\ MayTake(t) /\ program' = program /\ answer' = answer
  BY DEF Take
<1> DEFINE f    == stack[c[1]][c[2]]
           n    == f.layer + 1
           path == Append(f.path, c[3])
<1>3. IsProgram(program) /\ DOMAIN stack = Threads /\ AreStacks(stack) /\ Shape(program, stack, Told, cells)
  BY ProgramsAssumption DEF AsMeant
<1>4. PICK m, q : Awaited(program, stack, c, m, q)
  BY <1>3 DEF Shape, Unbegun
<1>5. /\ c \in Threads \X Nat \X (1 .. CELLS) /\ c[2] \in 1 .. Len(stack[c[1]])
      /\ KindOf(program, f) = "pool" /\ f.begun = CELLS /\ f.got[c[3]] = Nothing /\ m = n /\ q = path
  BY <1>4 DEF Awaited
<1>6. c[1] \in Threads /\ c[3] \in Nat /\ c # NoCell
  <2>1. c[1] \in Threads /\ c[3] \in 1 .. CELLS
    BY <1>5
  <2>2. c[3] \in Nat
    BY <2>1, PoolAssumption
  <2>3. c # NoCell
    BY <1>4, CellIsNoStack
  <2> QED
    BY <2>1, <2>2, <2>3
<1>7. f.layer \in 1 .. Innermost(program) /\ f.path \in Paths /\ Through(program, f.layer)
  BY <1>3, <1>5, <1>6 DEF Shape, Begun, Placed
<1>8. n \in 1 .. Innermost(program) /\ Through(program, n) /\ path \in Paths
  <2>1. LayerOf(program, f.layer) = "pool"
    BY <1>5 DEF KindOf
  <2> HIDE DEF f
  <2>2. n \in 1 .. Innermost(program) /\ Innermost(program) \in Nat
    BY <1>3, <1>7, <2>1, Kinds
  <2>3. f.layer \in Nat
    BY <1>7, <2>2
  <2>4. Through(program, n)
    BY <1>7, <2>1, <2>3, ThroughNext
  <2>5. path \in Paths
    BY <1>6, <1>7, PathsGrow
  <2> QED
    BY <2>2, <2>4, <2>5
<1>9. stack[t] # <<>> => KindOf(program, Top(t)) = "pool"
  BY <1>2 DEF MayTake, Waiting, On, Kind, Layer, KindOf
<1>10. told[t] = Nothing
  <2>1. CASE stack[t] = <<>>
    <3>1. Len(stack[t]) = 0
      BY <2>1
    <3>2. t \in Told => t \in Hosts
      BY <1>3, <3>1 DEF Shape, BusyRight
    <3>3. t \notin Hosts
      BY <1>2, PoolAssumption
    <3> QED
      BY <3>2, <3>3 DEF Told
  <2>2. CASE stack[t] # <<>>
    BY <1>9, <2>2, TopIs
  <2> QED
    BY <2>1, <2>2
<1>11. Len(stack[t]) # 0 => KindOf(program, stack[t][Len(stack[t])]) = "pool"
  BY <1>9 DEF Top
<1> HIDE DEF f, n, path
<1>12. Asked(program, stack, t, Len(stack[t]), n, path, c)
  BY <1>4, <1>5, <1>6, <1>11 DEF Asked
<1>13. KeptBy(program, stack[t], stops[t], NoStop) /\ t \notin Told
  BY <1>10, TopSilent DEF Told
<1>14. Enter(stack, t, n, path, c)
  BY <1>1 DEF f, n, path
<1> QED
  BY <1>1, <1>2, <1>3, <1>6, <1>8, <1>12, <1>13, <1>14, BeginKeeps

(* The answers of the cells handed out are collected: all fine, or the     *)
(* first refusal in index order.                                           *)
LEMMA CollectKeeps ==
  ASSUME AsMeant, StopsStayHome(program), NEW t \in Threads, Collect(t)
  PROVE  AsMeant'
<1> DEFINE f     == Top(t)
           got   == f.got
           bad   == {i \in 1 .. CELLS : got[i].is # "fine"}
           all   == [i \in 1 .. CELLS |-> got[i].value]
           v     == IF bad # {} THEN got[FirstOf(got, bad)] ELSE Fine(all)
           inner == Sequential(program)[f.layer + 1]
           A     == AlongCells(f.path, inner)
<1>1. /\ stack[t] # <<>> /\ KindOf(program, f) = "pool" /\ f.begun = CELLS
      /\ \A i \in 1 .. CELLS : got[i] # Nothing
      /\ Leave(t, v)
      /\ program' = program /\ cells' = cells /\ answer' = answer
  BY DEF Collect, Waiting, On, Kind, Layer, KindOf
<1>2. IsProgram(program) /\ CELLS \in Nat /\ CELLS # 0
  BY ProgramsAssumption, PoolAssumption DEF AsMeant
<1>3. /\ f.layer \in 1 .. Innermost(program) /\ f.path \in Paths /\ told[t] = Nothing
      /\ Came(program, f, f.begun)
  BY <1>1, TopIs
<1>4. KeptBy(program, stack[t], stops[t], NoStop)
  BY <1>3, TopSilent
<1> HIDE DEF f
<1>5. \A i \in 1 .. CELLS : got[i] \in {inner[Append(f.path, i)].said, Limit}
  BY <1>1, <1>2, <1>3 DEF Came, Tells, Says
<1>6. /\ Sequential(program)[f.layer][f.path] = A[CELLS]
      /\ \A k \in 0 .. CELLS : A[k].said.is # "fine" => A[CELLS] = A[k]
      /\ \A i \in 1 .. CELLS : A[i] = ThenCell(A[i - 1], inner[Append(f.path, i)])
  BY <1>1, <1>2, <1>3, LayerSays, CellsEnd, CellsAlong DEF KindOf
<1>7. CASE bad # {}
  <2>1. PICK m \in bad : m = FirstOf(got, bad) /\ \A j \in bad : m <= j
    <3>1. bad \subseteq Nat
      OBVIOUS
    <3> HIDE DEF bad
    <3>2. \E i \in bad : \A j \in bad : i <= j
      BY <1>7, <3>1, Least
    <3> QED
      BY <3>2 DEF FirstOf
  <2>2. v = got[m] /\ m \in 1 .. CELLS /\ v.is # "fine" /\ v # Nothing
    BY <1>1, <1>7, <2>1
  <2>3. ASSUME NEW i \in 1 .. m - 1
        PROVE  i \in 1 .. CELLS /\ got[i].is = "fine"
    <3> HIDE DEF bad, v
    <3>1. i \in 1 .. CELLS /\ ~(m <= i)
      BY <1>2, <2>2
    <3>2. i \notin bad
      BY <2>1, <3>1
    <3> QED
      BY <3>1, <3>2 DEF bad
  <2> HIDE DEF v, bad, got, inner, A
  <2>4. Tells(program, f.layer, f.path, v)
    <3>1. CASE v = Limit
      BY <3>1 DEF Tells
    <3>2. CASE v = inner[Append(f.path, m)].said
      <4>1. m - 1 \in 0 .. CELLS /\ m \in 0 .. CELLS
        BY <1>2, <2>2
      <4>2. \A i \in 1 .. m - 1 : got[i] = inner[Append(f.path, i)].said /\ got[i].is = "fine"
        BY <1>5, <2>3 DEF Limit, Bad
      <4>3. A[m - 1].said.is = "fine"
        <5>1. AllFine(f.path, inner, got, m - 1)
          BY <4>2 DEF AllFine
        <5>2. A[m - 1].said = Fine([i \in 1 .. m - 1 |-> got[i].value])
          BY <4>1, <5>1, Collected DEF A
        <5> QED
          BY <5>2 DEF Fine
      <4>4. A[m].said = v
        <5>1. A[m] = ThenCell(A[m - 1], inner[Append(f.path, m)])
          BY <1>6, <2>2
        <5> QED
          BY <2>2, <3>2, <4>3, <5>1 DEF ThenCell
      <4>5. A[CELLS].said = v
        BY <1>6, <2>2, <4>1, <4>4
      <4> QED
        BY <1>6, <4>5 DEF Tells, Says
    <3> QED
      BY <1>5, <2>2, <3>1, <3>2
  <2>5. Gives(program, f.layer, f.path, v, NoStop)
    BY <2>2, <2>4 DEF Gives
  <2>6. KindOf(program, f) = "pool" => \A i \in 1 .. CELLS : f.got[i] # Nothing
    BY <1>1 DEF got
  <2>7. NoStop \in Controls \cup {NoStop} /\ KindOf(program, f) # "cells"
    BY <1>1
  <2> QED
    BY <1>1, <1>4, <2>2, <2>5, <2>6, <2>7, LeaveKeeps DEF f
<1>8. CASE bad = {}
  <2>1. v = Fine(all) /\ \A i \in 1 .. CELLS : got[i].is = "fine"
    BY <1>8
  <2> HIDE DEF v, bad
  <2>2. \A i \in 1 .. CELLS : got[i] = inner[Append(f.path, i)].said /\ got[i].is = "fine"
    BY <1>5, <2>1 DEF Limit, Bad
  <2>3. A[CELLS].said = v
    <3>1. CELLS \in 0 .. CELLS
      BY <1>2
    <3> HIDE DEF got, inner
    <3>2. AllFine(f.path, inner, got, CELLS)
      BY <2>2 DEF AllFine
    <3>3. A[CELLS].said = Fine(all)
      BY <3>1, <3>2, Collected
    <3> HIDE DEF A, all
    <3> QED
      BY <2>1, <3>3
  <2>4. Says(program, f.layer, f.path) = v
    BY <1>6, <2>3 DEF Says
  <2>5. v.is = "fine" /\ v # Nothing
    BY <2>1 DEF Fine, Nothing
  <2>6. Leaves(program, f.layer, f.path) = NoStop
    <3>1. LayerOf(program, f.layer) = "pool"
      BY <1>1 DEF KindOf
    <3>2. Quiet(program, f.layer + 1)
      BY <1>2, <1>3, <3>1, QuietUnderPool
    <3>3. Quiet(program, f.layer)
      <4>1. \A j \in f.layer .. Innermost(program) :
              j # f.layer => /\ j \in f.layer + 1 .. Innermost(program)
                             /\ f.layer + 1 .. j - 1 \subseteq f.layer .. j - 1
        BY <1>2, <1>3, Kinds
      <4> QED
        BY <3>1, <3>2, <4>1 DEF Quiet
    <3> QED
      BY <1>2, <1>3, <2>4, <2>5, <3>3, LeavesIs
  <2>7. Gives(program, f.layer, f.path, v, NoStop)
    BY <2>4, <2>6 DEF Gives, Tells
  <2>8. KindOf(program, f) = "pool" => \A i \in 1 .. CELLS : f.got[i] # Nothing
    BY <1>1
  <2>9. NoStop \in Controls \cup {NoStop} /\ KindOf(program, f) # "cells"
    BY <1>1
  <2> QED
    BY <1>1, <1>4, <2>5, <2>7, <2>8, <2>9, LeaveKeeps DEF f
<1> QED
  BY <1>7, <1>8

(* Nothing has begun at first, and no fold is open. *)
LEMMA InitMeant ==
  ASSUME Init
  PROVE  AsMeant
<1>1. /\ program \in Programs /\ cells = {}
      /\ DOMAIN stack = Threads /\ DOMAIN stops = Threads /\ DOMAIN told = Threads /\ DOMAIN answer = Hosts
      /\ \A t \in Threads : stack[t] = <<>> /\ stops[t] = <<>> /\ told[t] = Nothing
      /\ \A h \in Hosts : answer[h] = Nothing
  BY DEF Init
<1>2. AreStacks(stack)
  <2> DEFINE none == {f \in {Fields} : FALSE}
  <2>1. <<>> \in Seq(none) /\ \A f \in none : DOMAIN f = Fields
    OBVIOUS
  <2> HIDE DEF none
  <2>3. IsStack(<<>>)
    BY <2>1 DEF IsStack
  <2> QED
    BY <1>1, <2>3 DEF AreStacks
<1>3. Shape(program, stack, Told, cells)
  <2>1. \A t \in Threads : Len(stack[t]) = 0 /\ 1 .. Len(stack[t]) = {}
    BY <1>1
  <2>2. Told = {}
    BY <1>1 DEF Told
  <2> QED
    BY <1>1, <2>1, <2>2 DEF Shape, Begun, Unbegun, BegunOnce, BusyRight
<1>4. \A t \in Threads : StopsRight(program, stack[t], stops[t], told[t])
  <2> DEFINE S == [d \in Nat |-> <<>>]
  <2>1. S \in [Nat -> Stops] /\ \A d \in Nat : S[d] = <<>>
    BY DEF Stops
  <2> HIDE DEF S
  <2>2. Len(<<>>) = 0
    OBVIOUS
  <2>3. Levels(program, <<>>, S)
    BY <2>1, <2>2 DEF Levels
  <2>4. KeptBy(program, <<>>, <<>>, NoStop)
    BY <2>1, <2>2, <2>3 DEF KeptBy, WithLeft
  <2> QED
    BY <1>1, <2>4, SilentRight
<1> QED
  BY <1>1, <1>2, <1>3, <1>4 DEF AsMeant

(* The second invariant holds throughout. *)
Meant == StopsStayHome(program) => AsMeant
LEMMA MeantAlways == Spec => []Meant
<1>1. Init => Meant
  BY InitMeant DEF Meant
<1>2. Meant /\ [Next]_vars => Meant'
  <2> SUFFICES ASSUME Meant, [Next]_vars, StopsStayHome(program') PROVE AsMeant'
    BY DEF Meant
  <2>1. CASE UNCHANGED vars
    <3>1. AsMeant
      BY <2>1 DEF Meant, vars
    <3>2. Told' = Told
      BY <2>1 DEF Told, vars
    <3> QED
      BY <2>1, <3>1, <3>2 DEF AsMeant, vars
  <2>2. ASSUME NEW t \in Threads, Step(t) PROVE AsMeant'
    <3>1. program' = program
      BY <2>2 DEF Step, Run, Finish, Apply, Inner, CellAnswered, StepAnswered, Stop, StopSaid,
                  HandOut, Take, Collect
    <3>2. StopsStayHome(program) /\ AsMeant
      BY <3>1 DEF Meant
    <3>3. CASE Run(t)
      BY <3>2, <3>3, RunKeeps
    <3>4. CASE Finish(t)
      BY <3>2, <3>4, FinishKeeps
    <3>5. CASE Apply(t)
      BY <3>2, <3>5, ApplyKeeps
    <3>6. CASE Inner(t, "fold", STEPS)
      BY <3>2, <3>6, InnerKeeps
    <3>7. CASE Inner(t, "cells", CELLS)
      BY <3>2, <3>7, InnerKeeps
    <3>8. CASE CellAnswered(t)
      BY <3>2, <3>8, CellAnsweredKeeps
    <3>9. CASE StepAnswered(t)
      BY <3>2, <3>9, StepAnsweredKeeps
    <3>10. CASE Stop(t)
      BY <3>2, <3>10, StopKeeps
    <3>11. CASE StopSaid(t)
      BY <3>2, <3>11, StopSaidKeeps
    <3>12. CASE HandOut(t)
      BY <3>2, <3>12, HandOutKeeps
    <3>13. CASE Take(t)
      BY <3>2, <3>13, TakeKeeps
    <3>14. CASE Collect(t)
      BY <3>2, <3>14, CollectKeeps
    <3> QED
      BY <2>2, <3>3, <3>4, <3>5, <3>6, <3>7, <3>8, <3>9, <3>10, <3>11, <3>12, <3>13, <3>14 DEF Step
  <2> QED
    BY <2>1, <2>2 DEF Next
<1> QED
  BY <1>1, <1>2, PTL DEF Spec

(* Whatever number of threads steal whatever cells in whatever order,      *)
(* every program whose stops stay home comes to what it comes to on one    *)
(* thread, or to the nesting limit (map_indexed of par.rs: "Every          *)
(* primitive in here produces exactly what the sequential code would",     *)
(* "the first failing cell in index order supplies the error").  AsMeant   *)
(* is what holds throughout.                                               *)
THEOREM SameAsSequentialAlways == Spec => []SameAsSequential
<1>1. Meant => SameAsSequential
  BY DEF Meant, AsMeant, SameAsSequential, Tells, Says, Limit
<1> QED
  BY <1>1, MeantAlways, PTL

-----------------------------------------------------------------------------
(* How deep a layer stands, and what piles up. *)

(* The greatest of some numbers, none of them more than n. *)
LEMMA MaxIs ==
  ASSUME NEW n \in Nat, NEW S, S \subseteq 0 .. n, S # {}
  PROVE  Max(S) \in S /\ \A y \in S : y <= Max(S)
<1> DEFINE R == {n - x : x \in S}
<1>1. R \subseteq Nat /\ R # {}
  <2>1. \A x \in S : n - x \in Nat
    OBVIOUS
  <2> QED
    BY <2>1
<1>2. PICK r \in R : \A q \in R : r <= q
  <2> HIDE DEF R
  <2> QED
    BY <1>1, Least
<1>3. PICK x \in S : r = n - x
  BY <1>2
<1>4. \A y \in S : x >= y
  <2> SUFFICES ASSUME NEW y \in S PROVE x >= y
    OBVIOUS
  <2>1. r <= n - y
    BY <1>2
  <2>2. x \in 0 .. n /\ y \in 0 .. n
    OBVIOUS
  <2> HIDE DEF R
  <2> QED
    BY <1>3, <2>1, <2>2
<1>5. Max(S) \in S /\ \A y \in S : Max(S) >= y
  BY <1>4 DEF Max
<1>6. \A y \in S : y \in 0 .. n
  OBVIOUS
<1> QED
  BY <1>5, <1>6

(* How far down its stretch a layer stands, layer by layer. *)
LEMMA DeepIs ==
  ASSUME NEW p, IsProgram(p), NEW n \in 1 .. Innermost(p)
  PROVE  /\ Deep(p, n) \in 1 .. n
         /\ n = 1 => Deep(p, n) = 1
         /\ n + 1 \in 1 .. Innermost(p) =>
              Deep(p, n + 1) = IF LayerOf(p, n) = "pool" THEN 1 ELSE Deep(p, n) + 1
<1> DEFINE Above(m) == {0} \cup {i \in Splits(p) : i < m}
<1>1. Innermost(p) \in Nat /\ Splits(p) \subseteq 1 .. Innermost(p)
  <2>1. Innermost(p) \in Nat /\ Innermost(p) = Len(p.layers) + 1 /\ Len(p.layers) \in Nat
    BY DEF IsProgram, Innermost
  <2> QED
    BY <2>1 DEF Splits
<1>2. ASSUME NEW m \in 1 .. Innermost(p)
      PROVE  /\ Max(Above(m)) \in Above(m) /\ \A y \in Above(m) : y <= Max(Above(m))
             /\ Max(Above(m)) \in 0 .. m - 1
  <2>1. Above(m) \subseteq 0 .. m - 1 /\ Above(m) # {} /\ m - 1 \in Nat
    BY <1>1
  <2> HIDE DEF Above
  <2> QED
    BY <2>1, MaxIs
<1>3. \A m : Deep(p, m) = m - Max(Above(m))
  BY DEF Deep
<1>4. n \in Splits(p) <=> LayerOf(p, n) = "pool"
  <2>1. Len(p.layers) \in Nat /\ Innermost(p) = Len(p.layers) + 1
    BY DEF IsProgram, Innermost
  <2> QED
    BY <2>1 DEF Splits, LayerOf
<1>5. ASSUME n + 1 \in 1 .. Innermost(p)
      PROVE  Deep(p, n + 1) = IF LayerOf(p, n) = "pool" THEN 1 ELSE Deep(p, n) + 1
  <2> DEFINE a == Max(Above(n))
             b == Max(Above(n + 1))
  <2>1. a \in Above(n) /\ (\A y \in Above(n) : y <= a) /\ a \in 0 .. n - 1
    BY <1>2
  <2>2. b \in Above(n + 1) /\ (\A y \in Above(n + 1) : y <= b) /\ b \in 0 .. n
    <3>1. (n + 1) - 1 = n
      BY <1>1
    <3> HIDE DEF Above
    <3> QED
      BY <1>2, <1>5, <3>1
  <2>3. Deep(p, n) = n - a /\ Deep(p, n + 1) = (n + 1) - b
    BY <1>3
  <2> HIDE DEF a, b
  <2>4. CASE LayerOf(p, n) = "pool"
    <3>1. n \in Above(n + 1)
      BY <1>1, <1>4, <2>4
    <3> HIDE DEF Above
    <3>2. b = n
      BY <1>1, <2>2, <3>1
    <3> QED
      BY <1>1, <2>3, <2>4, <3>2
  <2>5. CASE LayerOf(p, n) # "pool"
    <3>1. Above(n + 1) = Above(n)
      <4>1. \A i \in Splits(p) : i < n + 1 <=> i < n
        BY <1>1, <1>4, <2>5
      <4> QED
        BY <4>1
    <3> HIDE DEF Above
    <3>2. b = a
      BY <1>1, <2>1, <2>2, <3>1
    <3> QED
      BY <1>1, <2>1, <2>3, <2>5, <3>2
  <2> QED
    BY <2>4, <2>5
<1>6. Deep(p, n) \in 1 .. n
  <2> DEFINE a == Max(Above(n))
  <2>1. a \in 0 .. n - 1 /\ Deep(p, n) = n - a
    BY <1>2, <1>3
  <2> HIDE DEF a
  <2> QED
    BY <1>1, <2>1
<1> QED
  BY <1>5, <1>6

(* Split once or never, no stretch is deeper than what piles up. *)
LEMMA PiledIs ==
  ASSUME NEW p, IsProgram(p), Cardinality(Splits(p)) < 2
  PROVE  /\ Piled(p) \in Int
         /\ \A a, b \in Splits(p) : a = b
         /\ \A n \in 1 .. Innermost(p) : Deep(p, n) <= Piled(p)
<1>1. Innermost(p) \in Nat /\ Splits(p) \subseteq 1 .. Innermost(p) /\ Innermost(p) \notin Splits(p)
  <2>1. Innermost(p) \in Nat /\ Innermost(p) = Len(p.layers) + 1 /\ Len(p.layers) \in Nat
    BY DEF IsProgram, Innermost
  <2> QED
    BY <2>1 DEF Splits
<1>2. IsFiniteSet(Splits(p))
  <2>1. 1 \in Int /\ Innermost(p) \in Int
    BY <1>1
  <2>2. IsFiniteSet(1 .. Innermost(p))
    BY <2>1, FS_Interval
  <2> QED
    BY <1>1, <2>2, FS_Subset
<1>3. ASSUME NEW a \in Splits(p), NEW b \in Splits(p)
      PROVE  a = b
  <2> SUFFICES ASSUME a # b PROVE FALSE
    OBVIOUS
  <2>1. IsFiniteSet({a}) /\ Cardinality({a}) = 1
    BY FS_Singleton
  <2>2. Cardinality({a} \cup {b}) = 2
    BY <2>1, FS_AddElement
  <2>3. {a} \cup {b} \in SUBSET Splits(p)
    BY <1>3
  <2>4. Cardinality({a} \cup {b}) <= Cardinality(Splits(p)) /\ Cardinality(Splits(p)) \in Nat
    BY <1>2, <2>3, FS_Subset, FS_CardinalityType
  <2> QED
    BY <2>2, <2>4
<1>4. CASE Splits(p) = {}
  <2>1. Piled(p) = Innermost(p)
    BY <1>4 DEF Piled
  <2>2. \A n \in 1 .. Innermost(p) : Deep(p, n) \in 1 .. n
    BY DeepIs
  <2> QED
    BY <1>1, <1>3, <2>1, <2>2
<1>5. CASE Splits(p) # {}
  <2>1. PICK s \in Splits(p) : Splits(p) = {s}
    BY <1>3, <1>5
  <2> DEFINE op(n) == AtATime(p, n) * Deep(p, n)
             waits == MapThenSumSet(op, {})
  <2>2. Min(Splits(p)) = s
    BY <1>1, <2>1 DEF Min
  <2>3. Piled(p) = Max({s, waits + Deep(p, Innermost(p))})
    <3>1. {s} \ {s} = {}
      OBVIOUS
    <3> QED
      BY <1>5, <2>1, <2>2, <3>1 DEF Piled
  <2>4. waits = 0
    BY DEF MapThenSumSet, MapThenFoldSet
  <2> HIDE DEF waits
  <2>5. ASSUME NEW n \in 1 .. Innermost(p)
        PROVE  Deep(p, n) = IF n <= s THEN n ELSE n - s
    <3>1. s \in 1 .. Innermost(p)
      BY <1>1
    <3>2. CASE n <= s
      <4>1. {0} \cup {i \in Splits(p) : i < n} = {0}
        BY <1>1, <2>1, <3>1, <3>2
      <4>2. Max({0}) = 0
        BY DEF Max
      <4> QED
        BY <3>2, <4>1, <4>2 DEF Deep
    <3>3. CASE ~(n <= s)
      <4>1. {0} \cup {i \in Splits(p) : i < n} = {0, s}
        BY <1>1, <2>1, <3>1, <3>3
      <4>2. Max({0, s}) = s
        BY <3>1 DEF Max
      <4> QED
        BY <3>3, <4>1, <4>2 DEF Deep
    <3> QED
      BY <3>2, <3>3
  <2>6. s \in 1 .. Innermost(p) /\ s < Innermost(p)
    BY <1>1
  <2>7. Deep(p, Innermost(p)) = Innermost(p) - s
    BY <1>1, <2>5, <2>6
  <2>8. Piled(p) \in Int /\ s <= Piled(p) /\ Innermost(p) - s <= Piled(p)
    <3> DEFINE S == {s, Innermost(p) - s}
               m == Max(S)
    <3>1. S \subseteq 0 .. Innermost(p) /\ S # {}
      BY <1>1, <2>6
    <3>2. waits + Deep(p, Innermost(p)) = Innermost(p) - s
      BY <1>1, <2>4, <2>6, <2>7
    <3>3. Piled(p) = m /\ s \in S /\ Innermost(p) - s \in S
      BY <2>3, <3>2
    <3>4. \A y \in S : y \in Int
      BY <1>1, <2>6
    <3> HIDE DEF S
    <3>5. m \in S /\ \A y \in S : y <= m
      BY <1>1, <3>1, MaxIs
    <3> HIDE DEF m
    <3> QED
      BY <3>3, <3>4, <3>5
  <2> QED
    BY <1>1, <1>3, <2>5, <2>6, <2>8
<1> QED
  BY <1>4, <1>5

-----------------------------------------------------------------------------
(* What the stacks say of a layer on them. *)

(* What is under an application of layer n at depth d of t: nothing, for   *)
(* the program itself; the layer around it; or, for a cell handed to the   *)
(* pool, one more layer that waits, the layer around it being elsewhere.   *)
Outermost(t, d, n) == n = 1 /\ d = 1 /\ t \in Hosts
Within(t, d, n) ==
  /\ d > 1 /\ n > 1 /\ LayerOf(program, n - 1) # "pool"
  /\ stack[t][d - 1].layer = n - 1
FromPool(t, d, n) ==
  /\ n > 1 /\ LayerOf(program, n - 1) = "pool" /\ stack[t][d].cell # NoCell
  /\ \E u \in Threads : \E e \in 1 .. Len(stack[u]) : stack[u][e].layer = n - 1
  /\ d > 1 => LayerOf(program, stack[t][d - 1].layer) = "pool"

LEMMA UnderIs ==
  ASSUME AsMeant, NEW t \in Threads, NEW d \in 1 .. Len(stack[t]), NEW n, n = stack[t][d].layer
  PROVE  /\ n \in 1 .. Innermost(program) /\ n \in Nat /\ Len(stack[t]) \in Nat
         /\ Outermost(t, d, n) \/ Within(t, d, n) \/ FromPool(t, d, n)
<1>1. /\ IsStack(stack[t]) /\ Shape(program, stack, Told, cells) /\ AreStacks(stack)
      /\ IsProgram(program)
  BY ProgramsAssumption DEF AsMeant, AreStacks
<1>2. Len(stack[t]) \in Nat
  BY <1>1, StackLength
<1>3. Placed(program, stack, t, d)
  BY <1>1 DEF Shape, Begun
<1> DEFINE c == stack[t][d].cell
           q == stack[t][d].path
<1>4. n \in 1 .. Innermost(program) /\ Asked(program, stack, t, d - 1, n, q, c)
  BY <1>3 DEF Placed
<1>5. n \in Nat
  <2>1. Innermost(program) \in Nat
    BY <1>1, <1>4, Kinds
  <2> QED
    BY <1>4, <2>1
<1>6. CASE c = NoCell
  <2>1. Asks(program, stack[t], d - 1, n, q) /\ (d - 1 = 0 => t \in Hosts)
    BY <1>4, <1>6 DEF Asked
  <2>2. CASE d = 1
    BY <2>1, <2>2, <1>4, <1>5 DEF Asks, Outermost
  <2>3. CASE d # 1
    <3>1. d - 1 # 0 /\ d > 1 /\ d - 1 \in 1 .. Len(stack[t])
      BY <1>2, <2>3
    <3>2. KindOf(program, stack[t][d - 1]) # "pool" /\ n = stack[t][d - 1].layer + 1
      BY <2>1, <3>1 DEF Asks
    <3>3. stack[t][d - 1].layer \in 1 .. Innermost(program)
      BY <1>1, <3>1 DEF Shape, Begun, Placed
    <3>4. stack[t][d - 1].layer \in Nat \ {0}
      <4>1. Innermost(program) \in Nat
        BY <1>1, <1>4, Kinds
      <4> QED
        BY <3>3, <4>1
    <3>5. n > 1 /\ stack[t][d - 1].layer = n - 1
      BY <3>2, <3>4
    <3> QED
      BY <1>2, <1>4, <1>5, <3>1, <3>2, <3>5 DEF Within, KindOf
  <2> QED
    BY <2>2, <2>3
<1>7. CASE c # NoCell
  <2>1. /\ Awaited(program, stack, c, n, q)
        /\ d - 1 # 0 => KindOf(program, stack[t][d - 1]) = "pool"
    BY <1>4, <1>7 DEF Asked
  <2>2. c[1] \in Threads /\ c[2] \in 1 .. Len(stack[c[1]]) /\ n = stack[c[1]][c[2]].layer + 1
    BY <2>1 DEF Awaited
  <2>3. KindOf(program, stack[c[1]][c[2]]) = "pool"
    BY <2>1 DEF Awaited
  <2>4. stack[c[1]][c[2]].layer \in 1 .. Innermost(program)
    BY <1>1, <2>2 DEF Shape, Begun, Placed
  <2>6. n > 1 /\ stack[c[1]][c[2]].layer = n - 1
    <3> DEFINE m == stack[c[1]][c[2]].layer
    <3>1. Innermost(program) \in Nat
      BY <1>1, <1>4, Kinds
    <3>2. m \in 1 .. Innermost(program) /\ n = m + 1
      BY <2>2, <2>4
    <3> HIDE DEF m
    <3>3. n > 1 /\ m = n - 1
      BY <3>1, <3>2
    <3> QED
      BY <3>3 DEF m
  <2>7. d > 1 => d - 1 # 0
    BY <1>2
  <2>8. LayerOf(program, n - 1) = "pool"
    BY <2>3, <2>6 DEF KindOf
  <2>9. \E u \in Threads : \E e \in 1 .. Len(stack[u]) : stack[u][e].layer = n - 1
    BY <2>2, <2>6
  <2>10. d > 1 => LayerOf(program, stack[t][d - 1].layer) = "pool"
    BY <2>1, <2>7 DEF KindOf
  <2> QED
    BY <1>2, <1>4, <1>5, <1>7, <2>6, <2>8, <2>9, <2>10 DEF FromPool
<1> QED
  BY <1>6, <1>7

(* The layers of a stretch stand on one stack, one on the other.           *)
Stands(s, d) ==
  LET n == s[d].layer IN
  /\ Deep(program, n) <= d
  /\ \A i \in 0 .. Deep(program, n) - 1 : s[d - i].layer = n - i

LEMMA StretchStands ==
  ASSUME AsMeant, NEW t \in Threads
  PROVE  \A d \in 1 .. Len(stack[t]) : Stands(stack[t], d)
<1> DEFINE s == stack[t]
           S == {d \in Nat : d \in 1 .. Len(s) => Stands(s, d)}
<1>1. IsProgram(program) /\ Len(s) \in Nat
  BY ProgramsAssumption, StackLength DEF AsMeant, AreStacks
<1>2. 0 \in S
  BY <1>1
<1>3. ASSUME NEW d \in Nat, d \in S
      PROVE  d + 1 \in S
  <2> SUFFICES ASSUME d + 1 \in 1 .. Len(s) PROVE Stands(s, d + 1)
    OBVIOUS
  <2> DEFINE n == s[d + 1].layer
             k == Deep(program, n)
  <2>1. /\ n \in 1 .. Innermost(program) /\ n \in Nat
        /\ Outermost(t, d + 1, n) \/ Within(t, d + 1, n) \/ FromPool(t, d + 1, n)
    BY UnderIs
  <2>2. k \in 1 .. n /\ (n = 1 => k = 1)
    BY <1>1, <2>1, DeepIs
  <2>3. n > 1 => n - 1 \in 1 .. Innermost(program)
    <3>1. Innermost(program) \in Nat
      BY <1>1, <2>1, Kinds
    <3> HIDE DEF n
    <3> QED
      BY <2>1, <3>1
  <2>4. n > 1 => k = IF LayerOf(program, n - 1) = "pool" THEN 1 ELSE Deep(program, n - 1) + 1
    <3> SUFFICES ASSUME n > 1 PROVE k = IF LayerOf(program, n - 1) = "pool" THEN 1 ELSE Deep(program, n - 1) + 1
      OBVIOUS
    <3>1. (n - 1) + 1 = n
      BY <2>1
    <3> HIDE DEF n
    <3> QED
      BY <1>1, <2>1, <2>3, <3>1, DeepIs
  <2>5. ASSUME k = 1
        PROVE  Stands(s, d + 1)
    <3>1. 1 <= d + 1 /\ \A i \in 0 .. 0 : (d + 1) - i = d + 1 /\ n - i = n
      BY <2>1
    <3> QED
      BY <2>5, <3>1 DEF Stands
  <2>6. CASE Outermost(t, d + 1, n) \/ FromPool(t, d + 1, n)
    BY <2>2, <2>4, <2>5, <2>6 DEF Outermost, FromPool
  <2>7. CASE Within(t, d + 1, n)
    <3>1. d \in 1 .. Len(s) /\ n > 1 /\ s[d].layer = n - 1 /\ LayerOf(program, n - 1) # "pool"
      <4>1. (d + 1) - 1 = d
        OBVIOUS
      <4> QED
        BY <1>1, <2>7, <4>1 DEF Within
    <3>2. Stands(s, d)
      BY <1>3, <3>1
    <3> DEFINE j == Deep(program, n - 1)
    <3>3. k = j + 1 /\ j \in 1 .. n - 1
      BY <1>1, <2>3, <2>4, <3>1, DeepIs
    <3>4. j <= d /\ \A i \in 0 .. j - 1 : s[d - i].layer = (n - 1) - i
      BY <3>1, <3>2 DEF Stands
    <3>5. ASSUME NEW i \in 0 .. k - 1
          PROVE  s[(d + 1) - i].layer = n - i
      <4>1. CASE i = 0
        <5>1. (d + 1) - i = d + 1 /\ n - i = n
          BY <2>1, <4>1
        <5> QED
          BY <5>1
      <4>2. CASE i # 0
        <5> HIDE DEF n, k, j
        <5>1. i - 1 \in 0 .. j - 1 /\ d - (i - 1) = (d + 1) - i /\ (n - 1) - (i - 1) = n - i
          BY <2>1, <3>3, <4>2
        <5> QED
          BY <3>4, <5>1
      <4> QED
        BY <4>1, <4>2
    <3>6. k <= d + 1
      <4> HIDE DEF k, j, n
      <4> QED
        BY <2>1, <3>3, <3>4
    <3> QED
      BY <3>5, <3>6 DEF Stands
  <2> QED
    BY <2>1, <2>6, <2>7
<1> HIDE DEF S
<1>4. \A d \in 0 .. Len(s) : d \in S
  BY <1>1, <1>2, <1>3, Climb
<1>5. \A d \in 1 .. Len(s) : d \in S
  BY <1>1, <1>4
<1> QED
  BY <1>5 DEF S

(* Nothing at or under a layer too deep is ever begun. *)
LEMMA NoneSoDeep ==
  ASSUME AsMeant, Counts, NEW m \in 1 .. Innermost(program), Deep(program, m) > MAX_NESTING,
         NEW t \in Threads, NEW d \in 1 .. Len(stack[t])
  PROVE  stack[t][d].layer < m
<1> DEFINE Has(n) == \E u \in Threads : \E e \in 1 .. Len(stack[u]) : stack[u][e].layer = n
           S == {n \in Nat : n >= m /\ Has(n)}
<1>0. IsProgram(program) /\ m \in Nat /\ m # 0 /\ Deep(program, m) \in Nat
  <2>1. IsProgram(program)
    BY ProgramsAssumption DEF AsMeant
  <2>2. Innermost(program) \in Nat /\ Deep(program, m) \in 1 .. m
    BY <2>1, Kinds, DeepIs
  <2> QED
    BY <2>1, <2>2
<1>1. S = {}
  <2> SUFFICES ASSUME S # {} PROVE FALSE
    OBVIOUS
  <2>1. PICK n \in S : \A k \in S : n <= k
    <3>1. S \subseteq Nat
      OBVIOUS
    <3> HIDE DEF S
    <3> QED
      BY <3>1, Least
  <2>2. PICK u \in Threads : \E e \in 1 .. Len(stack[u]) : stack[u][e].layer = n
    BY <2>1
  <2>3. PICK e \in 1 .. Len(stack[u]) : stack[u][e].layer = n
    BY <2>2
  <2>4. n \in Nat /\ n >= m
    BY <2>1
  <2>5. CASE n = m
    <3>1. Deep(program, m) <= e
      BY <2>3, <2>5, StretchStands DEF Stands
    <3>2. nesting[u] = Len(stack[u]) /\ nesting[u] <= MAX_NESTING /\ Len(stack[u]) \in Nat
      BY StackLength DEF Counts, Right
    <3>3. MAX_NESTING \in Nat
      BY PoolAssumption
    <3>4. e \in Nat /\ e <= Len(stack[u])
      BY <3>2
    <3> QED
      BY <1>0, <3>1, <3>2, <3>3, <3>4
  <2>6. CASE n # m
    <3>1. n > m /\ n - 1 \in Nat /\ n - 1 >= m /\ n > 1 /\ ~(n <= n - 1)
      <4>1. m \in Nat /\ m # 0
        BY <1>0
      <4> HIDE DEF S, Has
      <4> QED
        BY <2>4, <2>6, <4>1
    <3>2. Outermost(u, e, n) \/ Within(u, e, n) \/ FromPool(u, e, n)
      BY <2>3, UnderIs
    <3>3. Has(n - 1)
      <4>1. CASE Within(u, e, n)
        <5> DEFINE l == Len(stack[u])
        <5>1. l \in Nat /\ e \in 1 .. l /\ e > 1
          BY <2>3, <4>1, UnderIs DEF Within
        <5>2. e - 1 \in 1 .. l
          <6> HIDE DEF l
          <6> QED
            BY <5>1
        <5> QED
          BY <4>1, <5>2 DEF Within
      <4> QED
        BY <3>1, <3>2, <4>1 DEF Outermost, FromPool
    <3>4. n - 1 \in S
      BY <3>1, <3>3
    <3> HIDE DEF S
    <3> QED
      BY <2>1, <3>1, <3>4
  <2> QED
    BY <2>5, <2>6
<1>2. stack[t][d].layer \in Nat
  BY UnderIs
<1>3. ~(stack[t][d].layer >= m)
  BY <1>1, <1>2
<1> QED
  BY <1>0, <1>2, <1>3

(* Where a program is split once or never, a thread has on its stack one   *)
(* stretch, and a worker's is under the split.                             *)
LEMMA OneStretch ==
  ASSUME AsMeant, Counts, Cardinality(Splits(program)) < 2, NEW t \in Threads
  PROVE  \A d \in 1 .. Len(stack[t]) :
           /\ Deep(program, stack[t][d].layer) = d
           /\ t \in Workers => LayerOf(program, stack[t][d].layer) # "pool"
<1> DEFINE s == stack[t]
           Below(n) == t \in Workers => \E i \in Splits(program) : i < n
           S == {d \in Nat : d \in 1 .. Len(s) => Deep(program, s[d].layer) = d /\ Below(s[d].layer)}
<1>1. IsProgram(program) /\ Len(s) \in Nat
  BY ProgramsAssumption, StackLength DEF AsMeant, AreStacks
<1>2. 0 \in S
  BY <1>1
<1>3. \A a, b \in Splits(program) : a = b
  BY <1>1, PiledIs
<1>4. ASSUME NEW n \in 1 .. Innermost(program)
      PROVE  LayerOf(program, n) = "pool" => n \in Splits(program) /\ n \in Nat
  <2>1. Len(program.layers) \in Nat /\ Innermost(program) = Len(program.layers) + 1
    BY <1>1 DEF IsProgram, Innermost
  <2> QED
    BY <2>1 DEF Splits, LayerOf
<1>5. ASSUME NEW d \in 1 .. Len(s), Below(s[d].layer), t \in Workers
      PROVE  LayerOf(program, s[d].layer) # "pool"
  <2> SUFFICES ASSUME LayerOf(program, s[d].layer) = "pool" PROVE FALSE
    OBVIOUS
  <2>1. s[d].layer \in 1 .. Innermost(program) /\ s[d].layer \in Nat
    BY UnderIs
  <2>2. s[d].layer \in Splits(program)
    BY <1>4, <2>1
  <2>3. PICK i \in Splits(program) : i < s[d].layer
    BY <1>5
  <2>4. i = s[d].layer
    BY <1>3, <2>2
  <2> QED
    BY <2>1, <2>3, <2>4
<1>6. ASSUME NEW d \in Nat, d \in S
      PROVE  d + 1 \in S
  <2> SUFFICES ASSUME d + 1 \in 1 .. Len(s) 
               PROVE  Deep(program, s[d + 1].layer) = d + 1 /\ Below(s[d + 1].layer)
    OBVIOUS
  <2> DEFINE n == s[d + 1].layer
  <2>1. /\ n \in 1 .. Innermost(program) /\ n \in Nat
        /\ Outermost(t, d + 1, n) \/ Within(t, d + 1, n) \/ FromPool(t, d + 1, n)
    BY UnderIs
  <2>2. n = 1 => Deep(program, n) = 1
    BY <1>1, <2>1, DeepIs
  <2>3. n > 1 => n - 1 \in 1 .. Innermost(program)
    <3>1. Innermost(program) \in Nat
      BY <1>1, <2>1, Kinds
    <3> HIDE DEF n
    <3> QED
      BY <2>1, <3>1
  <2>4. n > 1 => Deep(program, n) = IF LayerOf(program, n - 1) = "pool" THEN 1 ELSE Deep(program, n - 1) + 1
    <3> SUFFICES ASSUME n > 1
                 PROVE  Deep(program, n) = IF LayerOf(program, n - 1) = "pool" THEN 1 ELSE Deep(program, n - 1) + 1
      OBVIOUS
    <3>1. (n - 1) + 1 = n
      BY <2>1
    <3> HIDE DEF n
    <3> QED
      BY <1>1, <2>1, <2>3, <3>1, DeepIs
  <2>5. CASE Outermost(t, d + 1, n)
    BY <2>2, <2>5, PoolAssumption DEF Outermost
  <2>6. CASE Within(t, d + 1, n)
    <3>1. d \in 1 .. Len(s) /\ n > 1 /\ s[d].layer = n - 1 /\ LayerOf(program, n - 1) # "pool"
      <4>1. (d + 1) - 1 = d
        OBVIOUS
      <4> QED
        BY <1>1, <2>6, <4>1 DEF Within
    <3>2. Deep(program, n - 1) = d /\ Below(n - 1)
      BY <1>6, <3>1
    <3>3. \A i \in Splits(program) : i < n - 1 => i < n
      <4>1. \A i \in Splits(program) : i \in Int
        BY DEF Splits
      <4> HIDE DEF n
      <4> QED
        BY <2>1, <4>1
    <3> QED
      BY <2>4, <3>1, <3>2, <3>3
  <2>7. CASE FromPool(t, d + 1, n)
    <3>1. n > 1 /\ LayerOf(program, n - 1) = "pool" /\ s[d + 1].cell # NoCell
      BY <2>7 DEF FromPool
    <3>2. t \in Workers
      BY <3>1 DEF Counts, Right, TakenBy
    <3>3. n - 1 \in Splits(program) /\ n - 1 < n
      BY <1>4, <2>1, <2>3, <3>1
    <3>4. d = 0
      <4> SUFFICES ASSUME d # 0 PROVE FALSE
        OBVIOUS
      <4>1. d \in 1 .. Len(s) /\ d + 1 > 1 /\ (d + 1) - 1 = d
        BY <1>1
      <4>2. LayerOf(program, s[d].layer) = "pool"
        BY <2>7, <4>1 DEF FromPool
      <4>3. Below(s[d].layer)
        BY <1>6, <4>1
      <4> QED
        BY <1>5, <3>2, <4>1, <4>2, <4>3
    <3>5. Deep(program, n) = d + 1
      BY <2>4, <3>1, <3>4
    <3> QED
      BY <3>3, <3>5
  <2> QED
    BY <2>1, <2>5, <2>6, <2>7
<1> HIDE DEF S
<1>7. \A d \in 0 .. Len(s) : d \in S
  BY <1>1, <1>2, <1>6, Climb
<1>8. \A d \in 1 .. Len(s) : d \in S
  BY <1>1, <1>7
<1>9. \A d \in 1 .. Len(s) : Deep(program, s[d].layer) = d /\ Below(s[d].layer)
  BY <1>8 DEF S
<1> QED
  BY <1>5, <1>9

-----------------------------------------------------------------------------
(* The nesting limit, told or not. *)

(* What is told is the limit wherever it is anything, if b; else it is     *)
(* never the limit.                                                        *)
Admits(b, v)  == v = Nothing \/ (b /\ v.is = "limit") \/ (~b /\ v.is # "limit")
Gots(b, p, f) == KindOf(p, f) = "pool" => \A i \in DOMAIN f.got : Admits(b, f.got[i])
GotsOn(b, p, s)  == \A d \in 1 .. Len(s) : Gots(b, p, s[d])
GotsIn(b, p, st) == \A u \in Threads : GotsOn(b, p, st[u])
Hears(b, v)   == \A u \in DOMAIN v : Admits(b, v[u])
Admitted(b)   == GotsIn(b, program, stack) /\ Hears(b, told) /\ Hears(b, answer)

(* An application more, one fewer and one replaced. *)
LEMMA PushGots ==
  ASSUME NEW b, NEW p, NEW s, IsStack(s), GotsOn(b, p, s), NEW n, NEW path, NEW cell
  PROVE  GotsOn(b, p, Append(s, Application(n, path, cell)))
<1> DEFINE f == Application(n, path, cell)
           r == Append(s, f)
<1>1. DOMAIN f = Fields /\ f.got = <<>>
  BY DEF Application, Fields
<1>2. Gots(b, p, f)
  BY <1>1 DEF Gots
<1> HIDE DEF f
<1>3. Pushes(s, f, r) /\ Len(s) \in Nat
  BY <1>1, PushIs, StackLength
<1> HIDE DEF r
<1>4. \A d \in 1 .. Len(r) : d = Len(r) \/ d \in 1 .. Len(s)
  BY <1>3 DEF Pushes
<1>5. GotsOn(b, p, r)
  BY <1>2, <1>3, <1>4 DEF GotsOn, Pushes
<1> QED
  BY <1>5 DEF r, f

LEMMA PopGots ==
  ASSUME NEW b, NEW p, NEW s, IsStack(s), s # <<>>, GotsOn(b, p, s)
  PROVE  GotsOn(b, p, Front(s))
<1>1. Pops(s, Front(s)) /\ Len(s) \in Nat
  BY PopIs, StackLength
<1>2. \A d \in 1 .. Len(Front(s)) : d \in 1 .. Len(s)
  BY <1>1 DEF Pops
<1> QED
  BY <1>1, <1>2 DEF GotsOn, Pops

LEMMA PutGots ==
  ASSUME NEW b, NEW p, NEW s, GotsOn(b, p, s), NEW k, NEW f, Gots(b, p, f),
         NEW r, Puts(s, k, f, r)
  PROVE  GotsOn(b, p, r)
<1>1. \A d \in 1 .. Len(r) : r[d] = f \/ r[d] = s[d]
  BY DEF Puts
<1>2. Len(r) = Len(s)
  BY DEF Puts
<1> QED
  BY <1>1, <1>2 DEF GotsOn

(* An answer that may be told may be told anywhere. *)
LEMMA AnsweringAdmits ==
  ASSUME NEW b, NEW p, NEW st, DOMAIN st = Threads, AreStacks(st), GotsIn(b, p, st), Hears(b, told),
         NEW t, NEW v, Admits(b, v), NEW cell, Answering(st, t, v, cell)
  PROVE  GotsIn(b, p, stack') /\ Hears(b, told')
<1>1. CASE cell = NoCell
  <2>1. stack' = st /\ told' = [told EXCEPT ![t] = v]
    BY <1>1 DEF Answering
  <2>2. Hears(b, told')
    BY <2>1 DEF Hears
  <2> QED
    BY <2>1, <2>2
<1>2. CASE cell # NoCell
  <2> DEFINE s == st[cell[1]]
             k == cell[2]
             f == [s[k] EXCEPT !.got[cell[3]] = v]
             r == [s EXCEPT ![k] = f]
  <2>1. stack' = [st EXCEPT ![cell[1]] = r] /\ told' = [told EXCEPT ![t] = Nothing]
    BY <1>2 DEF Answering
  <2>2. Hears(b, told')
    BY <2>1 DEF Hears, Admits
  <2>3. cell[1] \in Threads => GotsOn(b, p, r)
    <3> SUFFICES ASSUME cell[1] \in Threads PROVE GotsOn(b, p, r)
      OBVIOUS
    <3>1. IsStack(s) /\ GotsOn(b, p, s)
      BY DEF AreStacks, GotsIn
    <3> HIDE DEF s, k
    <3>2. CASE k \in 1 .. Len(s)
      <4>1. DOMAIN s[k] = Fields
        BY <3>1, <3>2, StackLength
      <4>2. /\ DOMAIN f = Fields /\ f.layer = s[k].layer
            /\ f.got = [s[k].got EXCEPT ![cell[3]] = v]
        BY <4>1 DEF Fields
      <4>3. Gots(b, p, f)
        <5>1. Gots(b, p, s[k])
          BY <3>1, <3>2 DEF GotsOn
        <5>2. DOMAIN f.got = DOMAIN s[k].got /\ \A i \in DOMAIN f.got : f.got[i] \in {v, s[k].got[i]}
          BY <4>2
        <5>3. KindOf(p, f) = KindOf(p, s[k])
          BY <4>2 DEF KindOf
        <5> HIDE DEF f
        <5> QED
          BY <5>1, <5>2, <5>3 DEF Gots
      <4> HIDE DEF f
      <4>4. Puts(s, k, f, r)
        BY <3>1, <3>2, <4>2, PutIs
      <4> HIDE DEF r
      <4> QED
        BY <3>1, <4>3, <4>4, PutGots
    <3>3. CASE k \notin 1 .. Len(s)
      <4>1. r = s
        <5>1. PICK S : s \in Seq(S)
          BY <3>1 DEF IsStack
        <5> HIDE DEF f
        <5> QED
          BY <3>3, <5>1
      <4> QED
        BY <3>1, <4>1
    <3> QED
      BY <3>2, <3>3
  <2> HIDE DEF r
  <2>4. GotsIn(b, p, stack')
    BY <2>1, <2>3 DEF GotsIn
  <2> QED
    BY <2>2, <2>4
<1> QED
  BY <1>1, <1>2

(* Enter tells the limit if b, and has room if not. *)
LEMMA EnterAdmits ==
  ASSUME NEW b, NEW st, DOMAIN st = Threads, AreStacks(st), GotsIn(b, program, st), Hears(b, told),
         NEW t \in Threads, NEW n, NEW path, NEW cell, Enter(st, t, n, path, cell),
         b \/ nesting[t] < MAX_NESTING, b \in BOOLEAN
  PROVE  GotsIn(b, program, stack') /\ Hears(b, told')
<1>1. CASE nesting[t] < MAX_NESTING
  <2> DEFINE r == Append(st[t], Application(n, path, cell))
  <2>1. stack' = [st EXCEPT ![t] = r] /\ told' = [told EXCEPT ![t] = Nothing]
    BY <1>1 DEF Enter
  <2>2. GotsOn(b, program, r)
    BY PushGots DEF AreStacks, GotsIn
  <2> HIDE DEF r
  <2>3. GotsIn(b, program, stack')
    BY <2>1, <2>2 DEF GotsIn
  <2>4. Hears(b, told')
    BY <2>1 DEF Hears, Admits
  <2> QED
    BY <2>3, <2>4
<1>2. CASE ~(nesting[t] < MAX_NESTING)
  <2>1. Answering(st, t, Bad("limit", <<>>), cell)
    BY <1>2 DEF Enter
  <2>2. Admits(b, Bad("limit", <<>>))
    BY <1>2 DEF Admits, Bad
  <2> QED
    BY <2>1, <2>2, AnsweringAdmits
<1> QED
  BY <1>1, <1>2

(* The innermost application of t ends with what may be told. *)
LEMMA PopAdmits ==
  ASSUME NEW b, AsMeant, Admitted(b), NEW t \in Threads, stack[t] # <<>>,
         NEW v, Admits(b, v), NEW cell, Answering([stack EXCEPT ![t] = Front(@)], t, v, cell)
  PROVE  GotsIn(b, program, stack') /\ Hears(b, told')
<1> DEFINE st == [stack EXCEPT ![t] = Front(@)]
<1>1. DOMAIN stack = Threads /\ AreStacks(stack) /\ GotsIn(b, program, stack) /\ Hears(b, told)
  BY DEF AsMeant, Admitted
<1>2. DOMAIN st = Threads /\ st[t] = Front(stack[t]) /\ \A u \in Threads \ {t} : st[u] = stack[u]
  BY <1>1
<1>3. IsStack(Front(stack[t]))
  BY <1>1, PopIs DEF AreStacks, Pops
<1>4. GotsOn(b, program, Front(stack[t]))
  BY <1>1, PopGots DEF AreStacks, GotsIn
<1>5. Answering(st, t, v, cell)
  OBVIOUS
<1> HIDE DEF st
<1>6. AreStacks(st) /\ GotsIn(b, program, st)
  BY <1>1, <1>2, <1>3, <1>4 DEF AreStacks, GotsIn
<1> QED
  BY <1>1, <1>2, <1>5, <1>6, AnsweringAdmits

(* A layer under which a thread may begin another. *)
Begins(t) == \/ stack[t] = <<>>
             \/ Kind(Top(t)) \in {"fold", "cells", "stop"}
             \/ t \in Workers /\ Kind(Top(t)) = "pool"

LEMMA StepAdmits ==
  ASSUME NEW b \in BOOLEAN, AsMeant, Admitted(b), NEW t \in Threads, Step(t),
         b \/ (Begins(t) => nesting[t] < MAX_NESTING),
         ~b \/ (stack[t] # <<>> => /\ Kind(Top(t)) # "verb"
                                   /\ Kind(Top(t)) = "stop" => stops[t] # <<>>)
  PROVE  Admitted(b)'
<1>0. /\ DOMAIN stack = Threads /\ AreStacks(stack) /\ DOMAIN told = Threads /\ DOMAIN answer = Hosts
      /\ GotsIn(b, program, stack) /\ Hears(b, told) /\ Hears(b, answer) /\ Admits(b, told[t])
  BY DEF AsMeant, Admitted, Hears
<1> DEFINE Goal == GotsIn(b, program, stack') /\ Hears(b, told')
<1>1. ASSUME program' = program, answer' = answer, Goal
      PROVE  Admitted(b)'
  BY <1>0, <1>1 DEF Admitted
<1>2. ASSUME stack[t] # <<>>, NEW v, Admits(b, v), Leave(t, v)
      PROVE  Goal
  BY <1>2, PopAdmits DEF Leave
<1>3. ASSUME stack[t] # <<>>, NEW g, DOMAIN g = Fields, Gots(b, program, g)
      PROVE  /\ DOMAIN Changed(t, g) = Threads /\ AreStacks(Changed(t, g))
             /\ GotsIn(b, program, Changed(t, g))
  <2> DEFINE st == Changed(t, g)
  <2>1. /\ DOMAIN st = Threads /\ AreStacks(st) /\ Puts(stack[t], Len(stack[t]), g, st[t])
        /\ \A u \in Threads \ {t} : st[u] = stack[u]
    BY <1>3, ChangedIs
  <2> HIDE DEF st
  <2>2. GotsOn(b, program, st[t])
    BY <1>0, <1>3, <2>1, PutGots DEF GotsIn
  <2>3. GotsIn(b, program, st)
    BY <1>0, <2>1, <2>2 DEF GotsIn
  <2> QED
    BY <2>1, <2>3 DEF st
<1>4. ASSUME stack[t] # <<>>
      PROVE  /\ DOMAIN Top(t) = Fields /\ Gots(b, program, Top(t)) /\ Kind(Top(t)) = KindOf(program, Top(t))
             /\ Top(t).layer \in 1 .. Innermost(program)
  <2>1. Top(t) = stack[t][Len(stack[t])] /\ DOMAIN Top(t) = Fields /\ Len(stack[t]) \in Nat /\ Len(stack[t]) # 0
    BY <1>4, TopIs
  <2>2. Len(stack[t]) \in 1 .. Len(stack[t])
    BY <2>1
  <2>3. Top(t).layer \in 1 .. Innermost(program)
    BY <1>4, TopIs
  <2> QED
    BY <1>0, <2>1, <2>2, <2>3 DEF GotsIn, GotsOn, Kind, Layer, KindOf
<1>5. CASE Run(t)
  <2>1. Begins(t) /\ Enter(stack, t, 1, <<1>>, NoCell) /\ program' = program /\ answer' = answer
    BY <1>5 DEF Run, Begins
  <2>2. Goal
    BY <1>0, <2>1, EnterAdmits
  <2> QED
    BY <1>1, <2>1, <2>2
<1>6. CASE Finish(t)
  <2>1. /\ program' = program /\ stack' = stack
        /\ answer' = [answer EXCEPT ![t] = told[t]] /\ told' = [told EXCEPT ![t] = Nothing]
    BY <1>6 DEF Finish
  <2>2. Hears(b, answer') /\ Hears(b, told')
    BY <1>0, <2>1 DEF Hears, Admits
  <2> QED
    BY <1>0, <2>1, <2>2 DEF Admitted
<1>7. CASE Apply(t)
  <2>1. stack[t] # <<>> /\ Kind(Top(t)) = "verb" /\ program' = program /\ answer' = answer
    BY <1>7 DEF Apply, On
  <2>2. PICK v : Leave(t, v) /\ v.is \in {"refused", "fine"}
    BY <1>7 DEF Apply, Fine, Bad
  <2>3. Admits(b, v)
    BY <2>1, <2>2 DEF Admits
  <2> QED
    BY <1>1, <1>2, <2>1, <2>2, <2>3
<1>8. ASSUME NEW k \in {"fold", "cells"}, NEW most, Inner(t, k, most)
      PROVE  Admitted(b)'
  <2> DEFINE g == [Top(t) EXCEPT !.begun = @ + 1]
  <2>1. stack[t] # <<>> /\ Begins(t) /\ program' = program /\ answer' = answer
    BY <1>8 DEF Inner, On, Begins
  <2>2. DOMAIN g = Fields /\ g.layer = Top(t).layer /\ g.got = Top(t).got
    BY <1>4, <2>1 DEF Fields
  <2>3. Enter(Changed(t, g), t, Top(t).layer + 1, Append(Top(t).path, Top(t).begun + 1), NoCell)
    BY <1>8 DEF Inner
  <2> HIDE DEF g
  <2>4. Gots(b, program, g)
    BY <1>4, <2>1, <2>2 DEF Gots, KindOf
  <2>5. Goal
    BY <1>0, <1>3, <2>1, <2>2, <2>3, <2>4, EnterAdmits
  <2> QED
    BY <1>1, <2>1, <2>5
<1>9. CASE CellAnswered(t)
  <2>1. /\ stack[t] # <<>> /\ Kind(Top(t)) = "cells" /\ told[t] # Nothing
        /\ program' = program /\ answer' = answer
    BY <1>9 DEF CellAnswered, On
  <2>2. CASE told[t].is # "fine"
    <3>1. Leave(t, told[t])
      BY <1>9, <2>2 DEF CellAnswered
    <3> QED
      BY <1>0, <1>1, <1>2, <2>1, <3>1
  <2>3. CASE told[t].is = "fine"
    <3>1. ~b
      BY <1>0, <2>1, <2>3 DEF Admits
    <3>2. CASE \E x : Leave(t, Fine(x))
      <4>1. PICK x : Leave(t, Fine(x))
        BY <3>2
      <4>2. Admits(b, Fine(x))
        BY <3>1 DEF Admits, Fine
      <4> QED
        BY <1>1, <1>2, <2>1, <4>1, <4>2
    <3>3. ASSUME NEW x, stack' = Changed(t, [Top(t) EXCEPT !.got = x]), told' = [told EXCEPT ![t] = Nothing]
          PROVE  Admitted(b)'
      <4> DEFINE g == [Top(t) EXCEPT !.got = x]
      <4>1. DOMAIN g = Fields /\ g.layer = Top(t).layer
        BY <1>4, <2>1 DEF Fields
      <4>2. Gots(b, program, g)
        BY <1>4, <2>1, <4>1 DEF Gots, KindOf
      <4>3. stack' = Changed(t, g)
        BY <3>3
      <4> HIDE DEF g
      <4>4. GotsIn(b, program, stack')
        BY <1>3, <2>1, <4>1, <4>2, <4>3
      <4>5. Hears(b, told')
        BY <1>0, <3>3 DEF Hears, Admits
      <4> QED
        BY <1>1, <2>1, <4>4, <4>5
    <3> QED
      BY <1>9, <2>3, <3>2, <3>3 DEF CellAnswered
  <2> QED
    BY <2>2, <2>3
<1>10. CASE StepAnswered(t)
  <2>1. /\ stack[t] # <<>> /\ Kind(Top(t)) = "fold" /\ told[t] # Nothing
        /\ program' = program /\ answer' = answer
    BY <1>10 DEF StepAnswered, On
  <2>2. CASE told[t].is # "fine"
    <3>1. Leave(t, told[t])
      BY <1>10, <2>2 DEF StepAnswered
    <3> QED
      BY <1>0, <1>1, <1>2, <2>1, <3>1
  <2>3. CASE told[t].is = "fine"
    <3>1. ~b
      BY <1>0, <2>1, <2>3 DEF Admits
    <3>2. CASE \E v : Leave(t, v) /\ v.is \in {"fine", "left out"}
      <4>1. PICK v : Leave(t, v) /\ v.is \in {"fine", "left out"}
        BY <3>2
      <4>2. Admits(b, v)
        BY <3>1, <4>1 DEF Admits
      <4> QED
        BY <1>1, <1>2, <2>1, <4>1, <4>2
    <3>3. ASSUME NEW x, NEW y, stack' = Changed(t, [Top(t) EXCEPT !.got = x, !.lost = y]),
                 told' = [told EXCEPT ![t] = Nothing]
          PROVE  Admitted(b)'
      <4> DEFINE g == [Top(t) EXCEPT !.got = x, !.lost = y]
      <4>1. DOMAIN g = Fields /\ g.layer = Top(t).layer
        BY <1>4, <2>1 DEF Fields
      <4>2. Gots(b, program, g)
        BY <1>4, <2>1, <4>1 DEF Gots, KindOf
      <4>3. stack' = Changed(t, g)
        BY <3>3
      <4> HIDE DEF g
      <4>4. GotsIn(b, program, stack')
        BY <1>3, <2>1, <4>1, <4>2, <4>3
      <4>5. Hears(b, told')
        BY <1>0, <3>3 DEF Hears, Admits
      <4> QED
        BY <1>1, <2>1, <4>4, <4>5
    <3>4. \A x, y : Bad("left out", x).is = "left out" /\ Fine(y).is = "fine"
      BY DEF Bad, Fine
    <3>5. \/ \E v : Leave(t, v) /\ v.is \in {"fine", "left out"}
          \/ \E x, y : /\ stack' = Changed(t, [Top(t) EXCEPT !.got = x, !.lost = y])
                       /\ told' = [told EXCEPT ![t] = Nothing]
      BY <1>10, <2>3, <3>4 DEF StepAnswered
    <3> QED
      BY <3>2, <3>3, <3>5
  <2> QED
    BY <2>2, <2>3
<1>11. CASE Stop(t)
  <2>1. /\ stack[t] # <<>> /\ Kind(Top(t)) = "stop" /\ Begins(t)
        /\ program' = program /\ answer' = answer
    BY <1>11 DEF Stop, On, Begins
  <2>2. CASE stops[t] = <<>>
    <3>1. Leave(t, Bad("no fold", Top(t).path)) /\ ~b
      BY <1>11, <2>1, <2>2 DEF Stop
    <3>2. Admits(b, Bad("no fold", Top(t).path))
      BY <3>1 DEF Admits, Bad
    <3> QED
      BY <1>1, <1>2, <2>1, <3>1, <3>2
  <2>3. CASE stops[t] # <<>>
    <3>1. Enter(stack, t, Top(t).layer + 1, Top(t).path, NoCell)
      BY <1>11, <2>3 DEF Stop
    <3>2. Goal
      BY <1>0, <2>1, <3>1, EnterAdmits
    <3> QED
      BY <1>1, <2>1, <3>2
  <2> QED
    BY <2>2, <2>3
<1>12. CASE StopSaid(t)
  <2> DEFINE v == IF told[t].is = "fine" THEN Fine(<<>>) ELSE told[t]
  <2>1. /\ stack[t] # <<>> /\ told[t] # Nothing /\ program' = program /\ answer' = answer
        /\ Answering([stack EXCEPT ![t] = Front(@)], t, v, Top(t).cell)
    BY <1>12 DEF StopSaid, On
  <2>2. Admits(b, v)
    BY <1>0, <2>1 DEF Admits, Fine
  <2> HIDE DEF v
  <2>3. Goal
    BY <2>1, <2>2, PopAdmits
  <2> QED
    BY <1>1, <2>1, <2>3
<1>13. CASE HandOut(t)
  <2> DEFINE none == [i \in 1 .. CELLS |-> Nothing]
             g    == [Top(t) EXCEPT !.begun = CELLS, !.got = none]
  <2>1. /\ stack[t] # <<>> /\ program' = program /\ answer' = answer /\ told' = told
        /\ stack' = Changed(t, g)
    BY <1>13 DEF HandOut, On
  <2>2. DOMAIN g = Fields /\ g.got = none
    BY <1>4, <2>1 DEF Fields
  <2>3. Gots(b, program, g)
    BY <2>2 DEF Gots, Admits
  <2> HIDE DEF g
  <2>4. GotsIn(b, program, stack')
    BY <1>3, <2>1, <2>2, <2>3
  <2> QED
    BY <1>0, <1>1, <2>1, <2>4
<1>14. CASE Take(t)
  <2>1. program' = program /\ answer' = answer /\ Begins(t)
    BY <1>14 DEF Take, MayTake, Waiting, On, Begins
  <2>2. PICK c \in cells : Enter(stack, t, stack[c[1]][c[2]].layer + 1, Append(stack[c[1]][c[2]].path, c[3]), c)
    BY <1>14 DEF Take
  <2>3. Goal
    BY <1>0, <2>1, <2>2, EnterAdmits
  <2> QED
    BY <1>1, <2>1, <2>3
<1>15. CASE Collect(t)
  <2> DEFINE got == Top(t).got
             bad == {i \in 1 .. CELLS : got[i].is # "fine"}
             v   == IF bad # {} THEN got[FirstOf(got, bad)] ELSE Fine([i \in 1 .. CELLS |-> got[i].value])
  <2>1. /\ stack[t] # <<>> /\ Kind(Top(t)) = "pool" /\ Top(t).begun = CELLS
        /\ Leave(t, v) /\ program' = program /\ answer' = answer
        /\ \A i \in 1 .. CELLS : got[i] # Nothing
    BY <1>15 DEF Collect, On, Waiting
  <2>2. DOMAIN got = 1 .. CELLS
    <3>1. Came(program, Top(t), IF told[t] = Nothing THEN Top(t).begun ELSE Top(t).begun - 1)
      BY <2>1, TopIs
    <3>2. CELLS # 0
      BY PoolAssumption
    <3> QED
      BY <1>4, <2>1, <3>1, <3>2 DEF Came
  <2>3. \A i \in 1 .. CELLS : Admits(b, got[i])
    BY <1>4, <2>1, <2>2 DEF Gots
  <2>4. Admits(b, v)
    <3>1. CASE bad # {}
      <4>1. FirstOf(got, bad) \in bad
        <5>1. bad \subseteq Nat
          BY PoolAssumption
        <5> HIDE DEF bad, got
        <5>2. \E i \in bad : \A j \in bad : i <= j
          BY <3>1, <5>1, Least
        <5> QED
          BY <5>2 DEF FirstOf
      <4>2. FirstOf(got, bad) \in 1 .. CELLS
        BY <4>1
      <4> QED
        BY <2>3, <3>1, <4>2
    <3>2. CASE bad = {}
      <4>1. v = Fine([i \in 1 .. CELLS |-> got[i].value])
        BY <3>2
      <4>2. v.is = "fine"
        BY <4>1 DEF Fine
      <4>3. ~b
        <5>1. 1 \in 1 .. CELLS
          BY PoolAssumption
        <5>2. 1 \notin bad
          BY <3>2
        <5>3. got[1].is = "fine"
          BY <5>1, <5>2
        <5>4. Admits(b, got[1]) /\ got[1] # Nothing
          BY <2>1, <2>3, <5>1
        <5> QED
          BY <5>3, <5>4 DEF Admits
      <4> QED
        BY <4>2, <4>3 DEF Admits
    <3> QED
      BY <3>1, <3>2
  <2> HIDE DEF v
  <2> QED
    BY <1>1, <1>2, <2>1, <2>4
<1> HIDE DEF Goal
<1> QED
  BY <1>5, <1>6, <1>7, <1>8, <1>9, <1>10, <1>11, <1>12, <1>13, <1>14, <1>15 DEF Step

(* A program too deep: a layer come to is too far down its stretch. *)
TooDeep == \E n \in Reached(program) : Deep(program, n) > MAX_NESTING

LEMMA InitAdmits ==
  ASSUME Init, NEW b
  PROVE  Admitted(b)
<1>1. \A t \in Threads : stack[t] = <<>> /\ told[t] = Nothing
  BY DEF Init
<1>2. DOMAIN told = Threads /\ DOMAIN answer = Hosts /\ \A h \in Hosts : answer[h] = Nothing
  BY DEF Init
<1>3. GotsOn(b, program, <<>>)
  <2>1. 1 .. Len(<<>>) = {}
    OBVIOUS
  <2> QED
    BY <2>1 DEF GotsOn
<1> QED
  BY <1>1, <1>2, <1>3 DEF Admitted, GotsIn, Hears, Admits

(* In a program too deep the innermost verb is never come to, nor a stop   *)
(* with no fold over it on its own thread.                                 *)
LEMMA NoneSaysMore ==
  ASSUME AsMeant, Counts, TooDeep, NEW t \in Threads, stack[t] # <<>>
  PROVE  /\ Kind(Top(t)) # "verb"
         /\ Kind(Top(t)) = "stop" => stops[t] # <<>>
<1>1. PICK m \in Reached(program) : Deep(program, m) > MAX_NESTING
  BY DEF TooDeep
<1> DEFINE d == Len(stack[t])
           n == stack[t][d].layer
<1>2. Top(t) = stack[t][d] /\ d \in Nat /\ d # 0 /\ n \in 1 .. Innermost(program) /\ IsStack(stack[t])
  BY TopIs
<1>3. d \in 1 .. Len(stack[t])
  BY <1>2
<1>4. IsProgram(program) /\ Innermost(program) \in Nat
  <2>1. IsProgram(program)
    BY ProgramsAssumption DEF AsMeant
  <2> QED
    BY <1>2, <2>1, Kinds
<1>5. m \in 1 .. Innermost(program) /\ n < m
  <2>1. m \in 1 .. Innermost(program)
    BY DEF Reached
  <2> QED
    BY <1>1, <1>3, <2>1, NoneSoDeep
<1>6. Kind(Top(t)) = LayerOf(program, n)
  BY <1>2 DEF Kind, Layer
<1>7. Kind(Top(t)) # "verb"
  <2>1. n # Innermost(program)
    BY <1>2, <1>4, <1>5
  <2> QED
    BY <1>2, <1>4, <1>6, <2>1, Kinds
<1>8. ASSUME Kind(Top(t)) = "stop"
      PROVE  stops[t] # <<>>
  <2>1. n \in 1 .. m - 1
    BY <1>2, <1>4, <1>5
  <2>2. PICK i \in 1 .. Deep(program, n) - 1 : LayerOf(program, n - i) = "fold"
    BY <1>6, <1>8, <2>1 DEF Reached
  <2>3. Deep(program, n) <= d /\ \A k \in 0 .. Deep(program, n) - 1 : stack[t][d - k].layer = n - k
    BY <1>3, StretchStands DEF Stands
  <2>4. Deep(program, n) \in Nat
    <3>1. Deep(program, n) \in 1 .. n
      BY <1>2, <1>4, DeepIs
    <3> QED
      BY <1>2, <1>4, <3>1
  <2>5. i \in 0 .. Deep(program, n) - 1 /\ d - i \in 1 .. Len(stack[t])
    <3> HIDE DEF n
    <3> QED
      BY <1>2, <2>2, <2>3, <2>4
  <2>6. Kind(stack[t][d - i]) = "fold"
    BY <2>2, <2>3, <2>5 DEF Kind, Layer
  <2>7. Folds(stack[t]) # {}
    BY <2>5, <2>6 DEF Folds
  <2>8. IsFiniteSet(Folds(stack[t])) /\ Cardinality(Folds(stack[t])) # 0
    BY <1>2, <2>7, FoldsFinite, FS_EmptySet
  <2>9. Len(stops[t]) = Cardinality(Folds(stack[t]))
    BY DEF Counts, Right
  <2>10. stops[t] = <<>> => Len(stops[t]) = 0
    OBVIOUS
  <2> QED
    BY <2>8, <2>9, <2>10
<1> QED
  BY <1>7, <1>8

(* A program with a stretch too deep is refused, whoever runs its cells    *)
(* (Nesting::enter): where its stops stay home, no schedule lets it answer *)
(* anything else.                                                          *)
THEOREM DeepIsRefusedAlways ==
  Spec => [](StopsStayHome(program) => \A h \in Hosts : answer[h] # Nothing => DeepIsRefused(answer[h]))
<1> DEFINE AllLimits == StopsStayHome(program) /\ TooDeep => Admitted(TRUE)
           Goal == StopsStayHome(program) => \A h \in Hosts : answer[h] # Nothing => DeepIsRefused(answer[h])
<1>1. Init => AllLimits
  BY InitAdmits
<1>2. Meant /\ Counts /\ AllLimits /\ [Next]_vars => AllLimits'
  <2> SUFFICES ASSUME Meant, Counts, AllLimits, [Next]_vars, StopsStayHome(program'), TooDeep'
               PROVE  Admitted(TRUE)'
    OBVIOUS
  <2>1. CASE UNCHANGED vars
    <3>1. Admitted(TRUE)
      BY <2>1 DEF vars, TooDeep
    <3> QED
      BY <2>1, <3>1 DEF vars, Admitted
  <2>2. ASSUME NEW t \in Threads, Step(t) PROVE Admitted(TRUE)'
    <3>1. program' = program
      BY <2>2 DEF Step, Run, Finish, Apply, Inner, CellAnswered, StepAnswered, Stop, StopSaid,
                  HandOut, Take, Collect
    <3>2. StopsStayHome(program) /\ TooDeep
      BY <3>1 DEF TooDeep
    <3>3. AsMeant /\ Admitted(TRUE)
      BY <3>2 DEF Meant
    <3>4. stack[t] # <<>> => /\ Kind(Top(t)) # "verb"
                             /\ Kind(Top(t)) = "stop" => stops[t] # <<>>
      BY <3>2, <3>3, NoneSaysMore
    <3> QED
      BY <2>2, <3>3, <3>4, StepAdmits
  <2> QED
    BY <2>1, <2>2 DEF Next
<1>3. Meant /\ AllLimits => Goal
  <2> SUFFICES ASSUME StopsStayHome(program), AsMeant, AllLimits, NEW h \in Hosts, answer[h] # Nothing, TooDeep
               PROVE  answer[h].is = "limit"
    BY DEF Meant, DeepIsRefused, TooDeep
  <2>1. Hears(TRUE, answer) /\ DOMAIN answer = Hosts
    BY DEF AsMeant, Admitted
  <2> QED
    BY <2>1 DEF Hears, Admits
<1> HIDE DEF AllLimits, Goal
<1>4. Spec => []Goal
  BY <1>1, <1>2, <1>3, CountsAlways, MeantAlways, PTL DEF Spec
<1> QED
  BY <1>4 DEF Goal

(* Where a thread may begin a layer of a program split once or never that  *)
(* does not pile up too far, it has room for it.                           *)
LEMMA RoomIs ==
  ASSUME AsMeant, Counts, Cardinality(Splits(program)) < 2, ~(Piled(program) > MAX_NESTING),
         NEW t \in Threads, Begins(t)
  PROVE  nesting[t] < MAX_NESTING
<1>1. /\ IsProgram(program) /\ MAX_NESTING \in Nat /\ MAX_NESTING # 0
      /\ IsStack(stack[t]) /\ nesting[t] = Len(stack[t])
  BY ProgramsAssumption, PoolAssumption DEF AsMeant, Counts, Right
<1>2. CASE stack[t] = <<>>
  <2>1. Len(stack[t]) = 0
    BY <1>2
  <2> QED
    BY <1>1, <2>1
<1>3. CASE stack[t] # <<>>
  <2> DEFINE d == Len(stack[t])
             n == stack[t][d].layer
  <2>1. Top(t) = stack[t][d] /\ d \in Nat /\ d # 0 /\ n \in 1 .. Innermost(program)
    BY <1>3, TopIs
  <2>2. d \in 1 .. Len(stack[t])
    BY <2>1
  <2>3. Kind(Top(t)) = LayerOf(program, n)
    BY <2>1 DEF Kind, Layer
  <2>4. Deep(program, n) = d /\ (t \in Workers => LayerOf(program, n) # "pool")
    BY <2>2, OneStretch
  <2>5. LayerOf(program, n) \in {"fold", "cells", "stop"}
    BY <1>3, <2>3, <2>4 DEF Begins
  <2> HIDE DEF d, n
  <2>6. n + 1 \in 1 .. Innermost(program) /\ Deep(program, n + 1) = d + 1
    <3>1. LayerOf(program, n) # "verb" /\ LayerOf(program, n) # "pool"
      BY <2>5
    <3>2. n + 1 \in 1 .. Innermost(program)
      BY <1>1, <2>1, <3>1, Kinds
    <3>3. Deep(program, n + 1) = IF LayerOf(program, n) = "pool" THEN 1 ELSE Deep(program, n) + 1
      BY <1>1, <2>1, <3>2, DeepIs
    <3> QED
      BY <2>4, <3>1, <3>2, <3>3
  <2>7. d + 1 <= Piled(program) /\ Piled(program) \in Int
    <3>1. Deep(program, n + 1) <= Piled(program) /\ Piled(program) \in Int
      BY <1>1, <2>6, PiledIs
    <3> QED
      BY <2>6, <3>1
  <2>8. d < MAX_NESTING
    BY <1>1, <2>1, <2>7
  <2> QED
    BY <1>1, <2>8 DEF d
<1> QED
  BY <1>2, <1>3

(* Whoever runs its cells, a program split once or never meets the limit   *)
(* if a stretch it comes to is too deep, and only if it has one too deep   *)
(* (Nesting::enter).                                                       *)
THEOREM LimitAsDeepAlways ==
  Spec => [](StopsStayHome(program) /\ Cardinality(Splits(program)) < 2 => LimitAsDeep)
<1> DEFINE Once == StopsStayHome(program) /\ Cardinality(Splits(program)) < 2
           NoLimits == Once /\ ~(Piled(program) > MAX_NESTING) => Admitted(FALSE)
           Deeps == StopsStayHome(program) => \A h \in Hosts : answer[h] # Nothing => DeepIsRefused(answer[h])
           Goal == Once => LimitAsDeep
<1>1. Init => NoLimits
  BY InitAdmits
<1>2. Meant /\ Counts /\ NoLimits /\ [Next]_vars => NoLimits'
  <2> SUFFICES ASSUME Meant, Counts, NoLimits, [Next]_vars, Once', ~(Piled(program') > MAX_NESTING)
               PROVE  Admitted(FALSE)'
    OBVIOUS
  <2>1. CASE UNCHANGED vars
    <3>1. Admitted(FALSE)
      BY <2>1 DEF vars
    <3> QED
      BY <2>1, <3>1 DEF vars, Admitted
  <2>2. ASSUME NEW t \in Threads, Step(t) PROVE Admitted(FALSE)'
    <3>1. program' = program
      BY <2>2 DEF Step, Run, Finish, Apply, Inner, CellAnswered, StepAnswered, Stop, StopSaid,
                  HandOut, Take, Collect
    <3>2. Once /\ ~(Piled(program) > MAX_NESTING)
      BY <3>1
    <3>3. AsMeant /\ Admitted(FALSE)
      BY <3>2 DEF Meant
    <3>4. Begins(t) => nesting[t] < MAX_NESTING
      BY <3>2, <3>3, RoomIs
    <3> QED
      BY <2>2, <3>3, <3>4, StepAdmits
  <2> QED
    BY <2>1, <2>2 DEF Next
<1>3. Meant /\ NoLimits /\ Deeps => Goal
  <2> SUFFICES ASSUME Once, AsMeant, NoLimits, Deeps, NEW h \in Hosts, answer[h] # Nothing
               PROVE  DeepIsRefused(answer[h]) /\ RefusedIsPiled(answer[h])
    BY DEF Meant, LimitAsDeep
  <2>1. ASSUME ~(Piled(program) > MAX_NESTING)
        PROVE  answer[h].is # "limit"
    <3>1. Hears(FALSE, answer) /\ DOMAIN answer = Hosts
      BY <2>1 DEF AsMeant, Admitted
    <3> QED
      BY <3>1 DEF Hears, Admits
  <2> QED
    BY <2>1 DEF RefusedIsPiled
<1>4. Spec => []Deeps
  BY DeepIsRefusedAlways
<1> HIDE DEF NoLimits, Deeps, Goal
<1>5. Spec => []Goal
  BY <1>1, <1>2, <1>3, <1>4, CountsAlways, MeantAlways, PTL DEF Spec
<1> QED
  BY <1>5 DEF Goal
=============================================================================
