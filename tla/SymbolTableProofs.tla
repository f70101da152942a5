-------------------------- MODULE SymbolTableProofs --------------------------
(***************************************************************************)
(* The symbol table keeps its promises for any number of threads, any set  *)
(* of names and any width of an id: the vector and the map are each        *)
(* other's inverse, and interning under two locks is interning in one step.*)
(***************************************************************************)
EXTENDS SymbolTable, TLAPS

(* A thread that is in intern knows what it was asked. *)
AskedKnown == \A t \in Threads : pc[t] = "out" <=> asked[t] = NoText

Bounded == Len(names) \in 1 .. ID_SPACE /\ ids[EmptyText] = 0

IInv == TypeOK /\ Inverse /\ AskedKnown /\ Bounded /\ PanicsOnlyWhenFull

LEMMA InitInv == Init => IInv
<1> SUFFICES ASSUME Init
             PROVE  IInv
  OBVIOUS
<1> USE SymbolTableAssumption DEF Init
<1>1. TypeOK
  <2>1. 0 \in Ids
    BY DEF Ids
  <2>2. <<EmptyText>> \in Seq(Texts)
    OBVIOUS
  <2> QED
    BY <2>1, <2>2 DEF TypeOK
<1>2. Inverse
  BY DEF Inverse
<1>3. AskedKnown /\ Bounded /\ PanicsOnlyWhenFull
  BY DEF AskedKnown, Bounded, PanicsOnlyWhenFull
<1> QED
  BY <1>1, <1>2, <1>3 DEF IInv

(* Adding the next id for a name that has none keeps the two inverse. *)
LEMMA PushLemma ==
  ASSUME TypeOK, Inverse, NEW x \in Texts, ids[x] = NoId, Len(names) < ID_SPACE,
         names' = Append(names, x), ids' = [ids EXCEPT ![x] = Len(names)]
  PROVE  /\ Inverse'
         /\ names' \in Seq(Texts) /\ ids' \in [Texts -> Ids \cup {NoId}]
         /\ Len(names') = Len(names) + 1
         /\ \A k \in 1 .. Len(names) : names'[k] = names[k]
<1> USE SymbolTableAssumption DEF TypeOK
<1>1. /\ Len(names') = Len(names) + 1
      /\ \A k \in 1 .. Len(names) : names'[k] = names[k]
      /\ names'[Len(names) + 1] = x
      /\ names' \in Seq(Texts)
  OBVIOUS
<1>2. ids' \in [Texts -> Ids \cup {NoId}]
  BY DEF Ids
<1>3. \A k \in 1 .. Len(names) : names[k] # x
  BY DEF Inverse
<1>4. \A k \in 1 .. Len(names') : ids'[names'[k]] = k - 1
  <2> SUFFICES ASSUME NEW k \in 1 .. Len(names')
               PROVE  ids'[names'[k]] = k - 1
    OBVIOUS
  <2>1. CASE k = Len(names) + 1
    BY <1>1, <2>1
  <2>2. CASE k \in 1 .. Len(names)
    BY <1>1, <1>3, <2>2 DEF Inverse
  <2> QED
    BY <1>1, <2>1, <2>2
<1>5. \A y \in Texts : ids'[y] # NoId => ids'[y] < Len(names') /\ names'[ids'[y] + 1] = y
  <2> SUFFICES ASSUME NEW y \in Texts, ids'[y] # NoId
               PROVE  ids'[y] < Len(names') /\ names'[ids'[y] + 1] = y
    OBVIOUS
  <2>1. CASE y = x
    BY <1>1, <2>1
  <2>2. CASE y # x
    BY <1>1, <2>2 DEF Inverse, Ids
  <2> QED
    BY <2>1, <2>2
<1> QED
  BY <1>1, <1>2, <1>4, <1>5 DEF Inverse
-----------------------------------------------------------------------------
LEMMA NextInv == IInv /\ [Next]_vars => IInv'
<1> SUFFICES ASSUME IInv, [Next]_vars
             PROVE  IInv'
  OBVIOUS
<1> USE SymbolTableAssumption DEF IInv, TypeOK
<1>1. ASSUME NEW t \in Threads, NEW x \in Texts, Call(t, x)
      PROVE  IInv'
  <2>1. TypeOK' /\ Inverse' /\ Bounded'
    BY <1>1 DEF Call, Inverse, Bounded
  <2>2. AskedKnown' /\ PanicsOnlyWhenFull'
    BY <1>1 DEF Call, AskedKnown, PanicsOnlyWhenFull
  <2> QED
    BY <2>1, <2>2
<1>2. ASSUME NEW t \in Threads, Fail(t)
      PROVE  IInv'
  <2>1. TypeOK' /\ Inverse' /\ Bounded'
    BY <1>2 DEF Fail, Return, Inverse, Bounded
  <2>2. AskedKnown' /\ PanicsOnlyWhenFull'
    BY <1>2 DEF Fail, Return, AskedKnown, PanicsOnlyWhenFull
  <2> QED
    BY <2>1, <2>2
<1>3. ASSUME NEW t \in Threads, Probe(t)
      PROVE  IInv'
  <2>0. asked[t] \in Texts
    BY <1>3 DEF Probe, AskedKnown
  <2>1. TypeOK' /\ Inverse' /\ Bounded'
    BY <1>3, <2>0 DEF Probe, Return, Inverse, Bounded
  <2>2. AskedKnown' /\ PanicsOnlyWhenFull'
    BY <1>3, <2>0 DEF Probe, Return, AskedKnown, PanicsOnlyWhenFull, Ids
  <2> QED
    BY <2>1, <2>2
<1>4. ASSUME NEW t \in Threads, Add(t)
      PROVE  IInv'
  <2>0. asked[t] \in Texts
    BY <1>4 DEF Add, AskedKnown
  <2>1. CASE ids[asked[t]] # NoId
    <3>1. TypeOK' /\ Inverse' /\ Bounded'
      BY <1>4, <2>0, <2>1 DEF Add, Return, Inverse, Bounded
    <3>2. AskedKnown' /\ PanicsOnlyWhenFull'
      BY <1>4, <2>0, <2>1 DEF Add, Return, AskedKnown, PanicsOnlyWhenFull, Ids
    <3> QED
      BY <3>1, <3>2
  <2>2. CASE ids[asked[t]] = NoId /\ Len(names) < ID_SPACE
    <3>1. /\ Inverse'
          /\ names' \in Seq(Texts) /\ ids' \in [Texts -> Ids \cup {NoId}]
          /\ Len(names') = Len(names) + 1
      BY <1>4, <2>0, <2>2, PushLemma DEF Add, Push
    <3>2. Len(names) \in Ids
      BY <2>2 DEF Ids, Bounded
    <3>3. TypeOK'
      BY <1>4, <2>2, <3>1, <3>2 DEF Add, Push, Return
    <3>4. Bounded'
      BY <1>4, <2>0, <2>2, <3>1 DEF Add, Push, Bounded
    <3>5. AskedKnown'
      BY <1>4, <2>2 DEF Add, Push, Return, AskedKnown
    <3>6. \A u \in Threads : answer'[u] = Panicked => answer[u] = Panicked
      BY <1>4, <2>2, <3>2 DEF Add, Push, Return, Ids
    <3>7. PanicsOnlyWhenFull'
      BY <1>4, <2>2, <3>6 DEF Add, Push, PanicsOnlyWhenFull
    <3> QED
      BY <3>1, <3>3, <3>4, <3>5, <3>7
  <2>3. CASE ids[asked[t]] = NoId /\ ~(Len(names) < ID_SPACE)
    <3>1. TypeOK' /\ Inverse' /\ Bounded'
      BY <1>4, <2>3 DEF Add, Return, Inverse, Bounded
    <3>2. AskedKnown' /\ PanicsOnlyWhenFull'
      BY <1>4, <2>3 DEF Add, Return, AskedKnown, PanicsOnlyWhenFull, Bounded
    <3> QED
      BY <3>1, <3>2
  <2> QED
    BY <2>1, <2>2, <2>3
<1>5. CASE UNCHANGED vars
  BY <1>5 DEF vars, Inverse, AskedKnown, Bounded, PanicsOnlyWhenFull
<1> QED
  BY <1>1, <1>2, <1>3, <1>4, <1>5 DEF Next

(* One name has one id and an id names one text, in every reachable state. *)
THEOREM InverseAlways == Spec => []Inverse
<1>1. IInv => Inverse
  BY DEF IInv
<1> QED
  BY InitInv, NextInv, <1>1, PTL DEF Spec

(* A thread is refused a symbol only once every id has been given out. *)
THEOREM PanicsOnlyWhenFullAlways == Spec => []PanicsOnlyWhenFull
<1>1. IInv => PanicsOnlyWhenFull
  BY DEF IInv
<1> QED
  BY InitInv, NextInv, <1>1, PTL DEF Spec
-----------------------------------------------------------------------------
LEMMA StepAppends ==
  ASSUME IInv, [Next]_vars
  PROVE  /\ Len(names) <= Len(names')
         /\ \A k \in 1 .. Len(names) : names'[k] = names[k]
<1> USE SymbolTableAssumption DEF IInv, TypeOK
<1>1. CASE UNCHANGED names
  BY <1>1
<1>2. ASSUME NEW t \in Threads, Add(t), ~ UNCHANGED names
      PROVE  names' = Append(names, asked[t]) /\ asked[t] \in Texts
  BY <1>2 DEF Add, Push, AskedKnown
<1> QED
  BY <1>1, <1>2 DEF Next, vars, Call, Fail, Probe

(* An index, once handed out, names the same text for good. *)
THEOREM AppendOnlyAlways == Spec => AppendOnly
<1>1. IInv /\ [Next]_vars => [/\ Len(names) <= Len(names')
                             /\ \A k \in 1 .. Len(names) : names'[k] = names[k]]_vars
  BY StepAppends
<1> QED
  BY InitInv, NextInv, <1>1, PTL DEF Spec, AppendOnly

LEMMA InitRefines == Init => Atomic!Init
BY DEF Init, Atomic!Init

(* The step that answers is the look under the read lock where it finds    *)
(* the name, and the section under the write lock where it does not.       *)
LEMMA StepRefines == IInv /\ [Next]_vars => [Atomic!Next]_(Atomic!vars)
<1> SUFFICES ASSUME IInv, [Next]_vars
             PROVE  [Atomic!Next]_(Atomic!vars)
  OBVIOUS
<1> USE SymbolTableAssumption DEF IInv, TypeOK, Atomic!Ids, Ids
<1>1. ASSUME NEW t \in Threads, NEW x \in Texts, Call(t, x)
      PROVE  Atomic!Ask(t, x)
  BY <1>1 DEF Call, Atomic!Ask, AskedKnown
<1>2. ASSUME NEW t \in Threads, asked[t] # NoText, Len(names) = ID_SPACE,
             Return(t, Panicked), UNCHANGED ids
      PROVE  Atomic!Panic(t)
  <2>1. \A id \in Ids : names[id + 1] \in Texts /\ ids[names[id + 1]] = id
    BY <1>2 DEF Inverse
  <2> QED
    BY <1>2, <2>1 DEF Return, Atomic!Panic
<1>3. ASSUME NEW t \in Threads, asked[t] # NoText, ids[asked[t]] # NoId,
             Return(t, ids[asked[t]]), UNCHANGED ids
      PROVE  Atomic!Answer(t)
  <2>1. ids[asked[t]] \in Ids /\ ids' = [ids EXCEPT ![asked[t]] = ids[asked[t]]]
    BY <1>3
  <2> QED
    BY <1>3, <2>1 DEF Return, Atomic!Answer
<1>4. ASSUME NEW t \in Threads, asked[t] # NoText, ids[asked[t]] = NoId,
             Len(names) < ID_SPACE, Push(t)
      PROVE  Atomic!Answer(t)
  <2>1. Len(names) \in Ids /\ \A x \in Texts : ids[x] # Len(names)
    BY <1>4 DEF Inverse, Bounded
  <2> QED
    BY <1>4, <2>1 DEF Push, Return, Atomic!Answer
<1>5. ASSUME NEW t \in Threads, Fail(t)
      PROVE  Atomic!Panic(t)
  BY <1>2, <1>5 DEF Fail, AskedKnown, PanicsOnlyWhenFull
<1>6. ASSUME NEW t \in Threads, Probe(t)
      PROVE  Atomic!Answer(t) \/ UNCHANGED Atomic!vars
  BY <1>3, <1>6 DEF Probe, AskedKnown, Atomic!vars
<1>7. ASSUME NEW t \in Threads, Add(t)
      PROVE  Atomic!Answer(t) \/ Atomic!Panic(t)
  <2>0. asked[t] # NoText
    BY <1>7 DEF Add, AskedKnown
  <2>1. CASE ids[asked[t]] # NoId
    BY <1>3, <1>7, <2>0, <2>1 DEF Add
  <2>2. CASE ids[asked[t]] = NoId /\ Len(names) < ID_SPACE
    BY <1>4, <1>7, <2>0, <2>2 DEF Add
  <2>3. CASE ids[asked[t]] = NoId /\ ~(Len(names) < ID_SPACE)
    BY <1>2, <1>7, <2>0, <2>3 DEF Add, Bounded
  <2> QED
    BY <2>1, <2>2, <2>3
<1>8. CASE UNCHANGED vars
  BY <1>8 DEF vars, Atomic!vars
<1> QED
  BY <1>1, <1>5, <1>6, <1>7, <1>8 DEF Next, Atomic!Next

(* Interning under a read lock and then a write lock is interning in one   *)
(* step, for any number of threads.                                        *)
THEOREM TableImplementsInterning == Spec => ImplementsInterning
BY InitInv, NextInv, InitRefines, StepRefines, PTL
   DEF Spec, ImplementsInterning, Atomic!Spec
=============================================================================
