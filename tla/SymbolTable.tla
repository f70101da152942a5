----------------------------- MODULE SymbolTable -----------------------------
(***************************************************************************)
(* J's symbol table, src/crates/libjay/src/symbol.rs: one process-wide     *)
(* table behind a RwLock.  intern looks a name up under the read lock and, *)
(* when it is not there, looks again and adds it under the write lock; any *)
(* other thread may run between the two.  A section that holds the lock is *)
(* one step: nothing else reads or writes the table while it runs.         *)
(***************************************************************************)
EXTENDS Integers, Sequences

CONSTANTS Threads, Texts, EmptyText,
          ID_SPACE,   \* the ids a u32 holds
          NoText, NoId, Panicked

ASSUME SymbolTableAssumption ==
  /\ EmptyText \in Texts
  /\ NoText \notin Texts
  /\ ID_SPACE \in Nat \ {0}
  /\ NoId \notin Nat
  /\ Panicked \notin Nat \cup {NoId}

VARIABLES names,      \* Table.names; the id of names[k] is k - 1
          ids,        \* Table.ids
          poisoned,   \* a thread panicked while it held the write lock
          pc,         \* where each thread is in intern
          asked,      \* the name it was called with
          answer      \* what it returned last

vars == <<names, ids, poisoned, pc, asked, answer>>

Ids == 0 .. ID_SPACE - 1

TypeOK ==
  /\ names \in Seq(Texts)
  /\ ids \in [Texts -> Ids \cup {NoId}]
  /\ poisoned \in BOOLEAN
  /\ pc \in [Threads -> {"out", "read", "write"}]
  /\ asked \in [Threads -> Texts \cup {NoText}]
  /\ answer \in [Threads -> Ids \cup {NoId, Panicked}]
-----------------------------------------------------------------------------
(* table(): the empty name is there from the start, as id EMPTY. *)
Init ==
  /\ names = <<EmptyText>>
  /\ ids = [x \in Texts |-> IF x = EmptyText THEN 0 ELSE NoId]
  /\ poisoned = FALSE
  /\ pc = [t \in Threads |-> "out"]
  /\ asked = [t \in Threads |-> NoText]
  /\ answer = [t \in Threads |-> NoId]

Call(t, x) ==
  /\ pc[t] = "out"
  /\ pc' = [pc EXCEPT ![t] = "read"]
  /\ asked' = [asked EXCEPT ![t] = x]
  /\ answer' = [answer EXCEPT ![t] = NoId]
  /\ UNCHANGED <<names, ids, poisoned>>

Return(t, a) ==
  /\ pc' = [pc EXCEPT ![t] = "out"]
  /\ asked' = [asked EXCEPT ![t] = NoText]
  /\ answer' = [answer EXCEPT ![t] = a]

(* Both expect()s: a poisoned lock panics whoever takes it. *)
Fail(t) ==
  /\ pc[t] # "out"
  /\ poisoned
  /\ Return(t, Panicked)
  /\ UNCHANGED <<names, ids, poisoned>>

(* The look under the read lock. *)
Probe(t) ==
  /\ pc[t] = "read"
  /\ ~poisoned
  /\ IF ids[asked[t]] # NoId
     THEN Return(t, ids[asked[t]])
     ELSE pc' = [pc EXCEPT ![t] = "write"] /\ UNCHANGED <<asked, answer>>
  /\ UNCHANGED <<names, ids, poisoned>>

Push(t) ==
  /\ names' = Append(names, asked[t])
  /\ ids' = [ids EXCEPT ![asked[t]] = Len(names)]
  /\ Return(t, Len(names))
  /\ UNCHANGED poisoned

AddUnchecked(t) == \* mutant of Add: the name is not looked up again
  /\ pc[t] = "write"
  /\ ~poisoned
  /\ IF Len(names) < ID_SPACE
     THEN Push(t)
     ELSE poisoned' = TRUE /\ Return(t, Panicked) /\ UNCHANGED <<names, ids>>

AddOffByOne(t) == \* mutant of Add: the table is full one id early
  /\ pc[t] = "write"
  /\ ~poisoned
  /\ IF ids[asked[t]] # NoId
     THEN Return(t, ids[asked[t]]) /\ UNCHANGED <<names, ids, poisoned>>
     ELSE IF Len(names) < ID_SPACE - 1
     THEN Push(t)
     ELSE poisoned' = TRUE /\ Return(t, Panicked) /\ UNCHANGED <<names, ids>>

(* The section under the write lock: look again, then take the next id or  *)
(* panic with the lock held when no u32 is left.                           *)
Add(t) ==
  /\ pc[t] = "write"
  /\ ~poisoned
  /\ IF ids[asked[t]] # NoId
     THEN Return(t, ids[asked[t]]) /\ UNCHANGED <<names, ids, poisoned>>
     ELSE IF Len(names) < ID_SPACE
     THEN Push(t)
     ELSE poisoned' = TRUE /\ Return(t, Panicked) /\ UNCHANGED <<names, ids>>

Next ==
  \E t \in Threads :
    \/ \E x \in Texts : Call(t, x)
    \/ Fail(t)
    \/ Probe(t)
    \/ Add(t)

Spec == Init /\ [][Next]_vars
-----------------------------------------------------------------------------
(* The vector and the map are each other's inverse: an id names one text,  *)
(* a text has one id, and nothing in the vector is missing from the map.   *)
Inverse ==
  /\ \A k \in 1 .. Len(names) : ids[names[k]] = k - 1
  /\ \A x \in Texts : ids[x] # NoId => ids[x] < Len(names) /\ names[ids[x] + 1] = x

(* "An index, once handed out, names the same text for the life of the     *)
(* process": no step moves or drops a name.                                *)
AppendOnly ==
  [][/\ Len(names) <= Len(names')
     /\ \A k \in 1 .. Len(names) : names'[k] = names[k]]_vars

(* "Panics only if the table is exhausted". *)
PanicsOnlyWhenFull ==
  (poisoned \/ \E t \in Threads : answer[t] = Panicked) => Len(names) = ID_SPACE

(* However the two sections of several threads interleave, every thread is *)
(* answered as if making a symbol were one step.                           *)
Atomic == INSTANCE Interning WITH idOf <- ids

ImplementsInterning == Atomic!Spec
=============================================================================
