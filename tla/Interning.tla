------------------------------ MODULE Interning ------------------------------
(***************************************************************************)
(* What the symbol table promises the threads that share it: making a      *)
(* symbol is one indivisible step, the same text always answers the same   *)
(* id, and two texts never share one.                                      *)
(***************************************************************************)
EXTENDS Naturals

CONSTANTS Threads, Texts, EmptyText,
          ID_SPACE,   \* how many ids there are
          NoText, NoId, Panicked

VARIABLES idOf,     \* the id each text has been given, or NoId
          asked,    \* the text each thread is making a symbol of, or NoText
          answer    \* what each thread was last answered

vars == <<idOf, asked, answer>>

Ids == 0 .. ID_SPACE - 1

Init ==
  /\ idOf = [x \in Texts |-> IF x = EmptyText THEN 0 ELSE NoId]
  /\ asked = [t \in Threads |-> NoText]
  /\ answer = [t \in Threads |-> NoId]

Ask(t, x) ==
  /\ asked[t] = NoText
  /\ asked' = [asked EXCEPT ![t] = x]
  /\ answer' = [answer EXCEPT ![t] = NoId]
  /\ UNCHANGED idOf

Answer(t) ==
  /\ asked[t] # NoText
  /\ \E id \in Ids :
       /\ \/ idOf[asked[t]] = id
          \/ idOf[asked[t]] = NoId /\ \A x \in Texts : idOf[x] # id
       /\ idOf' = [idOf EXCEPT ![asked[t]] = id]
       /\ answer' = [answer EXCEPT ![t] = id]
  /\ asked' = [asked EXCEPT ![t] = NoText]

(* Only a table with no id left to give may fail a thread. *)
Panic(t) ==
  /\ asked[t] # NoText
  /\ \A id \in Ids : \E x \in Texts : idOf[x] = id
  /\ answer' = [answer EXCEPT ![t] = Panicked]
  /\ asked' = [asked EXCEPT ![t] = NoText]
  /\ UNCHANGED idOf

Next == \E t \in Threads : (\E x \in Texts : Ask(t, x)) \/ Answer(t) \/ Panic(t)

Spec == Init /\ [][Next]_vars
=============================================================================
