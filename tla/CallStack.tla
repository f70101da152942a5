------------------------------ MODULE CallStack ------------------------------
(***************************************************************************)
(* What a definition's local names promise a program, with nothing said of *)
(* how they are stored: every call starts with its arguments and no other  *)
(* local, sees its own locals and those of the definitions it is written   *)
(* inside, and takes them with it when it ends.  Frames.tla is how         *)
(* src/crates/libjay/src/verb.rs keeps the promise while it reuses the     *)
(* storage of finished calls.                                              *)
(***************************************************************************)
EXTENDS Integers, Sequences

CONSTANTS Names,            \* the names a program writes
          Values,           \* the values it gives them
          NoValue,          \* a name that is not there
          Defs,             \* the explicit definitions
          Enclosing,        \* the definitions each one is written inside
          RECURSION_LIMIT   \* how deep calls may go

VARIABLES calls,   \* the calls running, outermost first: each with its locals
          seen     \* the value the last read of a local name gave

vars == <<calls, seen>>

Maybe == Values \cup {NoValue}
Bindings == UNION {[S -> Values] : S \in SUBSET Names}
-----------------------------------------------------------------------------
(* The calls whose local `n` the running one can see below its own. *)
Visible(n) ==
  {i \in 1 .. Len(calls) - 1 :
      /\ calls[i].def \in Enclosing[calls[Len(calls)].def]
      /\ calls[i].locals[n] # NoValue}

Lookup(n) ==
  IF Len(calls) = 0 THEN NoValue
  ELSE IF calls[Len(calls)].locals[n] # NoValue THEN calls[Len(calls)].locals[n]
  ELSE IF Visible(n) = {} THEN NoValue
  ELSE calls[CHOOSE i \in Visible(n) : \A j \in Visible(n) : j <= i].locals[n]

Init == calls = <<>> /\ seen = NoValue

(* A call's locals are what it was called with and nothing else. *)
Locals(b) == [n \in Names |-> IF n \in DOMAIN b THEN b[n] ELSE NoValue]

Enter(d, b) ==
  /\ Len(calls) < RECURSION_LIMIT
  /\ calls' = Append(calls, [def |-> d, locals |-> Locals(b)])
  /\ UNCHANGED seen

(* Names given values, or taken away, in the running call alone. *)
Bind(b) ==
  /\ Len(calls) > 0
  /\ calls' = [calls EXCEPT ![Len(calls)].locals =
                  [n \in Names |-> IF n \in DOMAIN b THEN b[n] ELSE @[n]]]
  /\ UNCHANGED seen

Leave ==
  /\ Len(calls) > 0
  /\ calls' = SubSeq(calls, 1, Len(calls) - 1)
  /\ UNCHANGED seen

Read(n) == seen' = Lookup(n) /\ UNCHANGED calls

Next == \/ \E d \in Defs, b \in Bindings : Enter(d, b)
        \/ \E S \in SUBSET Names : \E b \in [S -> Maybe] : Bind(b)
        \/ \E n \in Names : Read(n)
        \/ Leave

Spec == Init /\ [][Next]_vars
=============================================================================
