------------------------------- MODULE Frames -------------------------------
(***************************************************************************)
(* The local names of running definitions: Frame and the call stack of Env *)
(* in src/crates/libjay/src/verb.rs.  A finished call's frame is not freed:*)
(* it stays past `depth`, emptied of its values and still holding its      *)
(* names, and the next call at that level fills it again; so does the      *)
(* handle to the definition that ran there.                                *)
(***************************************************************************)
EXTENDS Integers, Sequences, FiniteSets

CONSTANTS Names,            \* the names a program writes
          Values,           \* the values it gives them
          NoValue,          \* an empty slot, or no slot
          Defs,             \* the explicit definitions
          Enclosing,        \* the ids in each definition's `enclosing`
          RECURSION_LIMIT,
          MAX_KEPT_SLOTS    \* the slots a frame keeps when it is recycled

ASSUME FramesAssumption ==
  /\ NoValue \notin Values
  /\ Enclosing \in [Defs -> SUBSET Defs]
  /\ RECURSION_LIMIT \in Nat \ {0}
  /\ MAX_KEPT_SLOTS \in Nat

VARIABLES frames,    \* one per level ever reached, innermost call at `depth`
          running,   \* the definition last entered at each level
          depth,     \* how many calls are running
          bodies,    \* the `def` of each call_explicit under way
          seen       \* the value the last read of a local name gave

vars == <<frames, running, depth, bodies, seen>>

Maybe == Values \cup {NoValue}

(* A frame is a function on the names that have a slot. *)
Frame == UNION {[S -> Maybe] : S \in SUBSET Names}
DefaultFrame == [n \in {} |-> NoValue]

(* What a call binds as it starts. *)
Bindings == UNION {[S -> Values] : S \in SUBSET Names}

TypeOK ==
  /\ frames \in Seq(Frame)
  /\ running \in Seq(Defs)
  /\ depth \in 0 .. RECURSION_LIMIT
  /\ bodies \in Seq(Defs)
  /\ seen \in Maybe
-----------------------------------------------------------------------------
(* Frame::get, insert (of each name of `b`), remove and recycle. *)
FrameGet(f, n) == IF n \in DOMAIN f THEN f[n] ELSE NoValue

FrameBind(f, b) ==
  [m \in DOMAIN f \cup DOMAIN b |-> IF m \in DOMAIN b THEN b[m] ELSE f[m]]

FrameRemove(f, n) ==
  [m \in DOMAIN f |-> IF m = n THEN NoValue ELSE f[m]]

RecycleKeepingValues(f) == \* mutant of FrameRecycle
  IF Cardinality(DOMAIN f) > MAX_KEPT_SLOTS THEN DefaultFrame ELSE f

FrameRecycle(f) ==
  IF Cardinality(DOMAIN f) > MAX_KEPT_SLOTS
  THEN DefaultFrame
  ELSE [m \in DOMAIN f |-> NoValue]

(* The part of Env::get that searches frames: the running call's, then     *)
(* those below whose definition this one is written inside, nearest first. *)
Visible(n) ==
  {i \in 1 .. depth - 1 :
      /\ running[i] \in Enclosing[running[depth]]
      /\ FrameGet(frames[i], n) # NoValue}

LocalGet(n) ==
  IF depth = 0 THEN NoValue
  ELSE IF FrameGet(frames[depth], n) # NoValue THEN FrameGet(frames[depth], n)
  ELSE IF Visible(n) = {} THEN NoValue
  ELSE FrameGet(frames[CHOOSE i \in Visible(n) : \A j \in Visible(n) : j <= i], n)
-----------------------------------------------------------------------------
Init ==
  /\ frames = <<>>
  /\ running = <<>>
  /\ depth = 0
  /\ bodies = <<>>
  /\ seen = NoValue

EnterKeepingHandle(d, b) == \* mutant of Enter: the level's old handle stays
  /\ depth < RECURSION_LIMIT
  /\ IF depth = Len(frames)
     THEN /\ frames' = Append(frames, FrameBind(DefaultFrame, b))
          /\ running' = Append(running, d)
     ELSE /\ frames' = [frames EXCEPT ![depth + 1] = FrameBind(@, b)]
          /\ UNCHANGED running
  /\ depth' = depth + 1
  /\ bodies' = Append(bodies, d)
  /\ UNCHANGED seen

(* Env::enter and the bindings call_explicit makes right after it: `b` is  *)
(* the axis, the arguments and the labels.  Past RECURSION_LIMIT enter     *)
(* answers an error and changes nothing; a level reached before keeps its  *)
(* frame, a new one gets an empty one.                                     *)
Enter(d, b) ==
  /\ depth < RECURSION_LIMIT
  /\ IF depth = Len(frames)
     THEN /\ frames' = Append(frames, FrameBind(DefaultFrame, b))
          /\ running' = Append(running, d)
     ELSE /\ frames' = [frames EXCEPT ![depth + 1] = FrameBind(@, b)]
          /\ running' = [running EXCEPT ![depth + 1] = d]
  /\ depth' = depth + 1
  /\ bodies' = Append(bodies, d)
  /\ UNCHANGED seen

(* Local assignments: of one name, or of the names of a list. *)
Insert(b) ==
  /\ depth > 0
  /\ frames' = [frames EXCEPT ![depth] = FrameBind(@, b)]
  /\ UNCHANGED <<running, depth, bodies, seen>>

(* The frame's share of erase_name: the slot stays behind, empty. *)
Remove(n) ==
  /\ depth > 0
  /\ frames' = [frames EXCEPT ![depth] = FrameRemove(@, n)]
  /\ UNCHANGED <<running, depth, bodies, seen>>

(* Env::leave. *)
Leave ==
  /\ depth > 0
  /\ depth' = depth - 1
  /\ bodies' = SubSeq(bodies, 1, depth - 1)
  /\ frames' = [frames EXCEPT ![depth] = FrameRecycle(@)]
  /\ UNCHANGED <<running, seen>>

Read(n) == seen' = LocalGet(n) /\ UNCHANGED <<frames, running, depth, bodies>>

Next ==
  \/ \E d \in Defs, b \in Bindings : Enter(d, b)
  \/ \E b \in Bindings : Insert(b)
  \/ \E n \in Names : Remove(n)
  \/ \E n \in Names : Read(n)
  \/ Leave

Spec == Init /\ [][Next]_vars
-----------------------------------------------------------------------------
(* The stack a program is promised: the definitions whose bodies run, and  *)
(* the locals read off the reused storage.                                 *)
RunningCalls ==
  [i \in 1 .. depth |->
     [def    |-> bodies[i],
      locals |-> [n \in Names |-> FrameGet(frames[i], n)]]]

Promise == INSTANCE CallStack WITH calls <- RunningCalls

(* A call never starts with, sees, or leaves behind a local of another     *)
(* one: however Env::enter and Env::leave reuse frames and definition      *)
(* handles, every read answers what a stack of fresh frames would answer.  *)
ImplementsCallStack == Promise!Spec

(* Nothing past `depth` holds a value: what Env's `frames` field says of a *)
(* finished call's frame ("it is the emptied frame a finished call left"). *)
DormantFramesEmpty ==
  \A i \in depth + 1 .. Len(frames) : \A n \in DOMAIN frames[i] : frames[i][n] = NoValue
=============================================================================
