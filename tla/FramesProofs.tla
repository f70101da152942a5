---------------------------- MODULE FramesProofs ----------------------------
(***************************************************************************)
(* Frames implements CallStack, for every set of names, values and         *)
(* definitions and every value of the two limits.  The argument is one     *)
(* invariant: what lies past `depth` holds no value, so the frame a call   *)
(* finds there is as good as a new one.                                    *)
(***************************************************************************)
EXTENDS Frames, FiniteSetTheorems, WellFoundedInduction, TLAPS

(* A frame is a function from some of the names. *)
LEMMA FrameTyped ==
  ASSUME NEW f
  PROVE  f \in Frame <=> f \in [DOMAIN f -> Maybe] /\ DOMAIN f \subseteq Names
BY DEF Frame

(* What a read gives after each operation on a frame. *)
LEMMA GetDefault == \A n : FrameGet(DefaultFrame, n) = NoValue
BY DEF FrameGet, DefaultFrame

LEMMA BindLemma ==
  ASSUME NEW f \in Frame, NEW b \in Bindings
  PROVE  /\ FrameBind(f, b) \in Frame
         /\ \A m : FrameGet(FrameBind(f, b), m)
                     = IF m \in DOMAIN b THEN b[m] ELSE FrameGet(f, m)
<1>1. b \in [DOMAIN b -> Values] /\ DOMAIN b \subseteq Names
  BY DEF Bindings
<1>2. FrameBind(f, b) \in Frame
  BY <1>1, FrameTyped DEF Frame, FrameBind, Maybe
<1>3. QED
  BY <1>2 DEF FrameBind, FrameGet

LEMMA DefaultTyped == DefaultFrame \in Frame
BY DEF Frame, DefaultFrame

LEMMA GetTyped ==
  ASSUME NEW f \in Frame, NEW n
  PROVE  FrameGet(f, n) \in Maybe
BY FrameTyped DEF FrameGet, Maybe

LEMMA RemoveLemma ==
  ASSUME NEW f \in Frame, NEW n \in Names
  PROVE  /\ FrameRemove(f, n) \in Frame
         /\ \A m : FrameGet(FrameRemove(f, n), m)
                     = IF m = n THEN NoValue ELSE FrameGet(f, m)
<1>1. FrameRemove(f, n) \in Frame
  BY FrameTyped DEF Frame, FrameRemove, Maybe
<1>2. QED
  BY <1>1 DEF FrameRemove, FrameGet

LEMMA RecycleLemma ==
  ASSUME NEW f \in Frame
  PROVE  /\ FrameRecycle(f) \in Frame
         /\ \A m \in DOMAIN FrameRecycle(f) : FrameRecycle(f)[m] = NoValue
<1>1. FrameRecycle(f) \in Frame
  BY FrameTyped, DefaultTyped DEF Frame, FrameRecycle, Maybe
<1>2. QED
  BY <1>1 DEF FrameRecycle, DefaultFrame
-----------------------------------------------------------------------------
(* The inductive invariant: the two stacks are as long as each other and   *)
(* at least as long as `depth`, a running level's handle is the definition *)
(* whose body runs there, and what is past `depth` holds no value.         *)
StacksAligned ==
  /\ Len(running) = Len(frames)
  /\ depth <= Len(frames)
  /\ Len(bodies) = depth
  /\ \A i \in 1 .. depth : bodies[i] = running[i]

IInv == TypeOK /\ StacksAligned /\ DormantFramesEmpty

(* Of the levels a search finds, one is nearest. *)
LEMMA NearestExists ==
  ASSUME NEW k \in Int, NEW S \in SUBSET (1 .. k), S # {}
  PROVE  \E m \in S : \A j \in S : j <= m
<1> DEFINE T == {k - s : s \in S}
<1>1. T \subseteq Nat /\ T # {}
  <2>1. \A s \in S : k - s \in Nat
    OBVIOUS
  <2>2. QED
    BY <2>1
<1>2. PICK x \in T : \A y \in T : ~ (<<y, x>> \in OpToRel(<, Nat))
  <2> HIDE DEF T
  <2> QED
    BY <1>1, WFMin, NatLessThanWellFounded
<1>3. PICK m \in S : x = k - m
  OBVIOUS
<1>4. ASSUME NEW j \in S
      PROVE  j <= m
  <2>1. k - j \in T
    OBVIOUS
  <2>2. ~ (k - j < x)
    BY <1>1, <1>2, <2>1 DEF OpToRel
  <2> QED
    BY <1>3, <2>2
<1> QED
  BY <1>4

LEMMA LocalGetTyped ==
  ASSUME IInv, NEW n
  PROVE  LocalGet(n) \in Maybe
<1>1. \A i \in 1 .. depth : FrameGet(frames[i], n) \in Maybe
  BY GetTyped DEF IInv, TypeOK, StacksAligned
<1>2. CASE depth = 0
  BY <1>2 DEF LocalGet, Maybe
<1>3. CASE depth # 0 /\ Visible(n) = {}
  BY <1>1, <1>3 DEF LocalGet, Maybe, IInv, TypeOK
<1>4. CASE depth # 0 /\ Visible(n) # {}
  <2> DEFINE nearest == CHOOSE i \in Visible(n) : \A j \in Visible(n) : j <= i
  <2>1. Visible(n) \subseteq 1 .. depth - 1 /\ depth - 1 \in Int
    BY DEF Visible, IInv, TypeOK
  <2>2. \E i \in Visible(n) : \A j \in Visible(n) : j <= i
    BY <1>4, <2>1, NearestExists
  <2>3. nearest \in Visible(n)
    BY <2>2
  <2>4. FrameGet(frames[nearest], n) \in Maybe
    BY <2>1, <2>3, <1>1 DEF IInv, TypeOK
  <2> QED
    BY <1>1, <1>4, <2>4 DEF LocalGet, IInv, TypeOK
<1> QED
  BY <1>2, <1>3, <1>4
-----------------------------------------------------------------------------
LEMMA InitInv == Init => IInv
<1> SUFFICES ASSUME Init
             PROVE  IInv
  OBVIOUS
<1>1. TypeOK
  BY FramesAssumption DEF Init, TypeOK, Maybe
<1>2. StacksAligned /\ DormantFramesEmpty
  BY DEF Init, StacksAligned, DormantFramesEmpty
<1> QED
  BY <1>1, <1>2 DEF IInv

LEMMA NextInv == IInv /\ [Next]_vars => IInv'
<1> SUFFICES ASSUME IInv, [Next]_vars
             PROVE  IInv'
  OBVIOUS
<1> USE FramesAssumption
<1>1. ASSUME NEW d \in Defs, NEW b \in Bindings, Enter(d, b)
      PROVE  IInv'
  <2>1. CASE depth = Len(frames)
    <3>1. /\ frames' = Append(frames, FrameBind(DefaultFrame, b))
          /\ running' = Append(running, d)
          /\ depth' = depth + 1
          /\ seen' = seen
      BY <1>1, <2>1 DEF Enter
    <3>2. FrameBind(DefaultFrame, b) \in Frame
      BY DefaultTyped, BindLemma
    <3>3. TypeOK' /\ StacksAligned'
      BY <1>1, <2>1, <3>1, <3>2 DEF IInv, TypeOK, StacksAligned, Enter
    <3>4. DormantFramesEmpty'
      BY <2>1, <3>1 DEF IInv, TypeOK, DormantFramesEmpty
    <3> QED
      BY <3>3, <3>4 DEF IInv
  <2>2. CASE depth # Len(frames)
    <3>1. FrameBind(frames[depth + 1], b) \in Frame
      BY <2>2, BindLemma DEF IInv, TypeOK, StacksAligned
    <3>2. /\ frames' = [frames EXCEPT ![depth + 1] = FrameBind(frames[depth + 1], b)]
          /\ running' = [running EXCEPT ![depth + 1] = d]
          /\ depth' = depth + 1 /\ depth + 1 \in 1 .. Len(frames)
          /\ seen' = seen
      BY <1>1, <2>2 DEF Enter, IInv, TypeOK, StacksAligned
    <3>3. TypeOK' /\ StacksAligned'
      BY <1>1, <3>1, <3>2 DEF IInv, TypeOK, StacksAligned, Enter
    <3>4. DormantFramesEmpty'
      BY <3>2 DEF IInv, TypeOK, StacksAligned, DormantFramesEmpty
    <3> QED
      BY <3>3, <3>4 DEF IInv
  <2> QED
    BY <2>1, <2>2
<1>2. ASSUME NEW b \in Bindings, Insert(b)
      PROVE  IInv'
  <2>1. FrameBind(frames[depth], b) \in Frame
    BY <1>2, BindLemma DEF Insert, IInv, TypeOK, StacksAligned
  <2> QED
    BY <1>2, <2>1 DEF IInv, TypeOK, StacksAligned, DormantFramesEmpty, Insert
<1>3. ASSUME NEW n \in Names, Remove(n)
      PROVE  IInv'
  <2>1. FrameRemove(frames[depth], n) \in Frame
    BY <1>3, RemoveLemma DEF Remove, IInv, TypeOK, StacksAligned
  <2> QED
    BY <1>3, <2>1 DEF IInv, TypeOK, StacksAligned, DormantFramesEmpty, Remove
<1>4. ASSUME NEW n \in Names, Read(n)
      PROVE  IInv'
  BY <1>4, LocalGetTyped DEF IInv, TypeOK, StacksAligned, DormantFramesEmpty, Read
<1>5. ASSUME Leave
      PROVE  IInv'
  <2>1. /\ FrameRecycle(frames[depth]) \in Frame
        /\ \A m \in DOMAIN FrameRecycle(frames[depth]) :
              FrameRecycle(frames[depth])[m] = NoValue
    BY <1>5, RecycleLemma DEF Leave, IInv, TypeOK, StacksAligned
  <2> QED
    BY <1>5, <2>1 DEF IInv, TypeOK, StacksAligned, DormantFramesEmpty, Leave
<1>6. CASE UNCHANGED vars
  BY <1>6 DEF IInv, TypeOK, StacksAligned, DormantFramesEmpty, vars
<1> QED
  BY <1>1, <1>2, <1>3, <1>4, <1>5, <1>6 DEF Next

(* The two stacks and the last read always hold what the struct's types    *)
(* say, and depth never passes RECURSION_LIMIT.                            *)
THEOREM Typed == Spec => []TypeOK
<1>1. IInv => TypeOK
  BY DEF IInv
<1> QED
  BY InitInv, NextInv, <1>1, PTL DEF Spec

(* What Env's `frames` field promises of what is past `depth`: no value. *)
THEOREM DormantEmpty == Spec => []DormantFramesEmpty
<1>1. IInv => DormantFramesEmpty
  BY DEF IInv
<1> QED
  BY InitInv, NextInv, <1>1, PTL DEF Spec
-----------------------------------------------------------------------------
(* The stack read off the frames, level by level. *)
LEMMA RunningCallsLemma ==
  ASSUME depth \in Nat
  PROVE  /\ Len(RunningCalls) = depth
         /\ DOMAIN RunningCalls = 1 .. depth
         /\ \A i \in 1 .. depth :
              /\ RunningCalls[i].def = bodies[i]
              /\ RunningCalls[i].locals = [n \in Names |-> FrameGet(frames[i], n)]
BY DEF RunningCalls

(* A read answers what the promised stack answers. *)
LEMMA ReadRefines ==
  ASSUME IInv, NEW n \in Names
  PROVE  LocalGet(n) = Promise!Lookup(n)
<1> USE DEF IInv, TypeOK
<1>1. /\ Len(RunningCalls) = depth
      /\ \A i \in 1 .. depth :
           /\ RunningCalls[i].def = bodies[i]
           /\ RunningCalls[i].locals[n] = FrameGet(frames[i], n)
  BY depth \in Nat, RunningCallsLemma
<1>3. CASE depth = 0
  BY <1>1, <1>3 DEF LocalGet, Promise!Lookup
<1>4. CASE depth # 0
  <2>1. Visible(n) = Promise!Visible(n)
    BY <1>1, <1>4 DEF Visible, Promise!Visible, StacksAligned
  <2>2. \A i \in Visible(n) : RunningCalls[i].locals[n] = FrameGet(frames[i], n)
    BY <1>1 DEF Visible
  <2>3. CASE Visible(n) = {}
    BY <1>1, <1>4, <2>1, <2>3 DEF LocalGet, Promise!Lookup
  <2>4. CASE Visible(n) # {}
    <3> DEFINE nearest == CHOOSE i \in Visible(n) : \A j \in Visible(n) : j <= i
    <3>1. nearest \in Visible(n)
      <4>1. Visible(n) \subseteq 1 .. depth - 1 /\ depth - 1 \in Int
        BY DEF Visible
      <4> QED
        BY <2>4, <4>1, NearestExists
    <3>2. LocalGet(n) = IF FrameGet(frames[depth], n) # NoValue
                        THEN FrameGet(frames[depth], n)
                        ELSE FrameGet(frames[nearest], n)
      BY <1>4, <2>4 DEF LocalGet
    <3>3. Promise!Lookup(n) = IF RunningCalls[depth].locals[n] # NoValue
                              THEN RunningCalls[depth].locals[n]
                              ELSE RunningCalls[nearest].locals[n]
      BY <1>1, <1>4, <2>1, <2>4 DEF Promise!Lookup
    <3> QED
      BY <1>1, <1>4, <2>2, <3>1, <3>2, <3>3
  <2> QED
    BY <2>3, <2>4
<1> QED
  BY <1>3, <1>4

(* A level more, and the levels below as they were: a call more.           *)
LEMMA EnterLemma ==
  ASSUME depth \in Nat, depth' = depth + 1, NEW d, NEW locals,
         bodies'[depth + 1] = d,
         \A i \in 1 .. depth : frames'[i] = frames[i] /\ bodies'[i] = bodies[i],
         [n \in Names |-> FrameGet(frames'[depth + 1], n)] = locals
  PROVE  RunningCalls' = Append(RunningCalls, [def |-> d, locals |-> locals])
<1> DEFINE call == [def |-> d, locals |-> locals]
<1>1. Len(RunningCalls) = depth /\ DOMAIN RunningCalls = 1 .. depth
  BY RunningCallsLemma
<1>2. RunningCalls' = [i \in 1 .. depth + 1 |-> IF i = depth + 1 THEN call ELSE RunningCalls[i]]
  <2> DEFINE later(i) == [def |-> bodies'[i],
                          locals |-> [n \in Names |-> FrameGet(frames'[i], n)]]
  <2>1. \A i \in 1 .. depth : RunningCalls[i] = later(i)
    BY DEF RunningCalls
  <2>2. later(depth + 1) = call
    OBVIOUS
  <2>3. RunningCalls' = [i \in 1 .. depth + 1 |-> later(i)]
    BY DEF RunningCalls
  <2> HIDE DEF call, later
  <2>4. \A i \in 1 .. depth + 1 : i = depth + 1 \/ i \in 1 .. depth
    OBVIOUS
  <2> QED
    BY <2>1, <2>2, <2>3, <2>4
<1> HIDE DEF call
<1>3. Append(RunningCalls, call)
        = [i \in 1 .. depth + 1 |-> IF i = depth + 1 THEN call ELSE RunningCalls[i]]
  BY <1>1 DEF RunningCalls
<1> QED
  BY <1>2, <1>3 DEF call

(* Giving slots of the top frame values, or none, rebinds those names in   *)
(* the promised stack's top call and nothing else.                         *)
LEMMA RebindLemma ==
  ASSUME depth \in Nat \ {0}, depth' = depth, bodies' = bodies, NEW b,
         \A i \in 1 .. depth : i # depth => frames'[i] = frames[i],
         \A m : FrameGet(frames'[depth], m)
                  = IF m \in DOMAIN b THEN b[m] ELSE FrameGet(frames[depth], m)
  PROVE  RunningCalls' = [RunningCalls EXCEPT ![Len(RunningCalls)].locals =
                            [n \in Names |-> IF n \in DOMAIN b THEN b[n] ELSE @[n]]]
<1> DEFINE top    == RunningCalls[depth]
           locals == [m \in Names |-> FrameGet(frames[depth], m)]
           over   == [n \in Names |-> IF n \in DOMAIN b THEN b[n] ELSE locals[n]]
           bound  == [def |-> bodies[depth], locals |-> over]
<1>1. Len(RunningCalls) = depth /\ DOMAIN RunningCalls = 1 .. depth
  BY RunningCallsLemma
<1>2. top = [def |-> bodies[depth], locals |-> locals]
  BY DEF RunningCalls
<1>3. [top EXCEPT !.locals = over] = bound
  BY <1>2
<1>4. [m \in Names |-> FrameGet(frames'[depth], m)] = over
  OBVIOUS
<1>5. RunningCalls' = [i \in 1 .. depth |-> IF i = depth THEN bound ELSE RunningCalls[i]]
  BY <1>4 DEF RunningCalls
<1>6. [n \in Names |-> IF n \in DOMAIN b THEN b[n] ELSE RunningCalls[depth].locals[n]]
        = over
  BY <1>2
<1>7. [RunningCalls EXCEPT ![depth] = bound]
        = [i \in 1 .. depth |-> IF i = depth THEN bound ELSE RunningCalls[i]]
  BY <1>1
<1>8. [RunningCalls EXCEPT ![depth].locals = over] = [RunningCalls EXCEPT ![depth] = bound]
  BY <1>3
<1>9. RunningCalls' = [RunningCalls EXCEPT ![depth].locals = over]
  BY <1>5, <1>7, <1>8
<1> HIDE DEF bound, top
<1> QED
  BY <1>1, <1>6, <1>9, Zenon

LEMMA InitRefines == Init => Promise!Init
<1> SUFFICES ASSUME Init
             PROVE  Promise!Init
  OBVIOUS
<1>1. RunningCalls = <<>>
  BY DEF Init, RunningCalls
<1> QED
  BY <1>1 DEF Init, Promise!Init

(* Every operation on the frames is the promised one on the calls, whether *)
(* it finds its storage used or not.                                       *)
LEMMA StepRefines == IInv /\ [Next]_vars => [Promise!Next]_(Promise!vars)
<1> SUFFICES ASSUME IInv, [Next]_vars
             PROVE  [Promise!Next]_(Promise!vars)
  OBVIOUS
<1> USE FramesAssumption DEF IInv, TypeOK, StacksAligned
<1>0. /\ depth \in Nat /\ Len(RunningCalls) = depth /\ DOMAIN RunningCalls = 1 .. depth
      /\ RunningCalls \in Seq([def : Defs, locals : [Names -> Maybe]])
  <2>1. \A i \in 1 .. depth, n \in Names : FrameGet(frames[i], n) \in Maybe
    BY GetTyped
  <2> QED
    BY <2>1, RunningCallsLemma DEF RunningCalls
<1>1. ASSUME NEW d \in Defs, NEW b \in Bindings, Enter(d, b)
      PROVE  Promise!Enter(d, b)
  <2> DEFINE locals == [n \in Names |-> IF n \in DOMAIN b THEN b[n] ELSE NoValue]
  <2>1. /\ depth' = depth + 1
        /\ bodies'[depth + 1] = d
        /\ \A i \in 1 .. depth : frames'[i] = frames[i] /\ bodies'[i] = bodies[i]
    BY <1>1 DEF Enter
  <2>2. \A n \in Names : FrameGet(frames'[depth + 1], n) = locals[n]
    <3>1. CASE depth = Len(frames)
      BY <1>1, <3>1, GetDefault, DefaultTyped, BindLemma DEF Enter
    <3>2. CASE depth # Len(frames)
      <4>1. \A n : FrameGet(frames[depth + 1], n) = NoValue
        BY <3>2 DEF DormantFramesEmpty, FrameGet
      <4>2. frames[depth + 1] \in Frame /\ frames'[depth + 1] = FrameBind(frames[depth + 1], b)
        BY <1>1, <3>2 DEF Enter
      <4> QED
        BY <4>1, <4>2, BindLemma
    <3> QED
      BY <3>1, <3>2
  <2>3. RunningCalls' = Append(RunningCalls, [def |-> d, locals |-> locals])
    <3> HIDE DEF locals
    <3>1. [n \in Names |-> FrameGet(frames'[depth + 1], n)] = [n \in Names |-> locals[n]]
      BY <2>2
    <3>2. locals = [n \in Names |-> locals[n]]
      BY DEF locals
    <3> QED
      BY <1>0, <2>1, <3>1, <3>2, EnterLemma
  <2> QED
    BY <1>0, <1>1, <2>3 DEF Enter, Promise!Enter, Promise!Locals
<1>2. ASSUME NEW b \in Bindings, Insert(b)
      PROVE  Promise!Bind(b)
  <2>0. depth \in Nat \ {0} /\ depth' = depth /\ bodies' = bodies
    BY <1>2 DEF Insert
  <2>1. \A m : FrameGet(frames'[depth], m)
                  = IF m \in DOMAIN b THEN b[m] ELSE FrameGet(frames[depth], m)
    BY <1>2, BindLemma DEF Insert
  <2>2. \A i \in 1 .. depth : i # depth => frames'[i] = frames[i]
    BY <1>2 DEF Insert
  <2>3. RunningCalls' = [RunningCalls EXCEPT ![Len(RunningCalls)].locals =
                           [n \in Names |-> IF n \in DOMAIN b THEN b[n] ELSE @[n]]]
    BY <2>0, <2>1, <2>2, RebindLemma
  <2> QED
    BY <1>0, <1>2, <2>3 DEF Insert, Promise!Bind
<1>3. ASSUME NEW n \in Names, Remove(n)
      PROVE  Promise!Bind([m \in {n} |-> NoValue])
  <2> DEFINE b == [m \in {n} |-> NoValue]
  <2>0. depth \in Nat \ {0} /\ depth' = depth /\ bodies' = bodies
    BY <1>3 DEF Remove
  <2>1. \A m : FrameGet(frames'[depth], m)
                  = IF m \in DOMAIN b THEN b[m] ELSE FrameGet(frames[depth], m)
    BY <1>3, RemoveLemma DEF Remove
  <2>2. \A i \in 1 .. depth : i # depth => frames'[i] = frames[i]
    BY <1>3 DEF Remove
  <2>3. RunningCalls' = [RunningCalls EXCEPT ![Len(RunningCalls)].locals =
                           [k \in Names |-> IF k \in DOMAIN b THEN b[k] ELSE @[k]]]
    <3> HIDE DEF b
    <3> QED
      BY <2>0, <2>1, <2>2, RebindLemma
  <2> QED
    BY <1>0, <1>3, <2>3 DEF Remove, Promise!Bind
<1>4. ASSUME NEW n \in Names, Read(n)
      PROVE  Promise!Read(n)
  BY <1>4, ReadRefines DEF Read, Promise!Read, RunningCalls
<1>5. ASSUME Leave
      PROVE  Promise!Leave
  <2>1. RunningCalls' = SubSeq(RunningCalls, 1, Len(RunningCalls) - 1)
    BY <1>0, <1>5 DEF RunningCalls, Leave
  <2> QED
    BY <1>0, <1>5, <2>1 DEF Leave, Promise!Leave
<1>6. CASE UNCHANGED vars
  BY <1>6 DEF vars, Promise!vars, RunningCalls
<1>7. \A b \in Bindings : \E S \in SUBSET Names : b \in [S -> Maybe]
  BY DEF Bindings, Maybe
<1>8. \A n \in Names : {n} \in SUBSET Names /\ [m \in {n} |-> NoValue] \in [{n} -> Maybe]
  BY DEF Maybe
<1>9. Promise!Maybe = Maybe /\ Promise!Bindings = Bindings
  BY DEF Promise!Maybe, Maybe, Promise!Bindings, Bindings
<1> QED
  BY <1>1, <1>2, <1>3, <1>4, <1>5, <1>6, <1>7, <1>8, <1>9 DEF Next, Promise!Next

(* Reusing frames and definition handles is invisible to a program: what   *)
(* Env does is what a stack of fresh frames would do.                      *)
THEOREM FramesImplementCallStack == Spec => ImplementsCallStack
BY InitInv, NextInv, InitRefines, StepRefines, PTL
   DEF Spec, ImplementsCallStack, Promise!Spec
=============================================================================
