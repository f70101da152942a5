--------------------------- MODULE ControlProofs ---------------------------
(***************************************************************************)
(* For programs of any forms, bodies of any length and any depth of calls: *)
(* a gap in libjay reaches the host; the level counts the calls under way; *)
(* a throw, a break and a continue stop where they should; and every frame,*)
(* signal and level keeps its type.                                        *)
(***************************************************************************)
EXTENDS Control, SequenceTheorems, FiniteSetTheorems, WellFoundedInduction, TLAPS

(* Only an error has a kind.  That is enough: each action but the four that*)
(* handle errors asks for a signal that is none.                           *)
KindsOfErrors == sig.kind # "none" => sig.is = "err"

LEMMA KindsInit == Init => KindsOfErrors
BY DEF Init, KindsOfErrors, Run, Told

LEMMA Signalled ==
  /\ Run.kind = "none" /\ InSentence.kind = "none" /\ Answered.kind = "none"
  /\ Finished.kind = "none" /\ Run.is = "run" /\ InSentence.is = "sentence"
  /\ Answered.is = "answered" /\ Finished.is = "finished"
  /\ \A v, f : Ok(v, f).kind = "none" /\ Ok(v, f).is = "ok"
  /\ \A k : Err(k).kind = k /\ Err(k).is = "err"
BY DEF Run, InSentence, Answered, Finished, Told, Ok, Err

(* The steps that meet no error, and the four that do. *)
Met == \/ Unwind \/ Rescue \/ PassOn \/ Otherwise

LEMMA StepsMeet ==
  ASSUME Step, ~Met
  PROVE  sig.is # "err" /\ (sig'.kind # "none" => sig'.is = "err")
<1> USE Signalled
<1>1. CASE TooManySteps \/ Sentence \/ SilentSentence \/ Throw
  BY <1>1 DEF TooManySteps, Sentence, SilentSentence, Throw, Ready
<1>2. CASE \E f \in {"return", "break", "continue", "goto"} : Leave(f)
  BY <1>2 DEF Leave, Ready, Yield
<1>3. CASE \/ \E n \in 0 .. ITEMS : BeginTested("choose", TRUE, n)
           \/ \E testing \in BOOLEAN : BeginTested("while", testing, 0)
  BY <1>3 DEF BeginTested, Ready
<1>4. CASE \E catch, catcht \in BOOLEAN : BeginTry(catch, catcht)
  BY <1>4 DEF BeginTry, Ready
<1>5. CASE \/ \E n \in 0 .. ITEMS : BeginOver("for", FALSE, n)
           \/ \E testing \in BOOLEAN, n \in 0 .. ITEMS : BeginOver("select", testing, n)
  BY <1>5 DEF BeginOver, Evaluating
<1>6. CASE \E f \in {"normal", "return", "goto", "goto_by"} : Branch(f)
  BY <1>6 DEF Branch, Evaluating, Yield
<1>7. CASE Call \/ CallTooDeep \/ BeginAdverse \/ BeginExecute \/ ExecuteUnbound
  BY <1>7 DEF Call, CallTooDeep, BeginAdverse, BeginExecute, ExecuteUnbound, Calls
<1>8. CASE \E k \in {"Domain", "NotYet", "Internal"} : Refuse(k)
  BY <1>8 DEF Refuse, Evaluating
<1>9. CASE \E quiet \in BOOLEAN : EndSentence(quiet)
  BY <1>9 DEF EndSentence, Evaluating
<1>10. CASE NextSentence \/ LeaveBody \/ EndCall \/ LeaveProgram \/ EndProgram
  <2>1. CASE NextSentence
    BY <2>1 DEF NextSentence
  <2>2. CASE LeaveBody
    BY <2>2 DEF LeaveBody
  <2>3. CASE EndCall
    BY <2>3 DEF EndCall
  <2>4. CASE LeaveProgram \/ EndProgram
    BY <2>4 DEF LeaveProgram, EndProgram
  <2> QED
    BY <1>10, <2>1, <2>2, <2>3, <2>4
<1>11. CASE \E to \in 0 .. LENGTH - 1 : BranchInBody(to)
  BY <1>11 DEF BranchInBody
<1>12. CASE EndTest \/ EndRest \/ EndExecute \/ EndWhileTest
  <2>1. CASE EndTest
    BY <2>1 DEF EndTest, Blocked, GoOn, EndWith, Fail, Yield
  <2>2. CASE EndRest
    BY <2>2 DEF EndRest, Blocked, EndWith, Yield
  <2>3. CASE EndExecute
    BY <2>3 DEF EndExecute, Blocked
  <2>4. CASE EndWhileTest
    BY <2>4 DEF EndWhileTest, Blocked, GoOn, EndWith, Fail, Yield
  <2> QED
    BY <1>12, <2>1, <2>2, <2>3, <2>4
<1>13. CASE \E kind \in {"while", "for"} : EndLoopBody(kind)
  BY <1>13 DEF EndLoopBody, Blocked, GoOn, EndWith, Yield
<1>14. CASE EndSelectTest \/ EndSelectBody
  BY <1>14 DEF EndSelectTest, EndSelectBody, Blocked, GoOn, EndWith, Yield
<1> QED
  BY <1>1, <1>2, <1>3, <1>4, <1>5, <1>6, <1>7, <1>8, <1>9, <1>10, <1>11, <1>12, <1>13, <1>14
     DEF Step, Met

(* The four hand on the error they meet, or one of the signals above.      *)
LEMMA MeetingsKeep ==
  ASSUME Met, KindsOfErrors
  PROVE  /\ KindsOfErrors'
         /\ sig.kind = "NotYet" => sig' \in {sig, Finished}
<1> USE Signalled
<1>1. CASE Unwind
  BY <1>1 DEF Unwind, KindsOfErrors
<1>2. CASE Rescue
  BY <1>2 DEF Rescue, Rescues, KindsOfErrors
<1>3. CASE PassOn
  BY <1>3 DEF PassOn, KindsOfErrors
<1>4. CASE Otherwise
  BY <1>4 DEF Otherwise, KindsOfErrors
<1> QED
  BY <1>1, <1>2, <1>3, <1>4 DEF Met

LEMMA KindsNext ==
  ASSUME KindsOfErrors, [Next]_vars
  PROVE  /\ KindsOfErrors'
         /\ [sig.kind = "NotYet" => sig' \in {sig, Finished}]_vars
<1>1. CASE UNCHANGED vars
  BY <1>1 DEF KindsOfErrors, vars
<1>2. CASE Step /\ ~Met
  BY <1>2, StepsMeet DEF KindsOfErrors
<1>3. CASE Met
  BY <1>3, MeetingsKeep
<1> QED
  BY <1>1, <1>2, <1>3 DEF Next

(* An error of libjay's own gaps stays what it is until it has left the    *)
(* program: through every definition, every try whatever its rescues       *)
(* (Control::Try), and every adverse (Verb::Adverse).                      *)
THEOREM GapsAlwaysGetThrough == Spec => GapsGetThrough
<1>1. KindsOfErrors /\ [Next]_vars
        => KindsOfErrors' /\ [sig.kind = "NotYet" => sig' \in {sig, Finished}]_vars
  BY KindsNext
<1> QED
  BY <1>1, KindsInit, PTL DEF Spec, GapsGetThrough
-----------------------------------------------------------------------------
(* Levels.  A count of bodies depends on nothing but which frames are      *)
(* bodies.                                                                 *)
IsSeq(s)    == \E S : s \in Seq(S)
Upto(s, n)  == Cardinality({k \in 1 .. n : s[k].kind = "body"})
Level(f)    == IF f.kind = "body" THEN 1 ELSE 0

LEMMA UptoCounts ==
  ASSUME NEW s, NEW n \in Nat
  PROVE  /\ Upto(s, n) \in Nat
         /\ Upto(s, 0) = 0
         /\ Upto(s, n + 1) = Upto(s, n) + Level(s[n + 1])
<1>1. \A m \in Nat : IsFiniteSet({k \in 1 .. m : s[k].kind = "body"})
  <2> SUFFICES ASSUME NEW m \in Nat PROVE IsFiniteSet({k \in 1 .. m : s[k].kind = "body"})
    OBVIOUS
  <2>1. IsFiniteSet(1 .. m)
    BY FS_Interval
  <2> QED
    BY <2>1, FS_Subset
<1>2. Upto(s, n) \in Nat
  BY <1>1, FS_CardinalityType DEF Upto
<1>3. Upto(s, 0) = 0
  <2>1. {k \in 1 .. 0 : s[k].kind = "body"} = {}
    OBVIOUS
  <2> QED
    BY <2>1, FS_EmptySet DEF Upto
<1>4. CASE s[n + 1].kind = "body"
  <2>1. {k \in 1 .. n + 1 : s[k].kind = "body"} = {k \in 1 .. n : s[k].kind = "body"} \cup {n + 1}
    BY <1>4
  <2>2. n + 1 \notin {k \in 1 .. n : s[k].kind = "body"}
    OBVIOUS
  <2>3. Upto(s, n + 1) = Upto(s, n) + 1
    BY <1>1, <2>1, <2>2, FS_AddElement DEF Upto
  <2> QED
    BY <1>2, <1>3, <1>4, <2>3 DEF Level
<1>5. CASE s[n + 1].kind # "body"
  <2>1. {k \in 1 .. n + 1 : s[k].kind = "body"} = {k \in 1 .. n : s[k].kind = "body"}
    BY <1>5
  <2>2. Upto(s, n + 1) = Upto(s, n)
    BY <2>1 DEF Upto
  <2> QED
    BY <1>2, <1>3, <1>5, <2>2 DEF Level
<1> QED
  BY <1>4, <1>5

LEMMA UptoAlike ==
  ASSUME NEW s, NEW r, NEW n, \A k \in 1 .. n : Level(s[k]) = Level(r[k])
  PROVE  Upto(s, n) = Upto(r, n)
<1>1. \A k \in 1 .. n : s[k].kind = "body" <=> r[k].kind = "body"
  BY DEF Level
<1>2. {k \in 1 .. n : s[k].kind = "body"} = {k \in 1 .. n : r[k].kind = "body"}
  BY <1>1
<1> QED
  BY <1>2 DEF Upto

LEMMA BodiesUpto ==
  ASSUME NEW s, IsSeq(s)
  PROVE  /\ Len(s) \in Nat /\ DOMAIN s = 1 .. Len(s)
         /\ Bodies(s) = Upto(s, Len(s))
         /\ \A n \in 0 .. Len(s) : Bodies(SubSeq(s, 1, n)) = Upto(s, n)
<1>1. PICK S : s \in Seq(S)
  BY DEF IsSeq
<1>2. Len(s) \in Nat /\ DOMAIN s = 1 .. Len(s)
  BY <1>1
<1>3. Bodies(s) = Upto(s, Len(s))
  BY <1>2 DEF Bodies, Upto
<1>4. ASSUME NEW n \in 0 .. Len(s)
      PROVE  Bodies(SubSeq(s, 1, n)) = Upto(s, n)
  <2>1. /\ DOMAIN SubSeq(s, 1, n) = 1 .. n
        /\ \A k \in 1 .. n : SubSeq(s, 1, n)[k] = s[k]
    BY <1>1, <1>2, SubSeqProperties
  <2>2. {k \in DOMAIN SubSeq(s, 1, n) : SubSeq(s, 1, n)[k].kind = "body"} = {k \in 1 .. n : s[k].kind = "body"}
    BY <2>1
  <2> QED
    BY <2>2 DEF Bodies, Upto
<1> QED
  BY <1>2, <1>3, <1>4

(* One frame more, the top taken off, and another frame for it.            *)
More(s, f)  == Append(s, f)
Fewer(s)    == SubSeq(s, 1, Len(s) - 1)
Other(s, f) == [s EXCEPT ![Len(s)] = f]

LEMMA Longer ==
  ASSUME NEW s, IsSeq(s), NEW f
  PROVE  /\ IsSeq(More(s, f)) /\ Len(More(s, f)) = Len(s) + 1 /\ More(s, f)[Len(s) + 1] = f
         /\ \A i \in 1 .. Len(s) : More(s, f)[i] = s[i]
<1> DEFINE r == Append(s, f)
<1>1. PICK S : s \in Seq(S)
  BY DEF IsSeq
<1> DEFINE T == S \cup {f}
<1>2. s \in Seq(T) /\ f \in T /\ Len(s) \in Nat
  BY <1>1
<1> HIDE DEF T
<1>3. r \in Seq(T) /\ Len(r) = Len(s) + 1 /\ r[Len(s) + 1] = f /\ \A i \in 1 .. Len(s) : r[i] = s[i]
  BY <1>2
<1> QED
  BY <1>3 DEF IsSeq, More

LEMMA NotEmpty ==
  ASSUME NEW s, IsSeq(s), s # <<>>
  PROVE  Len(s) \in Nat \ {0} /\ \A i \in 1 .. Len(s) : i \in 1 .. Len(s) - 1 \/ i = Len(s)
<1>1. PICK S : s \in Seq(S)
  BY DEF IsSeq
<1>2. Len(s) \in Nat \ {0}
  BY <1>1
<1> QED
  BY <1>2

LEMMA Shorter ==
  ASSUME NEW s, IsSeq(s), s # <<>>
  PROVE  /\ IsSeq(Fewer(s)) /\ Len(Fewer(s)) = Len(s) - 1
         /\ \A i \in 1 .. Len(s) - 1 : Fewer(s)[i] = s[i]
<1> DEFINE n == Len(s) - 1
           r == SubSeq(s, 1, n)
<1>1. PICK S : s \in Seq(S)
  BY DEF IsSeq
<1>2. n \in Nat
  BY <1>1
<1>3. \A i \in 1 .. n : s[i] \in S
  BY <1>1
<1> HIDE DEF n
<1>4. /\ r \in Seq(S) /\ Len(r) = IF 1 <= n THEN n - 1 + 1 ELSE 0
      /\ \A i \in 1 .. n - 1 + 1 : r[i] = s[1 + i - 1]
  BY <1>2, <1>3, SubSeqProperties
<1> HIDE DEF r
<1>5. n - 1 + 1 = n /\ \A i \in 1 .. n : 1 + i - 1 = i
  BY <1>2
<1>6. Len(r) = n
  BY <1>2, <1>4, <1>5
<1>7. \A i \in 1 .. n : r[i] = s[i]
  BY <1>4, <1>5
<1> QED
  BY <1>4, <1>6, <1>7 DEF IsSeq, Fewer, r, n

LEMMA Exchanged ==
  ASSUME NEW s, IsSeq(s), s # <<>>, NEW f
  PROVE  /\ IsSeq(Other(s, f)) /\ Len(Other(s, f)) = Len(s) /\ Other(s, f)[Len(s)] = f
         /\ \A i \in 1 .. Len(s) - 1 : Other(s, f)[i] = s[i]
<1> DEFINE r == [s EXCEPT ![Len(s)] = f]
<1>1. PICK S : s \in Seq(S)
  BY DEF IsSeq
<1> DEFINE T == S \cup {f}
<1>2. s \in Seq(T) /\ f \in T /\ Len(s) \in Nat /\ Len(s) > 0
  BY <1>1
<1> HIDE DEF T
<1>3. r \in Seq(T) /\ Len(r) = Len(s) /\ \A i \in 1 .. Len(s) : r[i] = IF i = Len(s) THEN f ELSE s[i]
  BY <1>2, ExceptSeq
<1>4. IsSeq(r)
  BY <1>3 DEF IsSeq
<1> HIDE DEF r
<1>5. r[Len(s)] = f /\ \A i \in 1 .. Len(s) - 1 : r[i] = s[i]
  BY <1>2, <1>3
<1> QED
  BY <1>3, <1>4, <1>5 DEF Other, r
-----------------------------------------------------------------------------
(* What a step does to the stack and the level: nothing; another frame for *)
(* the one on top, no body for what was none; the top taken off, with its  *)
(* level; or a frame more, with its own.                                   *)
Shaped(f)   == "kind" \in DOMAIN f /\ (f.kind = "try" => "here" \in DOMAIN f)
Keeps(f, g) == Shaped(g) /\ g.kind = f.kind /\ (f.kind = "try" => g.here = f.here)

Stays    == stack' = stack /\ depth' = depth
Replaces == \E g : /\ stack' = Other(stack, g) /\ depth' = depth
                   /\ \/ Keeps(Top, g)
                      \/ Shaped(g) /\ Top.kind # "body" /\ g.kind \in {"rest", "otherwise"}
Pops     == stack' = Fewer(stack) /\ depth' = depth - Level(Top)
Pushes   == \E f, g : /\ stack' = More(Other(stack, g), f)
                      /\ Keeps(Top, g) /\ Shaped(f) /\ f.kind # "program"
                      /\ f.kind = "try" => f.here = depth
                      /\ depth' = depth + Level(f)

LevelInv ==
  /\ IsSeq(stack)
  /\ \A i \in 1 .. Len(stack) : Shaped(stack[i])
  /\ \A i \in 2 .. Len(stack) : stack[i].kind # "program"
  /\ depth = Upto(stack, Len(stack))
  /\ \A i \in 1 .. Len(stack) : stack[i].kind = "try" => stack[i].here = Upto(stack, i)

LEMMA LevelsKept ==
  ASSUME LevelInv, stack # <<>>, Stays \/ Replaces \/ Pops \/ Pushes
  PROVE  LevelInv'
<1>1. /\ Len(stack) \in Nat \ {0} /\ IsSeq(stack)
      /\ \A i \in 1 .. Len(stack) : i \in 1 .. Len(stack) - 1 \/ i = Len(stack)
  BY NotEmpty DEF LevelInv
<1>2. CASE Stays
  BY <1>2 DEF Stays, LevelInv
<1>3. CASE Replaces
  <2>1. PICK g : /\ stack' = Other(stack, g) /\ depth' = depth
                 /\ \/ Keeps(Top, g)
                    \/ Shaped(g) /\ Top.kind # "body" /\ g.kind \in {"rest", "otherwise"}
    BY <1>3 DEF Replaces
  <2>2. /\ IsSeq(stack') /\ Len(stack') = Len(stack) /\ stack'[Len(stack)] = g
        /\ \A i \in 1 .. Len(stack) - 1 : stack'[i] = stack[i]
    BY <1>1, <2>1, Exchanged
  <2>3. Level(g) = Level(Top) /\ Shaped(g)
    BY <2>1 DEF Keeps, Level
  <2>4. \A i \in 1 .. Len(stack) : Level(stack'[i]) = Level(stack[i])
    BY <1>1, <2>2, <2>3 DEF Top
  <2>5. \A i \in 1 .. Len(stack) : Upto(stack', i) = Upto(stack, i)
    <3> SUFFICES ASSUME NEW i \in 1 .. Len(stack) PROVE Upto(stack', i) = Upto(stack, i)
      OBVIOUS
    <3>1. \A k \in 1 .. i : Level(stack'[k]) = Level(stack[k])
      BY <1>1, <2>4
    <3> QED
      BY <3>1, UptoAlike
  <2>6. /\ g.kind = "try" => Top.kind = "try" /\ g.here = Top.here
        /\ g.kind = "program" => Top.kind = "program"
    BY <2>1 DEF Keeps
  <2>7. \A i \in 1 .. Len(stack) :
          /\ stack'[i].kind = "try" => stack[i].kind = "try" /\ stack'[i].here = stack[i].here
          /\ stack'[i].kind = "program" => stack[i].kind = "program"
    BY <1>1, <2>2, <2>6 DEF Top
  <2>8. \A i \in 1 .. Len(stack) : Shaped(stack'[i])
    BY <1>1, <2>2, <2>3 DEF LevelInv
  <2> QED
    BY <1>1, <2>1, <2>2, <2>5, <2>7, <2>8 DEF LevelInv
<1>4. CASE Pops
  <2>1. /\ IsSeq(stack') /\ Len(stack') = Len(stack) - 1
        /\ \A i \in 1 .. Len(stack) - 1 : stack'[i] = stack[i]
    BY <1>1, <1>4, Shorter DEF Pops
  <2>2. \A i \in 0 .. Len(stack) - 1 : Upto(stack', i) = Upto(stack, i)
    <3> SUFFICES ASSUME NEW i \in 0 .. Len(stack) - 1 PROVE Upto(stack', i) = Upto(stack, i)
      OBVIOUS
    <3>1. \A k \in 1 .. i : Level(stack'[k]) = Level(stack[k])
      BY <1>1, <2>1
    <3> QED
      BY <3>1, UptoAlike
  <2>3. Upto(stack, Len(stack)) = Upto(stack, Len(stack) - 1) + Level(Top) /\ Upto(stack, Len(stack) - 1) \in Nat
    <3>1. Len(stack) - 1 \in Nat /\ Len(stack) - 1 + 1 = Len(stack)
      BY <1>1
    <3> QED
      BY <3>1, UptoCounts DEF Top
  <2>4. depth' = Upto(stack', Len(stack'))
    BY <1>1, <1>4, <2>1, <2>2, <2>3 DEF LevelInv, Pops, Level
  <2> QED
    BY <1>1, <2>1, <2>2, <2>4 DEF LevelInv
<1>5. CASE Pushes
  <2>1. PICK f, g : /\ stack' = More(Other(stack, g), f)
                    /\ Keeps(Top, g) /\ Shaped(f) /\ f.kind # "program"
                    /\ f.kind = "try" => f.here = depth
                    /\ depth' = depth + Level(f)
    BY <1>5 DEF Pushes
  <2> DEFINE mid == Other(stack, g)
  <2>2. /\ IsSeq(mid) /\ Len(mid) = Len(stack) /\ mid[Len(stack)] = g
        /\ \A i \in 1 .. Len(stack) - 1 : mid[i] = stack[i]
    BY <1>1, Exchanged
  <2>3. stack' = More(mid, f)
    BY <2>1
  <2> HIDE DEF mid
  <2>4. /\ IsSeq(stack') /\ Len(stack') = Len(stack) + 1 /\ stack'[Len(stack) + 1] = f
        /\ \A i \in 1 .. Len(stack) : stack'[i] = mid[i]
    BY <2>2, <2>3, Longer
  <2>5. \A i \in 1 .. Len(stack) :
          /\ Level(stack'[i]) = Level(stack[i]) /\ Shaped(stack'[i])
          /\ stack'[i].kind = stack[i].kind
          /\ stack[i].kind = "try" => stack'[i].here = stack[i].here
    BY <1>1, <2>1, <2>2, <2>4 DEF Keeps, Level, Top, LevelInv
  <2>6. \A i \in 1 .. Len(stack) : Upto(stack', i) = Upto(stack, i)
    <3> SUFFICES ASSUME NEW i \in 1 .. Len(stack) PROVE Upto(stack', i) = Upto(stack, i)
      OBVIOUS
    <3>1. \A k \in 1 .. i : Level(stack'[k]) = Level(stack[k])
      BY <1>1, <2>5
    <3> QED
      BY <3>1, UptoAlike
  <2>7. Upto(stack', Len(stack) + 1) = Upto(stack', Len(stack)) + Level(f)
    BY <1>1, <2>4, UptoCounts
  <2>8. depth' = Upto(stack', Len(stack')) /\ (f.kind = "try" => f.here = Upto(stack', Len(stack')))
    <3>1. Len(stack) \in 1 .. Len(stack) /\ Upto(stack, Len(stack)) \in Nat
      BY <1>1, UptoCounts
    <3>2. Upto(stack', Len(stack')) = depth + Level(f)
      BY <1>1, <2>4, <2>6, <2>7, <3>1 DEF LevelInv
    <3>3. depth \in Nat /\ (f.kind = "try" => Level(f) = 0)
      BY <3>1 DEF LevelInv, Level
    <3> QED
      BY <2>1, <3>2, <3>3
  <2>9. \A i \in 1 .. Len(stack') : i \in 1 .. Len(stack) \/ i = Len(stack) + 1
    BY <1>1, <2>4
  <2>10. \A i \in 2 .. Len(stack') : stack'[i].kind # "program"
    <3> SUFFICES ASSUME NEW i \in 2 .. Len(stack') PROVE stack'[i].kind # "program"
      OBVIOUS
    <3>1. i \in 2 .. Len(stack) \/ i = Len(stack) + 1
      BY <1>1, <2>4
    <3> QED
      BY <1>1, <2>1, <2>4, <2>5, <3>1 DEF LevelInv
  <2>11. \A i \in 1 .. Len(stack') :
           /\ Shaped(stack'[i])
           /\ stack'[i].kind = "try" => stack'[i].here = Upto(stack', i)
    <3> SUFFICES ASSUME NEW i \in 1 .. Len(stack')
                 PROVE  Shaped(stack'[i]) /\ (stack'[i].kind = "try" => stack'[i].here = Upto(stack', i))
      OBVIOUS
    <3>1. CASE i \in 1 .. Len(stack)
      BY <2>5, <2>6, <3>1 DEF LevelInv
    <3>2. CASE i = Len(stack) + 1
      BY <2>1, <2>4, <2>8, <3>2
    <3> QED
      BY <2>9, <3>1, <3>2
  <2>12. IsSeq(stack') /\ depth' = Upto(stack', Len(stack'))
    BY <2>4, <2>8
  <2>13. \A i \in 1 .. Len(stack') : Shaped(stack'[i])
    BY <2>11
  <2>14. \A i \in 1 .. Len(stack') : stack'[i].kind = "try" => stack'[i].here = Upto(stack', i)
    BY <2>11
  <2> QED
    BY <2>10, <2>12, <2>13, <2>14 DEF LevelInv
<1> QED
  BY <1>2, <1>3, <1>4, <1>5

(* The steps, one by one. *)
LEMMA Exceptions ==
  ASSUME NEW f, Shaped(f), NEW a, NEW b, NEW c
  PROVE  /\ Keeps(f, f)
         /\ Keeps(f, [f EXCEPT !.steps = a])
         /\ Keeps(f, [f EXCEPT !.block = a])
         /\ Keeps(f, [f EXCEPT !.left = a, !.block = b])
         /\ Keeps(f, [f EXCEPT !.testing = a, !.block = b])
         /\ Keeps(f, [f EXCEPT !.testing = a, !.held = b, !.block = c])
BY DEF Keeps, Shaped

LEMMA Itself ==
  ASSUME NEW s, IsSeq(s), s # <<>>
  PROVE  Other(s, s[Len(s)]) = s
<1>1. PICK S : s \in Seq(S)
  BY DEF IsSeq
<1> QED
  BY <1>1 DEF Other

LEMMA TopShaped ==
  ASSUME LevelInv, stack # <<>>
  PROVE  Shaped(Top) /\ depth \in Nat /\ Keeps(Top, Top)
<1>1. Len(stack) \in Nat \ {0} /\ Len(stack) \in 1 .. Len(stack)
  BY NotEmpty DEF LevelInv
<1>2. Shaped(Top)
  BY <1>1 DEF LevelInv, Top
<1>3. depth \in Nat
  BY <1>1, UptoCounts DEF LevelInv
<1> QED
  BY <1>2, <1>3 DEF Keeps

LEMMA Replacing ==
  ASSUME NEW g, Replace(g), depth' = depth,
         Keeps(Top, g) \/ (Shaped(g) /\ Top.kind # "body" /\ g.kind \in {"rest", "otherwise"})
  PROVE  Replaces
BY DEF Replace, Replaces, Other

LEMMA Beginning ==
  ASSUME LevelInv, stack # <<>>, NEW f, Begin(f),
         Shaped(f), f.kind \notin {"program", "body"}, f.kind = "try" => f.here = depth, depth' = depth
  PROVE  Pushes
<1>1. Keeps(Top, Counted)
  BY TopShaped, Exceptions DEF Counted
<1>2. depth' = depth + Level(f)
  BY TopShaped DEF Level
<1> QED
  BY <1>1, <1>2 DEF Begin, Pushes, More, Other

LEMMA Pushing ==
  ASSUME LevelInv, stack # <<>>, NEW f, Push(f),
         Shaped(f), f.kind \notin {"program", "try"}, depth' = depth + Level(f)
  PROVE  Pushes
<1>1. Other(stack, Top) = stack
  BY Itself DEF LevelInv, Top
<1>2. stack' = More(Other(stack, Top), f)
  BY <1>1 DEF Push, More
<1> QED
  BY <1>2, TopShaped DEF Pushes

LEMMA Popping ==
  ASSUME LevelInv, stack # <<>>, Pop, depth' = depth, Top.kind # "body"
  PROVE  Pops
BY TopShaped DEF Pop, Under, Pops, Fewer, Level

LEMMA Steps ==
  ASSUME LevelInv, Step, stack # <<>>
  PROVE  Stays \/ Replaces \/ Pops \/ Pushes
<1> USE TopShaped
<1> DEFINE Goal == Stays \/ Replaces \/ Pops \/ Pushes
<1>a. Keeps(Top, Counted)
  BY Exceptions DEF Counted
<1>b. \A a : Keeps(Top, [Top EXCEPT !.block = a])
  BY Exceptions
<1>c. \A a, b : Keeps(Top, [Top EXCEPT !.left = a, !.block = b]) /\ Keeps(Top, [Top EXCEPT !.testing = a, !.block = b])
  BY Exceptions
<1>d. \A a, b, c : Keeps(Top, [Top EXCEPT !.testing = a, !.held = b, !.block = c])
  BY Exceptions
<1>e. \A k \in {"rest", "otherwise"} : Shaped([kind |-> k, block |-> EmptyBlock])
  BY DEF Shaped
<1>1. CASE TooManySteps \/ CallTooDeep \/ LeaveProgram
  BY <1>1 DEF TooManySteps, CallTooDeep, LeaveProgram, Stays
<1>2. CASE Sentence \/ SilentSentence \/ Throw
  BY <1>2, <1>a, Replacing DEF Sentence, SilentSentence, Throw
<1>3. CASE \E f \in {"return", "break", "continue", "goto"} : Leave(f)
  BY <1>3, <1>a, Replacing DEF Leave
<1>4. ASSUME NEW kind \in {"choose", "while"}, NEW testing, NEW n, BeginTested(kind, testing, n)
      PROVE  Goal
  <2> DEFINE f == [kind |-> kind, block |-> EmptyBlock, testing |-> testing, held |-> "none", left |-> n]
  <2>1. Shaped(f) /\ f.kind = kind
    BY DEF Shaped
  <2>2. Begin(f) /\ depth' = depth
    BY <1>4 DEF BeginTested
  <2> HIDE DEF f
  <2> QED
    BY <2>1, <2>2, Beginning
<1>5. ASSUME NEW catch, NEW catcht, BeginTry(catch, catcht)
      PROVE  Goal
  <2> DEFINE f == [kind |-> "try", block |-> EmptyBlock, here |-> depth, catch |-> catch, catcht |-> catcht]
  <2>1. Shaped(f) /\ f.kind = "try" /\ f.here = depth
    BY DEF Shaped
  <2>2. Begin(f) /\ depth' = depth
    BY <1>5 DEF BeginTry
  <2> HIDE DEF f
  <2> QED
    BY <2>1, <2>2, Beginning
<1>6. ASSUME NEW kind \in {"for", "select"}, NEW testing, NEW n, BeginOver(kind, testing, n)
      PROVE  Goal
  <2> DEFINE f == [kind |-> kind, block |-> EmptyBlock, testing |-> testing, held |-> "none", left |-> n]
  <2>1. Shaped(f) /\ f.kind = kind
    BY DEF Shaped
  <2>2. Push(f) /\ depth' = depth
    BY <1>6 DEF BeginOver
  <2> HIDE DEF f
  <2>3. Level(f) = 0
    BY <2>1 DEF Level
  <2> QED
    BY <2>1, <2>2, <2>3, Pushing
<1>7. CASE \E f \in {"normal", "return", "goto", "goto_by"} : Branch(f)
  BY <1>7 DEF Branch, Stays
<1>8. CASE Call
  <2> DEFINE f == [kind |-> "body", block |-> EmptyBlock, steps |-> 0]
  <2>1. Shaped(f) /\ f.kind = "body" /\ Level(f) = 1
    BY DEF Shaped, Level
  <2>2. Push(f) /\ depth' = depth + 1
    BY <1>8 DEF Call
  <2> HIDE DEF f
  <2> QED
    BY <2>1, <2>2, Pushing
<1>9. CASE BeginAdverse \/ BeginExecute
  <2>1. PICK k \in {"adverse", "execute"} : Push([kind |-> k, block |-> EmptyBlock]) /\ depth' = depth
    BY <1>9 DEF BeginAdverse, BeginExecute
  <2> DEFINE f == [kind |-> k, block |-> EmptyBlock]
  <2>2. Shaped(f) /\ f.kind = k /\ Level(f) = 0 /\ Push(f)
    BY <2>1 DEF Shaped, Level
  <2> HIDE DEF f
  <2> QED
    BY <2>1, <2>2, Pushing
<1>10. CASE ExecuteUnbound
  BY <1>10, Popping DEF ExecuteUnbound
<1>11. CASE \E k \in {"Domain", "NotYet", "Internal"} : Refuse(k)
  BY <1>11 DEF Refuse, Stays
<1>12. CASE \E quiet \in BOOLEAN : EndSentence(quiet)
  BY <1>12, Popping DEF EndSentence, Stays
<1>13. CASE NextSentence \/ LeaveBody
  BY <1>13, <1>b, Replacing DEF NextSentence, LeaveBody
<1>14. CASE EndCall
  BY <1>14 DEF EndCall, Pop, Under, Pops, Fewer, Level
<1>15. CASE EndProgram
  BY <1>15, Popping DEF EndProgram
<1>16. CASE \E to \in 0 .. LENGTH - 1 : BranchInBody(to)
  BY <1>16, <1>b, Replacing DEF BranchInBody
<1>17. CASE EndTest
  <2>1. CASE GoOn([kind |-> "rest", block |-> EmptyBlock])
    BY <1>17, <1>e, <2>1, Replacing DEF EndTest, Blocked, GoOn
  <2>2. CASE GoOn([Top EXCEPT !.left = @ - 1, !.block = EmptyBlock])
    BY <1>17, <1>c, <2>2, Replacing DEF EndTest, GoOn
  <2>3. CASE Pop
    BY <1>17, <2>3, Popping DEF EndTest, Blocked
  <2> QED
    BY <1>17, <2>1, <2>2, <2>3 DEF EndTest, Fail
<1>18. CASE EndRest \/ EndExecute
  BY <1>18, Popping DEF EndRest, EndExecute, Blocked, EndWith
<1>19. CASE EndWhileTest
  <2>1. CASE Pop
    BY <1>19, <2>1, Popping DEF EndWhileTest, Blocked
  <2>2. CASE ~Pop
    BY <1>19, <1>c, <2>2, Replacing DEF EndWhileTest, GoOn, EndWith, Fail
  <2> QED
    BY <2>1, <2>2
<1>20. CASE \E kind \in {"while", "for"} : EndLoopBody(kind)
  <2>1. PICK kind \in {"while", "for"} : EndLoopBody(kind)
    BY <1>20
  <2>2. CASE Pop
    BY <2>1, <2>2, Popping DEF EndLoopBody, Blocked
  <2>3. CASE ~Pop
    BY <1>c, <1>d, <2>1, <2>3, Replacing DEF EndLoopBody, GoOn, EndWith
  <2> QED
    BY <2>2, <2>3
<1>21. CASE EndSelectTest \/ EndSelectBody
  <2>1. CASE Pop
    BY <1>21, <2>1, Popping DEF EndSelectTest, EndSelectBody, Blocked
  <2>2. CASE ~Pop
    BY <1>21, <1>c, <2>2, Replacing DEF EndSelectTest, EndSelectBody, GoOn, EndWith
  <2> QED
    BY <2>1, <2>2
<1>22. CASE Unwind
  BY <1>22 DEF Unwind, Pop, Under, Pops, Fewer, Level
<1>23. CASE Rescue
  BY <1>23, <1>e, Replacing DEF Rescue
<1>24. CASE PassOn
  BY <1>24, Popping DEF PassOn
<1>25. CASE Otherwise
  BY <1>25, <1>e, Replacing DEF Otherwise
<1>26. CASE \/ \E n \in 0 .. ITEMS : BeginTested("choose", TRUE, n)
            \/ \E testing \in BOOLEAN : BeginTested("while", testing, 0)
  <2>1. \E kind \in {"choose", "while"} : \E testing, n : BeginTested(kind, testing, n)
    BY <1>26
  <2> QED
    BY <2>1, <1>4
<1>27. CASE \E catch, catcht \in BOOLEAN : BeginTry(catch, catcht)
  BY <1>27, <1>5
<1>28. CASE \/ \E n \in 0 .. ITEMS : BeginOver("for", FALSE, n)
            \/ \E testing \in BOOLEAN, n \in 0 .. ITEMS : BeginOver("select", testing, n)
  <2>1. \E kind \in {"for", "select"} : \E testing, n : BeginOver(kind, testing, n)
    BY <1>28
  <2> QED
    BY <2>1, <1>6
<1> QED
  BY <1>1, <1>2, <1>3, <1>7, <1>8, <1>9, <1>10, <1>11, <1>12, <1>13, <1>14, <1>15, <1>16,
     <1>17, <1>18, <1>19, <1>20, <1>21, <1>22, <1>23, <1>24, <1>25, <1>26, <1>27, <1>28
     DEF Step

LEMMA LevelInit == Init => LevelInv
<1> SUFFICES ASSUME Init PROVE LevelInv
  OBVIOUS
<1> DEFINE f == [kind |-> "program", block |-> EmptyBlock]
<1>1. stack = <<f>> /\ depth = 0 /\ f.kind = "program" /\ Shaped(f)
  BY DEF Init, Shaped
<1> HIDE DEF f
<1>2. IsSeq(stack) /\ Len(stack) = 1 /\ stack[1] = f
  <2>1. stack \in Seq({f})
    BY <1>1
  <2> QED
    BY <1>1, <2>1 DEF IsSeq
<1>3. Upto(stack, 1) = 0
  <2>1. Upto(stack, 0 + 1) = Upto(stack, 0) + Level(stack[0 + 1]) /\ Upto(stack, 0) = 0
    BY UptoCounts
  <2> QED
    BY <1>1, <1>2, <2>1 DEF Level
<1>4. \A i \in 1 .. 1 : i = 1
  OBVIOUS
<1> QED
  BY <1>1, <1>2, <1>3, <1>4 DEF LevelInv

LEMMA LevelNext == LevelInv /\ [Next]_vars => LevelInv'
<1>1. CASE UNCHANGED vars
  BY <1>1 DEF LevelInv, vars
<1>2. CASE ~Ended /\ Step
  BY <1>2, Steps, LevelsKept DEF Ended
<1> QED
  BY <1>1, <1>2 DEF Next

LEMMA LevelMeans == LevelInv => DepthBalanced
<1> SUFFICES ASSUME LevelInv PROVE DepthBalanced
  OBVIOUS
<1>1. /\ Len(stack) \in Nat /\ DOMAIN stack = 1 .. Len(stack)
      /\ Bodies(stack) = Upto(stack, Len(stack))
      /\ \A n \in 0 .. Len(stack) : Bodies(SubSeq(stack, 1, n)) = Upto(stack, n)
  BY BodiesUpto DEF LevelInv
<1>2. \A i \in 1 .. Len(stack) : i \in 0 .. Len(stack)
  BY <1>1
<1> QED
  BY <1>1, <1>2 DEF LevelInv, DepthBalanced

(* However deep the calls and whatever a program's forms, every way out of *)
(* a definition gives back its level and no more (Env::enter and leave in  *)
(* call_explicit), and a try keeps the level it is really at.              *)
THEOREM DepthBalancedAlways == Spec => []DepthBalanced
BY LevelInit, LevelNext, LevelMeans, PTL DEF Spec
-----------------------------------------------------------------------------
(* Where throws and breaks stop.  Which frames stop one is read off the    *)
(* frame and its level, so that it changes at the top of the stack only.   *)
Takes(f, level, d) == f.kind = "adverse" \/ (f.kind = "try" /\ f.catcht /\ level < d)
Holds(f) == \/ f.kind \in {"while", "for"} /\ ~f.testing
            \/ f.kind \in {"body", "execute", "program"}

LEMMA TakersOf ==
  ASSUME NEW s, IsSeq(s), NEW d
  PROVE  /\ Takers(s, d) = {i \in 1 .. Len(s) : Takes(s[i], Upto(s, i), d)}
         /\ Loops(s) = {i \in 1 .. Len(s) : Holds(s[i])}
<1>1. /\ Len(s) \in Nat /\ DOMAIN s = 1 .. Len(s)
      /\ \A n \in 0 .. Len(s) : Bodies(SubSeq(s, 1, n)) = Upto(s, n)
  BY BodiesUpto
<1>2. \A i \in 1 .. Len(s) : Bodies(SubSeq(s, 1, i)) = Upto(s, i)
  BY <1>1
<1> QED
  BY <1>1, <1>2 DEF Takers, Takes, Loops, Holds

LEMMA TopIsInnermost ==
  ASSUME NEW n \in Nat \ {0}, NEW S, S \subseteq 1 .. n, n \in S
  PROVE  Innermost(S) = n
<1>1. \A j \in S : j <= n
  OBVIOUS
<1>2. \A i \in S : (\A j \in S : j <= i) => i = n
  OBVIOUS
<1> QED
  BY <1>1, <1>2 DEF Innermost

(* Popping a frame that stops nothing changes nothing below it.            *)
LEMMA PoppingKeeps ==
  ASSUME LevelInv, stack # <<>>, NEW d, stack' = Fewer(stack)
  PROVE  /\ ~Takes(Top, Upto(stack, Len(stack)), d) => Takers(stack', d) = Takers(stack, d)
         /\ ~Holds(Top) => Loops(stack') = Loops(stack)
<1>1. /\ Len(stack) \in Nat \ {0} /\ IsSeq(stack)
      /\ \A i \in 1 .. Len(stack) : i \in 1 .. Len(stack) - 1 \/ i = Len(stack)
  BY NotEmpty DEF LevelInv
<1>2. /\ IsSeq(stack') /\ Len(stack') = Len(stack) - 1
      /\ \A i \in 1 .. Len(stack) - 1 : stack'[i] = stack[i]
  BY <1>1, Shorter
<1>3. \A i \in 1 .. Len(stack) - 1 : Upto(stack', i) = Upto(stack, i)
  <2> SUFFICES ASSUME NEW i \in 1 .. Len(stack) - 1 PROVE Upto(stack', i) = Upto(stack, i)
    OBVIOUS
  <2>1. \A k \in 1 .. i : Level(stack'[k]) = Level(stack[k])
    BY <1>1, <1>2
  <2> QED
    BY <2>1, UptoAlike
<1>4. /\ Takers(stack, d) = {i \in 1 .. Len(stack) : Takes(stack[i], Upto(stack, i), d)}
      /\ Loops(stack) = {i \in 1 .. Len(stack) : Holds(stack[i])}
  BY <1>1, TakersOf
<1>5. /\ Takers(stack', d) = {i \in 1 .. Len(stack) - 1 : Takes(stack'[i], Upto(stack', i), d)}
      /\ Loops(stack') = {i \in 1 .. Len(stack) - 1 : Holds(stack'[i])}
  BY <1>2, TakersOf
<1>6. \A i \in 1 .. Len(stack) - 1 : i \in 1 .. Len(stack)
  BY <1>1
<1> QED
  BY <1>1, <1>2, <1>3, <1>4, <1>5, <1>6 DEF Top

LEMMA CountingKeeps ==
  ASSUME LevelInv, stack # <<>>, NEW d, Replace(Counted)
  PROVE  Takers(stack', d) = Takers(stack, d) /\ Loops(stack') = Loops(stack)
<1>1. /\ Len(stack) \in Nat \ {0} /\ IsSeq(stack)
      /\ \A i \in 1 .. Len(stack) : i \in 1 .. Len(stack) - 1 \/ i = Len(stack)
  BY NotEmpty DEF LevelInv
<1> DEFINE g == Counted
<1>2. stack' = Other(stack, g)
  BY DEF Replace, Other
<1>3. Keeps(Top, g) /\ (Top.kind # "body" => g = Top)
  BY TopShaped, Exceptions DEF Counted
<1> HIDE DEF g
<1>4. /\ IsSeq(stack') /\ Len(stack') = Len(stack) /\ stack'[Len(stack)] = g
      /\ \A i \in 1 .. Len(stack) - 1 : stack'[i] = stack[i]
  BY <1>1, <1>2, Exchanged
<1>5. \A i \in 1 .. Len(stack) :
        stack'[i].kind = stack[i].kind /\ (stack[i].kind # "body" => stack'[i] = stack[i])
  BY <1>1, <1>3, <1>4 DEF Keeps, Top
<1>6. \A i \in 1 .. Len(stack) : Upto(stack', i) = Upto(stack, i)
  <2> SUFFICES ASSUME NEW i \in 1 .. Len(stack) PROVE Upto(stack', i) = Upto(stack, i)
    OBVIOUS
  <2>1. \A k \in 1 .. i : Level(stack'[k]) = Level(stack[k])
    BY <1>1, <1>5 DEF Level
  <2> QED
    BY <2>1, UptoAlike
<1>7. \A i \in 1 .. Len(stack) : /\ Takes(stack'[i], Upto(stack', i), d) <=> Takes(stack[i], Upto(stack, i), d)
                                 /\ Holds(stack'[i]) <=> Holds(stack[i])
  BY <1>5, <1>6 DEF Takes, Holds
<1>8. /\ Takers(stack, d) = {i \in 1 .. Len(stack) : Takes(stack[i], Upto(stack, i), d)}
      /\ Loops(stack) = {i \in 1 .. Len(stack) : Holds(stack[i])}
  BY <1>1, TakersOf
<1>9. /\ Takers(stack', d) = {i \in 1 .. Len(stack) : Takes(stack'[i], Upto(stack', i), d)}
      /\ Loops(stack') = {i \in 1 .. Len(stack) : Holds(stack'[i])}
  BY <1>4, TakersOf
<1> QED
  BY <1>7, <1>8, <1>9
-----------------------------------------------------------------------------
(* While a throw is on its way, `lands` is where what is left of the stack *)
(* would stop it.                                                          *)
ThrowInv == sig.kind = "Throw" => lands = Innermost(Takers(stack, thrown))
ThrowStops == sig.kind = "Throw" /\ sig'.kind # "Throw" => Len(stack') = lands

(* No step but Throw begins one.                                           *)
LEMMA ThrowsBegin ==
  ASSUME Step, ~Met, ~Throw
  PROVE  sig'.kind # "Throw"
<1> USE Signalled
<1>1. CASE TooManySteps \/ Sentence \/ SilentSentence
  BY <1>1 DEF TooManySteps, Sentence, SilentSentence
<1>2. CASE \E f \in {"return", "break", "continue", "goto"} : Leave(f)
  BY <1>2 DEF Leave, Yield
<1>3. CASE \/ \E n \in 0 .. ITEMS : BeginTested("choose", TRUE, n)
           \/ \E testing \in BOOLEAN : BeginTested("while", testing, 0)
  BY <1>3 DEF BeginTested
<1>4. CASE \E catch, catcht \in BOOLEAN : BeginTry(catch, catcht)
  BY <1>4 DEF BeginTry
<1>5. CASE \/ \E n \in 0 .. ITEMS : BeginOver("for", FALSE, n)
           \/ \E testing \in BOOLEAN, n \in 0 .. ITEMS : BeginOver("select", testing, n)
  BY <1>5 DEF BeginOver
<1>6. CASE \E f \in {"normal", "return", "goto", "goto_by"} : Branch(f)
  BY <1>6 DEF Branch, Yield
<1>7. CASE Call \/ CallTooDeep \/ BeginAdverse \/ BeginExecute \/ ExecuteUnbound
  BY <1>7 DEF Call, CallTooDeep, BeginAdverse, BeginExecute, ExecuteUnbound, Calls
<1>8. CASE \E k \in {"Domain", "NotYet", "Internal"} : Refuse(k)
  BY <1>8 DEF Refuse
<1>9. CASE \E quiet \in BOOLEAN : EndSentence(quiet)
  BY <1>9 DEF EndSentence
<1>10. CASE NextSentence \/ LeaveBody \/ LeaveProgram \/ EndProgram
  BY <1>10 DEF NextSentence, LeaveBody, LeaveProgram, EndProgram
<1>11. CASE EndCall
  BY <1>11 DEF EndCall
<1>12. CASE \E to \in 0 .. LENGTH - 1 : BranchInBody(to)
  BY <1>12 DEF BranchInBody
<1>13. CASE EndTest
  BY <1>13 DEF EndTest, GoOn, EndWith, Fail, Yield
<1>14. CASE EndRest \/ EndExecute
  BY <1>14 DEF EndRest, EndExecute, EndWith, Yield
<1>15. CASE EndWhileTest
  BY <1>15 DEF EndWhileTest, GoOn, EndWith, Fail, Yield
<1>16. CASE \E kind \in {"while", "for"} : EndLoopBody(kind)
  BY <1>16 DEF EndLoopBody, GoOn, EndWith, Yield
<1>17. CASE EndSelectTest \/ EndSelectBody
  BY <1>17 DEF EndSelectTest, EndSelectBody, GoOn, EndWith, Yield
<1> QED
  BY <1>1, <1>2, <1>3, <1>4, <1>5, <1>6, <1>7, <1>8, <1>9, <1>10, <1>11, <1>12, <1>13, <1>14,
     <1>15, <1>16, <1>17 DEF Step, Met

LEMMA ThrowNext ==
  ASSUME LevelInv, KindsOfErrors, ThrowInv, [Next]_vars
  PROVE  ThrowInv' /\ [ThrowStops]_vars
<1> USE Signalled
<1>1. CASE UNCHANGED vars
  BY <1>1 DEF ThrowInv, vars
<1> SUFFICES ASSUME stack # <<>>, Step
             PROVE  ThrowInv' /\ ThrowStops
  BY <1>1 DEF Next, Ended
<1>2. /\ Len(stack) \in Nat \ {0} /\ Len(stack) \in 1 .. Len(stack) /\ IsSeq(stack)
      /\ Top.kind = "try" => Top.here = Upto(stack, Len(stack))
  BY NotEmpty DEF LevelInv, Top
<1>3. Takers(stack, thrown) = {i \in 1 .. Len(stack) : Takes(stack[i], Upto(stack, i), thrown)}
  BY <1>2, TakersOf
<1>4. Takes(Top, Upto(stack, Len(stack)), thrown) => Innermost(Takers(stack, thrown)) = Len(stack)
  <2>1. ASSUME Takes(Top, Upto(stack, Len(stack)), thrown)
        PROVE  Len(stack) \in Takers(stack, thrown) /\ Takers(stack, thrown) \subseteq 1 .. Len(stack)
    BY <1>2, <1>3, <2>1 DEF Top
  <2> QED
    BY <1>2, <2>1, TopIsInnermost
<1>5. ASSUME Pop, ~Takes(Top, Upto(stack, Len(stack)), thrown)
      PROVE  Takers(stack', thrown) = Takers(stack, thrown) /\ Len(stack') = Len(stack) - 1
  BY <1>2, <1>5, PoppingKeeps, Shorter DEF Pop, Under, Fewer
<1>6. CASE ~Met /\ ~Throw
  BY <1>6, ThrowsBegin, StepsMeet DEF ThrowInv, ThrowStops, KindsOfErrors
<1>7. CASE Throw
  <2>1. depth = Bodies(stack)
    BY LevelMeans DEF DepthBalanced
  <2>2. Takers(stack', depth) = Takers(stack, depth)
    BY <1>7, CountingKeeps DEF Throw
  <2>3. sig.kind = "none"
    BY <1>7 DEF Throw, Ready
  <2>4. ThrowInv'
    BY <1>7, <2>1, <2>2 DEF Throw, ThrowInv
  <2> QED
    BY <2>3, <2>4 DEF ThrowStops
<1>8. CASE Unwind
  <2>1. ~Takes(Top, Upto(stack, Len(stack)), thrown) /\ Pop
    BY <1>8 DEF Unwind, Takes
  <2>2. Takers(stack', thrown) = Takers(stack, thrown) /\ Len(stack') = Len(stack) - 1
    BY <1>5, <2>1
  <2>3. CASE Top.kind = "program"
    <3>1. Len(stack) = 1
      BY <1>2, <2>3 DEF LevelInv, Top
    <3>2. Takers(stack, thrown) = {}
      <4>1. \A i \in 1 .. 1 : i = 1
        OBVIOUS
      <4> QED
        BY <1>3, <2>1, <3>1, <4>1 DEF Top
    <3>3. Innermost(Takers(stack, thrown)) = 0
      BY <3>2 DEF Innermost
    <3> QED
      BY <1>8, <2>2, <2>3, <3>1, <3>3 DEF Unwind, ThrowInv, ThrowStops
  <2>4. CASE Top.kind # "program"
    BY <1>8, <2>2, <2>4 DEF Unwind, ThrowInv, ThrowStops
  <2> QED
    BY <2>3, <2>4
<1>9. CASE Rescue
  <2>1. sig.kind = "Throw" => Takes(Top, Upto(stack, Len(stack)), thrown)
    <3>1. Upto(stack, Len(stack)) \in Nat
      BY <1>2, UptoCounts
    <3> QED
      BY <1>2, <1>9, <3>1 DEF Rescue, Rescues, Takes
  <2>2. Len(stack') = Len(stack)
    BY <1>2, <1>9, Exchanged DEF Rescue, Replace, Other
  <2>3. sig'.kind = "none"
    BY <1>9 DEF Rescue
  <2> QED
    BY <1>4, <2>1, <2>2, <2>3 DEF ThrowInv, ThrowStops
<1>10. CASE PassOn
  <2>1. sig.kind = "Throw" => ~Takes(Top, Upto(stack, Len(stack)), thrown)
    BY <1>2, <1>10 DEF PassOn, Rescues, Takes
  <2>2. sig.kind = "Throw" => Takers(stack', thrown) = Takers(stack, thrown)
    BY <1>5, <1>10, <2>1 DEF PassOn
  <2> QED
    BY <1>10, <2>2 DEF PassOn, ThrowInv, ThrowStops
<1>11. CASE Otherwise
  <2>1. Takes(Top, Upto(stack, Len(stack)), thrown)
    BY <1>11 DEF Otherwise, Takes
  <2>2. Len(stack') = Len(stack)
    BY <1>2, <1>11, Exchanged DEF Otherwise, Replace, Other
  <2>3. sig'.kind = "none"
    BY <1>11 DEF Otherwise
  <2> QED
    BY <1>4, <2>1, <2>2, <2>3 DEF ThrowInv, ThrowStops
<1> QED
  BY <1>6, <1>7, <1>8, <1>9, <1>10, <1>11 DEF Met

(* A throw stops at the innermost catcht of a caller, or at an adverse that*)
(* comes first, and ends the program where there is neither (Control::Throw*)
(* and the comparison with `here` in Control::Try).                        *)
THEOREM ThrowStopsAlways == Spec => ThrowStopsWhereItShould
<1>1. Init => ThrowInv
  BY Signalled DEF Init, ThrowInv
<1>2. LevelInv /\ KindsOfErrors /\ ThrowInv /\ [Next]_vars => ThrowInv' /\ [ThrowStops]_vars
  BY ThrowNext
<1>3. KindsOfErrors /\ [Next]_vars => KindsOfErrors'
  BY KindsNext
<1>4. Spec => [][ThrowStops]_vars
  BY <1>1, <1>2, <1>3, KindsInit, LevelInit, LevelNext, PTL DEF Spec
<1> QED
  BY <1>4 DEF ThrowStops, ThrowStopsWhereItShould
-----------------------------------------------------------------------------
(* While a break or a continue is on its way, `lands` is the innermost of  *)
(* the frames left that stop one.                                          *)
Breaks(s)  == s.flow \in {"break", "continue"}
BreakInv   == Breaks(sig) => sig.is = "ok" /\ lands = Innermost(Loops(stack))
BreakStops == Breaks(sig) /\ sig'.flow # sig.flow => Len(stack) = lands

LEMMA Flowing ==
  /\ ~Breaks(Run) /\ ~Breaks(InSentence) /\ ~Breaks(Answered) /\ ~Breaks(Finished)
  /\ \A k : ~Breaks(Err(k))
  /\ \A v, f : Ok(v, f).flow = f
BY DEF Breaks, Run, InSentence, Answered, Finished, Told, Ok, Err

(* What a break does: it begins; it goes on past a frame that does not hold*)
(* it; or it ends at one that does.                                        *)
Begins == ~Breaks(sig) /\ sig'.is = "ok" /\ Replace(Counted) /\ lands' = Innermost(Loops(stack))
Passes == sig'.flow = sig.flow /\ sig'.is = "ok" /\ Pop /\ ~Holds(Top) /\ lands' = lands
Lands  == Holds(Top) /\ ~Breaks(sig')

LEMMA BreakSteps ==
  ASSUME Step, Breaks(sig) => sig.is = "ok", Breaks(sig) \/ Breaks(sig')
  PROVE  Begins \/ Passes \/ Lands
<1> USE Signalled, Flowing
<1> DEFINE Goal == Begins \/ Passes \/ Lands
<1>1. CASE TooManySteps \/ Sentence \/ SilentSentence \/ Throw
  BY <1>1 DEF TooManySteps, Sentence, SilentSentence, Throw, Ready, Breaks
<1>2. CASE \E f \in {"return", "break", "continue", "goto"} : Leave(f)
  BY <1>2 DEF Leave, Yield, Ready, Begins, Breaks
<1>3. CASE \/ \E n \in 0 .. ITEMS : BeginTested("choose", TRUE, n)
           \/ \E testing \in BOOLEAN : BeginTested("while", testing, 0)
  BY <1>3 DEF BeginTested, Ready
<1>4. CASE \E catch, catcht \in BOOLEAN : BeginTry(catch, catcht)
  BY <1>4 DEF BeginTry, Ready
<1>5. CASE \/ \E n \in 0 .. ITEMS : BeginOver("for", FALSE, n)
           \/ \E testing \in BOOLEAN, n \in 0 .. ITEMS : BeginOver("select", testing, n)
  BY <1>5 DEF BeginOver, Evaluating
<1>6. CASE \E f \in {"normal", "return", "goto", "goto_by"} : Branch(f)
  BY <1>6 DEF Branch, Yield, Evaluating, Breaks
<1>7. CASE Call \/ CallTooDeep \/ BeginAdverse \/ BeginExecute \/ ExecuteUnbound
  BY <1>7 DEF Call, CallTooDeep, BeginAdverse, BeginExecute, ExecuteUnbound, Calls
<1>8. CASE \E k \in {"Domain", "NotYet", "Internal"} : Refuse(k)
  BY <1>8 DEF Refuse, Evaluating
<1>9. CASE \E quiet \in BOOLEAN : EndSentence(quiet)
  BY <1>9 DEF EndSentence, Evaluating, Breaks
<1>10. CASE NextSentence \/ EndProgram
  BY <1>10 DEF NextSentence, EndProgram, Breaks
<1>11. CASE LeaveBody \/ LeaveProgram
  BY <1>11 DEF LeaveBody, LeaveProgram, Lands, Holds
<1>12. CASE EndCall
  BY <1>12 DEF EndCall
<1>13. CASE \E to \in 0 .. LENGTH - 1 : BranchInBody(to)
  BY <1>13 DEF BranchInBody, Breaks
<1>14. CASE EndTest
  BY <1>14 DEF EndTest, GoOn, EndWith, Fail, Yield, Breaks
<1>15. CASE EndRest
  BY <1>15 DEF EndRest, Blocked, EndWith, Yield, Passes, Holds, Breaks
<1>16. CASE EndExecute
  BY <1>16 DEF EndExecute, Blocked, Lands, Holds
<1>17. CASE EndWhileTest
  <2>1. CASE EndWith(came.last, sig.flow)
    BY <1>17, <2>1 DEF EndWhileTest, Blocked, EndWith, Yield, Passes, Holds, Breaks
  <2>2. CASE ~EndWith(came.last, sig.flow)
    BY <1>17, <2>2 DEF EndWhileTest, GoOn, EndWith, Fail, Yield, Breaks
  <2> QED
    BY <2>1, <2>2
<1>18. CASE \E kind \in {"while", "for"} : EndLoopBody(kind)
  <2>1. PICK kind \in {"while", "for"} : EndLoopBody(kind)
    BY <1>18
  <2>2. Holds(Top)
    BY <2>1 DEF EndLoopBody, Blocked, Holds
  <2>3. ~Breaks(sig')
    BY <2>1 DEF EndLoopBody, EndWith, GoOn, Yield, Outwards, Breaks
  <2> QED
    BY <2>2, <2>3 DEF Lands
<1>19. CASE EndSelectTest \/ EndSelectBody
  <2>1. CASE EndWith(came.last, sig.flow)
    BY <1>19, <2>1 DEF EndSelectTest, EndSelectBody, Blocked, EndWith, Yield, Passes, Holds, Breaks
  <2>2. CASE ~EndWith(came.last, sig.flow)
    BY <1>19, <2>2 DEF EndSelectTest, EndSelectBody, GoOn, EndWith, Yield, Breaks
  <2> QED
    BY <2>1, <2>2
<1>20. CASE Met
  BY <1>20 DEF Met, Unwind, Rescue, PassOn, Otherwise
<1> QED
  BY <1>1, <1>2, <1>3, <1>4, <1>5, <1>6, <1>7, <1>8, <1>9, <1>10, <1>11, <1>12, <1>13, <1>14,
     <1>15, <1>16, <1>17, <1>18, <1>19, <1>20 DEF Step, Met

LEMMA BreakNext ==
  ASSUME LevelInv, BreakInv, [Next]_vars
  PROVE  BreakInv' /\ [BreakStops]_vars
<1>1. CASE UNCHANGED vars
  BY <1>1 DEF BreakInv, Breaks, vars
<1> SUFFICES ASSUME stack # <<>>, Step
             PROVE  BreakInv' /\ BreakStops
  BY <1>1 DEF Next, Ended
<1>2. CASE ~Breaks(sig) /\ ~Breaks(sig')
  BY <1>2 DEF BreakInv, BreakStops, Breaks
<1>3. CASE Begins
  <2>1. Loops(stack') = Loops(stack)
    BY <1>3, CountingKeeps DEF Begins
  <2> QED
    BY <1>3, <2>1 DEF Begins, BreakInv, BreakStops
<1>4. CASE Passes /\ Breaks(sig)
  <2>1. Loops(stack') = Loops(stack)
    BY <1>4, PoppingKeeps DEF Passes, Pop, Under, Fewer
  <2> QED
    BY <1>4, <2>1 DEF Passes, BreakInv, BreakStops
<1>5. CASE Lands
  <2>1. Len(stack) \in Nat \ {0} /\ Len(stack) \in 1 .. Len(stack) /\ IsSeq(stack)
    BY NotEmpty DEF LevelInv
  <2>2. Loops(stack) = {i \in 1 .. Len(stack) : Holds(stack[i])}
    BY <2>1, TakersOf
  <2>3. Len(stack) \in Loops(stack) /\ Loops(stack) \subseteq 1 .. Len(stack)
    BY <1>5, <2>1, <2>2 DEF Lands, Top
  <2>4. Innermost(Loops(stack)) = Len(stack)
    BY <2>1, <2>3, TopIsInnermost
  <2> QED
    BY <1>5, <2>4 DEF Lands, BreakInv, BreakStops
<1>6. CASE Passes /\ ~Breaks(sig)
  BY <1>2, <1>6 DEF Passes, Breaks
<1> QED
  BY <1>2, <1>3, <1>4, <1>5, <1>6, BreakSteps DEF BreakInv

(* A break or a continue stops at the innermost loop whose body it is      *)
(* written in: every choice, select, try and loop test in between hands it *)
(* on, no loop takes another's, and none leaves its definition             *)
(* (Control::Break and Continue, the flow each control sentence returns).  *)
THEOREM BreakStopsAlways == Spec => BreakStopsAtItsLoop
<1>1. Init => BreakInv
  BY Flowing DEF Init, BreakInv
<1>2. LevelInv /\ BreakInv /\ [Next]_vars => BreakInv' /\ [BreakStops]_vars
  BY BreakNext
<1>3. Spec => [][BreakStops]_vars
  BY <1>1, <1>2, LevelInit, LevelNext, PTL DEF Spec
<1> QED
  BY <1>3 DEF BreakStops, Breaks, BreakStopsAtItsLoop
-----------------------------------------------------------------------------
(* Types.  A block is never taken past its end: whoever is told what a     *)
(* sentence came to is a frame that runs blocks and was in the midst of one*)
(* of its sentences, and so is each frame below, or it waits for a verb.   *)
Within    == RunsBlocks \ {"program", "body", "execute"}
Midway(f) == f.kind \in RunsBlocks => f.block.at < LENGTH

Underway ==
  /\ \A i \in 1 .. Len(stack) - 1 : Midway(stack[i])
  /\ \A i \in 2 .. Len(stack) : stack[i].kind \in Within => stack[i - 1].kind \in RunsBlocks
  /\ stack # <<>> => /\ sig # Run => Midway(Top)
                     /\ sig.is = "ok" => Top.kind \in RunsBlocks
  /\ sig.is = "run" => sig = Run

TypeInv == TypeOK /\ Underway

(* The frame a throw or a break stops at is one of the stack, or none.     *)
LEMMA InnermostOf ==
  ASSUME NEW n \in Nat, NEW S \in SUBSET (1 .. n)
  PROVE  Innermost(S) \in 0 .. n
<1>1. CASE S = {}
  BY <1>1 DEF Innermost
<1>2. CASE S # {}
  <2> DEFINE T == {n - s : s \in S}
  <2>1. \A s \in S : n - s \in Nat
    OBVIOUS
  <2>2. T \subseteq Nat /\ T # {}
    BY <1>2, <2>1
  <2>3. PICK x \in T : \A y \in T : ~ (<<y, x>> \in OpToRel(<, Nat))
    <3> HIDE DEF T
    <3> QED
      BY <2>2, WFMin, NatLessThanWellFounded
  <2>4. PICK i \in S : x = n - i
    OBVIOUS
  <2>5. \A j \in S : ~ (n - j < x)
    BY <2>1, <2>2, <2>3 DEF OpToRel
  <2>6. \A j \in S : j <= i
    BY <2>4, <2>5
  <2>7. Innermost(S) \in S
    BY <1>2, <2>6 DEF Innermost
  <2>8. S \subseteq 0 .. n
    OBVIOUS
  <2> QED
    BY <2>7, <2>8
<1> QED
  BY <1>1, <1>2

(* The parts of a frame, by its kind, and a frame with other parts.        *)
Plain == {"program", "rest", "adverse", "otherwise", "execute"}
Tests == {"choose", "while", "for", "select"}

LEMMA Parts ==
  ASSUME NEW f \in Frame
  PROVE  /\ f.block \in Block
         /\ f.kind \in Plain \/ f.kind \in Tests \/ f.kind \in {"body", "try"}
         /\ f.kind = "body" => f \in [kind : {"body"}, block : Block, steps : 0 .. BRANCH_LIMIT]
         /\ f.kind \in Tests => f \in [kind : Tests, block : Block, testing : BOOLEAN,
                                       held : Results, left : 0 .. ITEMS]
         /\ f.kind = "try" => f \in [kind : {"try"}, block : Block, here : 0 .. RECURSION_LIMIT,
                                     catch : BOOLEAN, catcht : BOOLEAN]
         /\ f.kind \in Plain => f \in [kind : Plain, block : Block]
BY DEF Frame, Plain, Tests

LEMMA OtherBlock ==
  ASSUME NEW f \in Frame, NEW b \in Block, NEW g, g = [f EXCEPT !.block = b]
  PROVE  g \in Frame /\ g.kind = f.kind /\ g.block = b
<1>1. CASE f.kind \in Plain
  <2>1. f \in [kind : Plain, block : Block]
    BY <1>1, Parts
  <2>2. g \in [kind : Plain, block : Block] /\ g.kind = f.kind /\ g.block = b
    BY <2>1
  <2> QED
    BY <2>2 DEF Frame, Plain
<1>2. CASE f.kind \in Tests
  <2> DEFINE R == [kind : Tests, block : Block, testing : BOOLEAN, held : Results, left : 0 .. ITEMS]
  <2>1. f \in R
    BY <1>2, Parts
  <2>2. g \in R /\ g.kind = f.kind /\ g.block = b
    BY <2>1
  <2> QED
    BY <2>2 DEF Frame, Tests
<1>3. CASE f.kind = "body"
  <2> DEFINE R == [kind : {"body"}, block : Block, steps : 0 .. BRANCH_LIMIT]
  <2>1. f \in R
    BY <1>3, Parts
  <2>2. g \in R /\ g.kind = f.kind /\ g.block = b
    BY <2>1
  <2> QED
    BY <2>2 DEF Frame
<1>4. CASE f.kind = "try"
  <2> DEFINE R == [kind : {"try"}, block : Block, here : 0 .. RECURSION_LIMIT, catch : BOOLEAN, catcht : BOOLEAN]
  <2>1. f \in R
    BY <1>4, Parts
  <2>2. g \in R /\ g.kind = f.kind /\ g.block = b
    BY <2>1
  <2> QED
    BY <2>2 DEF Frame
<1> QED
  BY <1>1, <1>2, <1>3, <1>4, Parts

LEMMA OtherTest ==
  ASSUME NEW f \in Frame, f.kind \in Tests
  PROVE  /\ \A b \in Block, n \in 0 .. ITEMS :
              LET g == [f EXCEPT !.left = n, !.block = b]
              IN  g \in Frame /\ g.kind = f.kind
         /\ \A b \in Block, t \in BOOLEAN :
              LET g == [f EXCEPT !.testing = t, !.block = b]
              IN  g \in Frame /\ g.kind = f.kind
         /\ \A b \in Block, t \in BOOLEAN, h \in Results :
              LET g == [f EXCEPT !.testing = t, !.held = h, !.block = b]
              IN  g \in Frame /\ g.kind = f.kind
<1> DEFINE R == [kind : Tests, block : Block, testing : BOOLEAN, held : Results, left : 0 .. ITEMS]
<1>1. f \in R
  BY Parts
<1>2. R \subseteq Frame
  BY DEF Frame, Tests
<1>3. ASSUME NEW b \in Block, NEW n \in 0 .. ITEMS
      PROVE  LET g == [f EXCEPT !.left = n, !.block = b] IN g \in Frame /\ g.kind = f.kind
  <2> DEFINE g == [f EXCEPT !.left = n, !.block = b]
  <2>1. g \in R /\ g.kind = f.kind
    BY <1>1
  <2> HIDE DEF g, R
  <2>2. g \in Frame /\ g.kind = f.kind
    BY <1>2, <2>1
  <2> QED
    BY <2>2 DEF g
<1>4. ASSUME NEW b \in Block, NEW t \in BOOLEAN
      PROVE  LET g == [f EXCEPT !.testing = t, !.block = b] IN g \in Frame /\ g.kind = f.kind
  <2> DEFINE g == [f EXCEPT !.testing = t, !.block = b]
  <2>1. g \in R /\ g.kind = f.kind
    BY <1>1
  <2> HIDE DEF g, R
  <2>2. g \in Frame /\ g.kind = f.kind
    BY <1>2, <2>1
  <2> QED
    BY <2>2 DEF g
<1>5. ASSUME NEW b \in Block, NEW t \in BOOLEAN, NEW h \in Results
      PROVE  LET g == [f EXCEPT !.testing = t, !.held = h, !.block = b] IN g \in Frame /\ g.kind = f.kind
  <2> DEFINE g == [f EXCEPT !.testing = t, !.held = h, !.block = b]
  <2>1. g \in R /\ g.kind = f.kind
    BY <1>1
  <2> HIDE DEF g, R
  <2>2. g \in Frame /\ g.kind = f.kind
    BY <1>2, <2>1
  <2> QED
    BY <2>2 DEF g
<1> QED
  BY <1>3, <1>4, <1>5

LEMMA CountedTyped ==
  ASSUME stack # <<>>, Top \in Frame, ~spent
  PROVE  Counted \in Frame /\ Counted.kind = Top.kind /\ Counted.block = Top.block
<1>1. CASE Top.kind = "body"
  <2> DEFINE R == [kind : {"body"}, block : Block, steps : 0 .. BRANCH_LIMIT]
             g == [Top EXCEPT !.steps = @ + 1]
  <2>1. Top \in R
    BY <1>1, Parts
  <2>2. Top.steps \in 0 .. BRANCH_LIMIT /\ Top.steps # BRANCH_LIMIT /\ BRANCH_LIMIT \in Nat
    BY <1>1, <2>1, ControlAssumption DEF spent
  <2>3. Top.steps + 1 \in 0 .. BRANCH_LIMIT
    BY <2>2
  <2>4. g \in R /\ g.kind = Top.kind /\ g.block = Top.block
    BY <2>1, <2>3
  <2>5. g \in Frame
    BY <2>4 DEF Frame
  <2> QED
    BY <1>1, <2>4, <2>5 DEF Counted
<1>2. CASE Top.kind # "body"
  BY <1>2 DEF Counted
<1> QED
  BY <1>1, <1>2

LEMMA SignalsTyped ==
  /\ {Run, InSentence, Answered, Finished} \subseteq Signals
  /\ \A v \in Results, f \in Flows : Ok(v, f) \in Signals
  /\ \A k \in Kinds : Err(k) \in Signals
BY DEF Run, InSentence, Answered, Finished, Told, Ok, Err, Signals, Results, Flows, Kinds

LEMMA Apart ==
  /\ Run # InSentence /\ Run # Answered /\ Run # Finished
  /\ \A v, f : Ok(v, f) # Run
  /\ \A k : Err(k) # Run
BY Signalled

LEMMA YieldTyped ==
  ASSUME NEW v \in Results, NEW f \in Flows, NEW q \in BOOLEAN, Yield(v, f, q)
  PROVE  sig' \in Signals /\ sig'.is = "ok" /\ shy' \in BOOLEAN
<1>1. PICK w \in Results : sig' = Ok(w, f)
  BY ControlAssumption DEF Yield, Results
<1>2. shy' \in BOOLEAN
  BY DEF Yield
<1> QED
  BY <1>1, <1>2, SignalsTyped, Signalled

LEMMA BlocksTyped ==
  /\ EmptyBlock \in Block /\ EmptyBlock.at < LENGTH
  /\ \A k \in Plain : [kind |-> k, block |-> EmptyBlock] \in Frame
<1>1. EmptyBlock \in Block /\ EmptyBlock.at < LENGTH
  BY ControlAssumption DEF EmptyBlock, Block, Results
<1> QED
  BY <1>1 DEF Frame, Plain

LEMMA TookTyped ==
  ASSUME sig \in Signals, shy \in BOOLEAN, NEW b \in Block, b.at < LENGTH
  PROVE  /\ Took(b) \in Block
         /\ \A n \in 0 .. LENGTH : [Took(b) EXCEPT !.at = n] \in Block
<1>1. b.at + 1 \in 0 .. LENGTH
  BY ControlAssumption DEF Block
<1>2. sig.value \in Results
  BY DEF Signals
<1>3. Took(b) \in Block
  BY <1>1, <1>2 DEF Took, Block
<1> QED
  BY <1>3 DEF Block
-----------------------------------------------------------------------------
(* What a step does to the types: it puts a frame in the place of the top, *)
(* takes the top off, or adds one.                                         *)
Values ==
  /\ depth \in 0 .. RECURSION_LIMIT
  /\ thrown \in {Unthrown} \cup 0 .. RECURSION_LIMIT
  /\ shy \in BOOLEAN
  /\ sig \in Signals
  /\ lands \in 0 .. HEIGHT
  /\ sig.is = "run" => sig = Run

Puts(g) ==
  /\ stack' = Other(stack, g) /\ g \in Frame
  /\ g.kind = Top.kind \/ g.kind = "otherwise" \/ (g.kind = "rest" /\ Top.kind \in Within)
  /\ sig' # Run => Midway(g)
  /\ sig'.is = "ok" => g.kind \in RunsBlocks

Drops == stack' = Fewer(stack) /\ (sig'.is = "ok" => Top.kind \in Within)

Adds(g, f) ==
  /\ stack' = More(Other(stack, g), f) /\ Len(stack) < HEIGHT
  /\ g \in Frame /\ f \in Frame /\ g.kind = Top.kind /\ Midway(g)
  /\ f.kind \in Within => g.kind \in RunsBlocks
  /\ sig'.is # "ok" /\ (sig' # Run => Midway(f))

LEMMA Framed ==
  ASSUME NEW s, IsSeq(s), \A i \in 1 .. Len(s) : s[i] \in Frame
  PROVE  s \in Seq(Frame)
<1>1. PICK S : s \in Seq(S)
  BY DEF IsSeq
<1> QED
  BY <1>1

LEMMA StackTyped ==
  ASSUME TypeInv, stack # <<>>
  PROVE  /\ IsSeq(stack) /\ Top \in Frame /\ Len(stack) \in 1 .. HEIGHT
         /\ \A i \in 1 .. Len(stack) : stack[i] \in Frame
<1>1. stack \in Seq(Frame) /\ Len(stack) <= HEIGHT
  BY DEF TypeInv, TypeOK
<1>2. IsSeq(stack)
  BY <1>1 DEF IsSeq
<1>3. Len(stack) \in 1 .. HEIGHT /\ HEIGHT \in Nat
  BY <1>1, <1>2, NotEmpty, ControlAssumption
<1>4. \A i \in 1 .. Len(stack) : stack[i] \in Frame
  BY <1>1, <1>3
<1> QED
  BY <1>2, <1>3, <1>4 DEF Top

LEMMA PutsTyped ==
  ASSUME TypeInv, stack # <<>>, Values', NEW g, Puts(g)
  PROVE  TypeInv'
<1> DEFINE n == Len(stack)
<1>1. /\ IsSeq(stack') /\ Len(stack') = n /\ stack'[n] = g
      /\ \A i \in 1 .. n - 1 : stack'[i] = stack[i]
  BY Exchanged, StackTyped DEF Puts
<1>2. n \in 1 .. HEIGHT /\ HEIGHT \in Nat /\ \A i \in 1 .. n : i \in 1 .. n - 1 \/ i = n
  BY StackTyped, ControlAssumption
<1>3. \A i \in 1 .. n : stack[i] \in Frame
  BY StackTyped
<1> HIDE DEF n
<1>4. \A i \in 1 .. n : stack'[i] \in Frame
  BY <1>1, <1>2, <1>3 DEF Puts
<1>5. TypeOK'
  <2>1. stack' \in Seq(Frame)
    BY <1>1, <1>4, Framed
  <2> QED
    BY <1>1, <1>2, <2>1 DEF TypeOK, Values
<1>6. stack' # <<>> /\ Top' = g
  BY <1>1, <1>2 DEF Top
<1>7. \A i \in 1 .. n - 1 : Midway(stack'[i])
  BY <1>1 DEF TypeInv, Underway, n
<1>8. ASSUME NEW i \in 2 .. n, stack'[i].kind \in Within
      PROVE  stack'[i - 1].kind \in RunsBlocks
  <2>1. i - 1 \in 1 .. n - 1
    BY <1>2
  <2>2. stack'[i - 1] = stack[i - 1]
    BY <1>1, <2>1
  <2>3. stack[i].kind \in Within
    <3>1. CASE i \in 1 .. n - 1
      BY <1>1, <1>8, <3>1
    <3>2. CASE i = n
      BY <1>1, <1>8, <3>2 DEF Puts, Within, RunsBlocks, Top, n
    <3> QED
      BY <1>2, <3>1, <3>2
  <2> QED
    BY <2>2, <2>3 DEF TypeInv, Underway, n
<1>9. Underway'
  BY <1>1, <1>6, <1>7, <1>8 DEF Underway, Puts, Values, Midway
<1> QED
  BY <1>5, <1>9 DEF TypeInv

LEMMA DropsTyped ==
  ASSUME TypeInv, stack # <<>>, Values', Drops
  PROVE  TypeInv'
<1> DEFINE n == Len(stack)
<1>1. IsSeq(stack') /\ Len(stack') = n - 1 /\ \A i \in 1 .. n - 1 : stack'[i] = stack[i]
  BY Shorter, StackTyped DEF Drops
<1>2. n \in 1 .. HEIGHT /\ HEIGHT \in Nat /\ \A i \in 1 .. n : stack[i] \in Frame
  BY StackTyped, ControlAssumption
<1> HIDE DEF n
<1>3. TypeOK'
  <2>1. stack' \in Seq(Frame)
    BY <1>1, <1>2, Framed
  <2> QED
    BY <1>1, <1>2, <2>1 DEF TypeOK, Values
<1>4. \A i \in 1 .. n - 1 : Midway(stack'[i])
  BY <1>1 DEF TypeInv, Underway, n
<1>5. ASSUME NEW i \in 2 .. n - 1, stack'[i].kind \in Within
      PROVE  stack'[i - 1].kind \in RunsBlocks
  <2>1. i - 1 \in 1 .. n - 1 /\ i \in 1 .. n - 1 /\ i \in 2 .. n
    BY <1>2
  <2>2. stack'[i - 1] = stack[i - 1] /\ stack'[i] = stack[i]
    BY <1>1, <2>1
  <2> QED
    BY <1>5, <2>1, <2>2 DEF TypeInv, Underway, n
<1>6. ASSUME stack' # <<>>
      PROVE  /\ Midway(Top')
             /\ sig'.is = "ok" => Top'.kind \in RunsBlocks
  <2>1. n - 1 # 0
    <3>1. CASE n - 1 = 0
      BY <1>1, <1>6, <3>1 DEF IsSeq
    <3> QED
      BY <3>1
  <2>2. n - 1 \in 1 .. n - 1 /\ n \in 2 .. n
    BY <1>2, <2>1
  <2>3. Top' = stack[n - 1] /\ Top' = stack'[n - 1]
    BY <1>1, <2>2 DEF Top
  <2>4. Top.kind \in Within => stack[n - 1].kind \in RunsBlocks
    BY <2>2 DEF TypeInv, Underway, Top, n
  <2> QED
    BY <1>4, <2>2, <2>3, <2>4 DEF Drops
<1>7. \A i \in 1 .. Len(stack') - 1 : i \in 1 .. n - 1
  BY <1>1, <1>2
<1>8. Underway'
  BY <1>1, <1>4, <1>5, <1>6, <1>7 DEF Underway, Values
<1> QED
  BY <1>3, <1>8 DEF TypeInv

LEMMA AddsTyped ==
  ASSUME TypeInv, stack # <<>>, Values', NEW g, NEW f, Adds(g, f)
  PROVE  TypeInv'
<1> DEFINE n == Len(stack)
           r == Other(stack, g)
<1>1. IsSeq(r) /\ Len(r) = n /\ r[n] = g /\ \A i \in 1 .. n - 1 : r[i] = stack[i]
  BY Exchanged, StackTyped
<1>2. stack' = More(r, f)
  BY DEF Adds
<1> HIDE DEF r
<1>3. /\ IsSeq(stack') /\ Len(stack') = n + 1 /\ stack'[n + 1] = f
      /\ \A i \in 1 .. n : stack'[i] = r[i]
  BY <1>1, <1>2, Longer
<1>4. n \in 1 .. HEIGHT /\ n < HEIGHT /\ HEIGHT \in Nat
  BY StackTyped, ControlAssumption DEF Adds
<1>5. \A i \in 1 .. n : stack[i] \in Frame
  BY StackTyped
<1> HIDE DEF n
<1>6. \A i \in 1 .. n : i \in 1 .. n - 1 \/ i = n
  BY <1>4
<1>7. stack'[n] = g /\ \A i \in 1 .. n - 1 : stack'[i] = stack[i]
  <2>1. n \in 1 .. n /\ \A i \in 1 .. n - 1 : i \in 1 .. n
    BY <1>4
  <2> QED
    BY <1>1, <1>3, <2>1
<1>8. \A i \in 1 .. n + 1 : stack'[i] \in Frame
  <2>1. \A i \in 1 .. n + 1 : i \in 1 .. n \/ i = n + 1
    BY <1>4
  <2> QED
    BY <1>3, <1>5, <1>6, <1>7, <2>1 DEF Adds
<1>9. TypeOK'
  <2>1. stack' \in Seq(Frame)
    BY <1>3, <1>8, Framed
  <2> QED
    BY <1>3, <1>4, <2>1 DEF TypeOK, Values
<1>10. stack' # <<>> /\ Top' = f
  BY <1>3, <1>4 DEF Top
<1>11. \A i \in 1 .. n : Midway(stack'[i])
  BY <1>6, <1>7 DEF TypeInv, Underway, n, Adds
<1>12. ASSUME NEW i \in 2 .. n + 1, stack'[i].kind \in Within
       PROVE  stack'[i - 1].kind \in RunsBlocks
  <2>1. CASE i = n + 1
    <3>1. i - 1 = n /\ stack'[i] = f
      BY <1>3, <1>4, <2>1
    <3> QED
      BY <1>7, <1>12, <3>1 DEF Adds
  <2>2. CASE i # n + 1
    <3>1. i \in 2 .. n /\ i - 1 \in 1 .. n - 1 /\ i \in 1 .. n
      BY <1>4, <2>2
    <3>2. stack'[i - 1] = stack[i - 1]
      BY <1>7, <3>1
    <3>3. stack[i].kind \in Within
      <4>1. CASE i \in 1 .. n - 1
        BY <1>7, <1>12, <4>1
      <4>2. CASE i = n
        BY <1>7, <1>12, <4>2 DEF Adds, Top, n
      <4> QED
        BY <1>6, <3>1, <4>1, <4>2
    <3> QED
      BY <3>1, <3>2, <3>3 DEF TypeInv, Underway, n
  <2> QED
    BY <2>1, <2>2
<1>13. Underway'
  <2>1. 2 .. Len(stack') = 2 .. n + 1 /\ 1 .. Len(stack') - 1 = 1 .. n
    BY <1>3, <1>4
  <2>2. sig' # Run => Midway(Top')
    BY <1>10 DEF Adds
  <2>3. sig'.is # "ok" /\ (sig'.is = "run" => sig' = Run)
    BY DEF Adds, Values
  <2> QED
    BY <1>10, <1>11, <1>12, <2>1, <2>2, <2>3 DEF Underway
<1> QED
  BY <1>9, <1>13 DEF TypeInv
-----------------------------------------------------------------------------
(* The steps, one by one.                                                  *)
Moves == Drops \/ (\E g : Puts(g)) \/ (\E g, f : Adds(g, f))

LEMMA KeepsTop ==
  ASSUME TypeInv, stack # <<>>, UNCHANGED stack,
         sig' # Run => Midway(Top), sig'.is = "ok" => Top.kind \in RunsBlocks
  PROVE  Moves
<1>1. Other(stack, Top) = stack
  BY Itself, StackTyped DEF Top
<1>2. Puts(Top)
  BY <1>1, StackTyped DEF Puts
<1> QED
  BY <1>2 DEF Moves

LEMMA CountsTop ==
  ASSUME TypeInv, stack # <<>>, Ready, Replace(Counted)
  PROVE  Moves
<1>1. Counted \in Frame /\ Counted.kind = Top.kind /\ Counted.block = Top.block
  BY CountedTyped, StackTyped DEF Ready
<1>2. Midway(Counted) /\ Top.kind \in RunsBlocks
  BY <1>1, StackTyped, ControlAssumption, Parts DEF Ready, more, Midway
<1>3. Puts(Counted)
  BY <1>1, <1>2 DEF Puts, Replace, Other
<1> QED
  BY <1>3 DEF Moves

LEMMA BeginAdds ==
  ASSUME TypeInv, stack # <<>>, Ready, NEW f \in Frame, Begin(f), sig' = Run
  PROVE  Moves
<1>1. Counted \in Frame /\ Counted.kind = Top.kind /\ Counted.block = Top.block
  BY CountedTyped, StackTyped DEF Ready
<1>2. Midway(Counted) /\ Top.kind \in RunsBlocks
  BY <1>1 DEF Ready, more, Midway
<1>3. Adds(Counted, f)
  BY <1>1, <1>2, Signalled DEF Adds, Begin, More, Other
<1> QED
  BY <1>3 DEF Moves

LEMMA PushAdds ==
  ASSUME TypeInv, stack # <<>>, sig # Run, NEW f \in Frame, Push(f),
         sig'.is # "ok", Midway(f), f.kind \in Within => Top.kind \in RunsBlocks
  PROVE  Moves
<1>1. Other(stack, Top) = stack
  BY Itself, StackTyped DEF Top
<1>2. Midway(Top)
  BY DEF TypeInv, Underway
<1>3. Adds(Top, f)
  BY <1>1, <1>2, StackTyped DEF Adds, Push, More
<1> QED
  BY <1>3 DEF Moves

LEMMA GoOnPuts ==
  ASSUME TypeInv, stack # <<>>, NEW g \in Frame, Replace(g), sig' = Run,
         g.kind = Top.kind \/ (g.kind = "rest" /\ Top.kind \in Within)
  PROVE  Moves
<1>1. Puts(g)
  BY Signalled DEF Puts, Replace, Other
<1> QED
  BY <1>1 DEF Moves

LEMMA PopDrops ==
  ASSUME Pop, sig'.is = "ok" => Top.kind \in Within
  PROVE  Moves
BY DEF Moves, Drops, Pop, Under, Fewer

LEMMA CameTyped ==
  ASSUME TypeInv, stack # <<>>, NEW k, Blocked(k)
  PROVE  /\ Top.kind = k /\ sig.flow \in Flows
         /\ came \in Block /\ came.shy \in BOOLEAN /\ came.last \in Results
         /\ sig # Run => sig.is = "ok" /\ Top.kind \in RunsBlocks
<1>1. Top \in Frame /\ Top.block \in Block /\ sig \in Signals /\ shy \in BOOLEAN
  BY StackTyped, Parts DEF TypeInv, TypeOK
<1>2. Top.kind = k /\ sig.flow \in Flows /\ (sig # Run => sig.is = "ok")
  BY <1>1 DEF Blocked, Signals
<1>3. sig # Run => Top.kind \in RunsBlocks /\ Top.block.at < LENGTH
  BY <1>2 DEF TypeInv, Underway, Midway
<1>4. came \in Block
  BY <1>1, <1>3, TookTyped DEF came
<1> QED
  BY <1>2, <1>3, <1>4 DEF Block

LEMMA LandsTyped ==
  ASSUME TypeInv, stack # <<>>, NEW d
  PROVE  Innermost(Takers(stack, d)) \in 0 .. HEIGHT /\ Innermost(Loops(stack)) \in 0 .. HEIGHT
<1>1. Len(stack) \in 1 .. HEIGHT /\ HEIGHT \in Nat /\ IsSeq(stack)
  BY StackTyped, ControlAssumption
<1>2. Takers(stack, d) \in SUBSET (1 .. Len(stack)) /\ Loops(stack) \in SUBSET (1 .. Len(stack))
  BY <1>1, TakersOf
<1>3. Innermost(Takers(stack, d)) \in 0 .. Len(stack) /\ Innermost(Loops(stack)) \in 0 .. Len(stack)
  BY <1>1, <1>2, InnermostOf
<1>4. 0 .. Len(stack) \subseteq 0 .. HEIGHT
  BY <1>1
<1> QED
  BY <1>3, <1>4

LEMMA DepthAbove ==
  ASSUME LevelInv, stack # <<>>, Top.kind = "body"
  PROVE  depth > 0
<1> DEFINE n == Len(stack) - 1
<1>1. n \in Nat /\ n + 1 = Len(stack)
  BY NotEmpty DEF LevelInv
<1> HIDE DEF n
<1>2. Upto(stack, n + 1) = Upto(stack, n) + Level(stack[n + 1]) /\ Upto(stack, n) \in Nat
  BY <1>1, UptoCounts
<1>3. Level(stack[n + 1]) = 1
  BY <1>1 DEF Level, Top
<1> QED
  BY <1>1, <1>2, <1>3 DEF LevelInv

LEMMA Typing ==
  ASSUME TypeInv
  PROVE  /\ Values
         /\ sig.is = "ok" => sig # Run /\ sig.value \in Results /\ sig.flow \in Flows
         /\ sig.is = "err" => sig # Run
BY Signalled DEF TypeInv, TypeOK, Underway, Values, Signals

(* Steps that begin a sentence, or refuse to. *)
LEMMA BeginningsTyped ==
  ASSUME TypeInv, stack # <<>>,
         \/ TooManySteps \/ Sentence \/ SilentSentence \/ Throw
         \/ \E f \in {"return", "break", "continue", "goto"} : Leave(f)
         \/ \E n \in 0 .. ITEMS : BeginTested("choose", TRUE, n)
         \/ \E testing \in BOOLEAN : BeginTested("while", testing, 0)
         \/ \E catch, catcht \in BOOLEAN : BeginTry(catch, catcht)
  PROVE  Values' /\ Moves
<1> USE Typing, SignalsTyped, Signalled, Apart
<1>1. CASE TooManySteps
  <2>1. Midway(Top)
    BY <1>1 DEF TooManySteps, more, Midway
  <2>2. Values'
    BY <1>1 DEF TooManySteps, Values, Kinds
  <2> QED
    BY <1>1, <2>1, <2>2, KeepsTop DEF TooManySteps
<1>2. CASE Sentence \/ SilentSentence
  <2>1. "none" \in Results /\ "normal" \in Flows
    BY DEF Results, Flows
  <2>2. Sentence => Values'
    BY DEF Sentence, Values
  <2>3. SilentSentence => Values'
    <3>1. Ok("none", "normal") \in Signals /\ Ok("none", "normal").is = "ok"
      BY <2>1
    <3> QED
      BY <3>1 DEF SilentSentence, Values
  <2>4. Values'
    BY <1>2, <2>2, <2>3
  <2> QED
    BY <1>2, <2>4, CountsTop DEF Sentence, SilentSentence
<1>3. CASE Throw
  <2>1. lands' \in 0 .. HEIGHT
    BY <1>3, LandsTyped DEF Throw
  <2>2. Values'
    BY <1>3, <2>1 DEF Throw, Values, Kinds
  <2> QED
    BY <1>3, <2>2, CountsTop DEF Throw
<1>4. ASSUME NEW f \in {"return", "break", "continue", "goto"}, Leave(f)
      PROVE  Values' /\ Moves
  <2>1. sig' \in Signals /\ sig'.is = "ok" /\ shy' \in BOOLEAN
    BY <1>4, YieldTyped DEF Leave, Results, Flows
  <2>2. lands' \in 0 .. HEIGHT
    BY <1>4, LandsTyped DEF Leave, Values
  <2>3. Values'
    BY <1>4, <2>1, <2>2 DEF Leave, Values
  <2> QED
    BY <1>4, <2>3, CountsTop DEF Leave
<1>5. ASSUME NEW kind \in {"choose", "while"}, NEW testing \in BOOLEAN, NEW n \in 0 .. ITEMS,
             BeginTested(kind, testing, n)
      PROVE  Values' /\ Moves
  <2> DEFINE f == [kind |-> kind, block |-> EmptyBlock, testing |-> testing, held |-> "none", left |-> n]
  <2>1. f \in Frame
    BY BlocksTyped DEF Frame, Results
  <2>2. Ready /\ Begin(f) /\ sig' = Run
    BY <1>5 DEF BeginTested
  <2>3. Values'
    BY <1>5 DEF BeginTested, Values
  <2> HIDE DEF f
  <2> QED
    BY <2>1, <2>2, <2>3, BeginAdds
<1>6. ASSUME NEW catch \in BOOLEAN, NEW catcht \in BOOLEAN, BeginTry(catch, catcht)
      PROVE  Values' /\ Moves
  <2> DEFINE f == [kind |-> "try", block |-> EmptyBlock, here |-> depth, catch |-> catch, catcht |-> catcht]
  <2>1. f \in Frame
    BY BlocksTyped DEF Frame, Values
  <2>2. Ready /\ Begin(f) /\ sig' = Run
    BY <1>6 DEF BeginTry
  <2>3. Values'
    BY <1>6 DEF BeginTry, Values
  <2> HIDE DEF f
  <2> QED
    BY <2>1, <2>2, <2>3, BeginAdds
<1>7. 0 \in 0 .. ITEMS
  BY ControlAssumption
<1> QED
  BY <1>1, <1>2, <1>3, <1>4, <1>5, <1>6, <1>7

(* Steps in the midst of a sentence. *)
LEMMA MiddlesTyped ==
  ASSUME TypeInv, stack # <<>>,
         \/ \E n \in 0 .. ITEMS : BeginOver("for", FALSE, n)
         \/ \E testing \in BOOLEAN, n \in 0 .. ITEMS : BeginOver("select", testing, n)
         \/ \E f \in {"normal", "return", "goto", "goto_by"} : Branch(f)
         \/ Call \/ CallTooDeep \/ BeginAdverse \/ BeginExecute \/ ExecuteUnbound
         \/ \E k \in {"Domain", "NotYet", "Internal"} : Refuse(k)
         \/ \E quiet \in BOOLEAN : EndSentence(quiet)
  PROVE  Values' /\ Moves
<1> USE Typing, SignalsTyped, Signalled, Apart
<1>a. Evaluating \/ Calls => sig # Run /\ Midway(Top)
  BY DEF Evaluating, Calls, TypeInv, Underway
<1>b. Top \in Frame
  BY StackTyped
<1>1. ASSUME NEW kind \in {"for", "select"}, NEW testing \in BOOLEAN, NEW n \in 0 .. ITEMS,
             BeginOver(kind, testing, n)
      PROVE  Values' /\ Moves
  <2> DEFINE f == [kind |-> kind, block |-> EmptyBlock, testing |-> testing, held |-> "none", left |-> n]
  <2>1. f \in Frame /\ Midway(f)
    BY BlocksTyped DEF Frame, Results, Midway
  <2>2. sig # Run /\ Push(f) /\ sig' = Run /\ Top.kind \in RunsBlocks
    BY <1>1, <1>a DEF BeginOver
  <2>3. Values'
    BY <1>1 DEF BeginOver, Values
  <2> HIDE DEF f
  <2> QED
    BY <2>1, <2>2, <2>3, PushAdds
<1>2. ASSUME NEW f \in {"normal", "return", "goto", "goto_by"}, Branch(f)
      PROVE  Values' /\ Moves
  <2>1. sig' \in Signals /\ sig'.is = "ok" /\ shy' \in BOOLEAN
    BY <1>2, YieldTyped DEF Branch, Results, Flows
  <2>2. Values'
    BY <1>2, <2>1 DEF Branch, Values
  <2> QED
    BY <1>2, <1>a, <2>2, KeepsTop DEF Branch
<1>3. CASE Call
  <2> DEFINE f == [kind |-> "body", block |-> EmptyBlock, steps |-> 0]
  <2>1. f \in Frame /\ Midway(f) /\ f.kind \notin Within
    BY BlocksTyped, ControlAssumption DEF Frame, Midway, Within
  <2>2. sig # Run /\ Push(f) /\ sig' = Run
    BY <1>3, <1>a DEF Call
  <2>3. Values'
    <3>1. RECURSION_LIMIT \in Nat /\ depth < RECURSION_LIMIT
      BY <1>3, ControlAssumption DEF Call
    <3>2. depth + 1 \in 0 .. RECURSION_LIMIT
      BY <3>1 DEF Values
    <3> QED
      BY <1>3, <3>2 DEF Call, Values
  <2> HIDE DEF f
  <2> QED
    BY <2>1, <2>2, <2>3, PushAdds
<1>4. CASE CallTooDeep \/ \E k \in {"Domain", "NotYet", "Internal"} : Refuse(k)
  <2>1. Values' /\ sig'.is = "err" /\ UNCHANGED stack
    BY <1>4 DEF CallTooDeep, Refuse, Values, Kinds
  <2>2. Midway(Top)
    BY <1>4, <1>a DEF CallTooDeep, Refuse
  <2> QED
    BY <2>1, <2>2, KeepsTop
<1>5. CASE BeginAdverse
  <2> DEFINE f == [kind |-> "adverse", block |-> EmptyBlock]
  <2>1. f \in Frame /\ Midway(f) /\ f.kind \notin Within
    BY BlocksTyped DEF Plain, Midway, Within, RunsBlocks
  <2>2. sig # Run /\ Push(f) /\ sig'.is # "ok"
    BY <1>5 DEF BeginAdverse
  <2>3. Values'
    BY <1>5 DEF BeginAdverse, Values
  <2> HIDE DEF f
  <2> QED
    BY <2>1, <2>2, <2>3, PushAdds
<1>6. CASE BeginExecute
  <2> DEFINE f == [kind |-> "execute", block |-> EmptyBlock]
  <2>1. f \in Frame /\ Midway(f) /\ f.kind \notin Within
    BY BlocksTyped DEF Plain, Midway, Within
  <2>2. sig # Run /\ Push(f) /\ sig' = Run
    BY <1>6, <1>a DEF BeginExecute
  <2>3. Values'
    BY <1>6 DEF BeginExecute, Values
  <2> HIDE DEF f
  <2> QED
    BY <2>1, <2>2, <2>3, PushAdds
<1>7. CASE ExecuteUnbound
  <2>1. Values'
    BY <1>7 DEF ExecuteUnbound, Values
  <2> QED
    BY <1>7, <2>1, PopDrops DEF ExecuteUnbound
<1>8. ASSUME NEW quiet \in BOOLEAN, EndSentence(quiet)
      PROVE  Values' /\ Moves
  <2>1. CASE Top.kind \in {"adverse", "otherwise"}
    <3>1. Values'
      BY <1>8, <2>1 DEF EndSentence, Values
    <3> QED
      BY <1>8, <2>1, <3>1, PopDrops DEF EndSentence
  <2>2. CASE Top.kind \notin {"adverse", "otherwise"}
    <3>1. Top.kind \in RunsBlocks
      BY <1>b, <2>2, Parts DEF RunsBlocks, Plain, Tests
    <3>2. Values'
      BY <1>8, <2>2 DEF EndSentence, Values, Results, Flows
    <3> QED
      BY <1>8, <1>a, <2>2, <3>1, <3>2, KeepsTop DEF EndSentence
  <2> QED
    BY <2>1, <2>2
<1> QED
  BY <1>1, <1>2, <1>3, <1>4, <1>5, <1>6, <1>7, <1>8

(* Steps that take what a sentence or a block came to. *)
LEMMA EndingsTyped ==
  ASSUME TypeInv, LevelInv, stack # <<>>,
         \/ NextSentence \/ LeaveBody \/ EndCall \/ LeaveProgram \/ EndProgram
         \/ \E to \in 0 .. LENGTH - 1 : BranchInBody(to)
         \/ EndTest \/ EndRest \/ EndExecute \/ EndWhileTest
         \/ \E kind \in {"while", "for"} : EndLoopBody(kind)
         \/ EndSelectTest \/ EndSelectBody
  PROVE  Values' /\ Moves
<1> USE Typing, SignalsTyped, Signalled, Apart
<1>a. Top \in Frame /\ Top.block \in Block /\ EmptyBlock \in Block
  BY StackTyped, Parts, BlocksTyped
<1>b. /\ Top.kind = "body" => Top.kind \notin Within
      /\ {"choose", "while", "for", "select"} \subseteq Within /\ "try" \in Within /\ "rest" \in Within
      /\ Tests = {"choose", "while", "for", "select"}
  BY DEF Within, RunsBlocks, Tests
<1>c. sig.is = "ok" => Top.block.at < LENGTH
  BY DEF TypeInv, Underway, Midway
(* A block one sentence further on, or where a branch leads.               *)
<1>1. CASE \/ NextSentence \/ LeaveBody \/ \E to \in 0 .. LENGTH - 1 : BranchInBody(to)
  <2>1. PICK b \in Block : Replace([Top EXCEPT !.block = b])
    <3>1. sig.is = "ok"
      BY <1>1 DEF NextSentence, LeaveBody, BranchInBody
    <3>2. /\ Took(Top.block) \in Block
          /\ \A n \in 0 .. LENGTH : [Took(Top.block) EXCEPT !.at = n] \in Block
      BY <1>a, <1>c, <3>1, TookTyped DEF Values
    <3>3. LENGTH \in 0 .. LENGTH /\ 0 .. LENGTH - 1 \subseteq 0 .. LENGTH
      BY ControlAssumption
    <3> QED
      BY <1>1, <3>2, <3>3 DEF NextSentence, LeaveBody, BranchInBody
  <2>2. Values' /\ sig' = Run
    BY <1>1 DEF NextSentence, LeaveBody, BranchInBody, Values
  <2> DEFINE g == [Top EXCEPT !.block = b]
  <2>3. g \in Frame /\ g.kind = Top.kind
    BY <1>a, OtherBlock
  <2> HIDE DEF g
  <2> QED
    BY <2>1, <2>2, <2>3, GoOnPuts DEF g
<1>2. CASE EndCall
  <2>1. depth > 0 /\ depth' = depth - 1 /\ UNCHANGED <<thrown, lands>>
    BY <1>2, DepthAbove DEF EndCall
  <2>2. depth' \in 0 .. RECURSION_LIMIT
    BY <2>1, ControlAssumption DEF Values
  <2>3. sig' \in {Answered, Err("Domain")} /\ shy' \in BOOLEAN
    BY <1>2, <1>a DEF EndCall, Block
  <2>4. Values'
    BY <2>1, <2>2, <2>3 DEF Values, Kinds
  <2>5. Pop /\ sig'.is # "ok"
    BY <1>2, <2>3 DEF EndCall
  <2> QED
    BY <2>4, <2>5, PopDrops
<1>3. CASE LeaveProgram
  <2>1. Values' /\ sig'.is = "err" /\ UNCHANGED stack
    BY <1>3 DEF LeaveProgram, Values, Kinds
  <2>2. Midway(Top)
    BY <1>3 DEF LeaveProgram, TypeInv, Underway
  <2> QED
    BY <2>1, <2>2, KeepsTop
<1>4. CASE EndProgram
  <2>1. Values'
    BY <1>4 DEF EndProgram, Values
  <2> QED
    BY <1>4, <2>1, PopDrops DEF EndProgram
<1>5. CASE EndExecute
  <2>1. came.shy \in BOOLEAN
    BY <1>5, CameTyped DEF EndExecute
  <2>2. sig' \in {Answered, Err("Domain")}
    BY <1>5 DEF EndExecute
  <2>3. Values'
    BY <1>5, <2>1, <2>2 DEF EndExecute, Values, Kinds
  <2> QED
    BY <1>5, <2>2, <2>3, PopDrops DEF EndExecute
(* A control sentence ends, refuses, or goes on with another frame.        *)
<1>6. ASSUME NEW k \in Within, Blocked(k), UNCHANGED <<depth, thrown, lands>>,
             \/ \E v \in Results, f \in Flows, q \in BOOLEAN : Pop /\ Yield(v, f, q)
             \/ Fail
             \/ \E g \in Frame : GoOn(g) /\ (g.kind = Top.kind \/ g.kind = "rest")
      PROVE  Values' /\ Moves
  <2>1. Top.kind \in Within /\ came.shy \in BOOLEAN
    BY <1>6, CameTyped
  <2>2. ASSUME NEW v \in Results, NEW f \in Flows, NEW q \in BOOLEAN, Pop, Yield(v, f, q)
        PROVE  Values' /\ Moves
    <3>1. sig' \in Signals /\ sig'.is = "ok" /\ shy' \in BOOLEAN
      BY <2>2, YieldTyped
    <3>2. Values'
      BY <1>6, <3>1 DEF Values
    <3> QED
      BY <2>1, <2>2, <3>2, PopDrops
  <2>3. CASE Fail
    <3>1. Values' /\ sig'.is = "err" /\ Pop
      BY <1>6, <2>1, <2>3 DEF Fail, Values, Kinds
    <3> QED
      BY <3>1, PopDrops
  <2>4. ASSUME NEW g \in Frame, GoOn(g), g.kind = Top.kind \/ g.kind = "rest"
        PROVE  Values' /\ Moves
    <3>1. Values' /\ Replace(g) /\ sig' = Run
      BY <1>6, <2>1, <2>4 DEF GoOn, Values
    <3> QED
      BY <2>1, <2>4, <3>1, GoOnPuts
  <2> QED
    BY <1>6, <2>2, <2>3, <2>4
<1>d. \A k : Blocked(k) => /\ Top.kind = k /\ sig.flow \in Flows
                          /\ came \in Block /\ came.shy \in BOOLEAN /\ came.last \in Results
  BY CameTyped
<1>e. ASSUME NEW v \in Results, NEW f \in Flows, came.shy \in BOOLEAN, EndWith(v, f)
      PROVE  \E w \in Results, h \in Flows, q \in BOOLEAN : Pop /\ Yield(w, h, q)
  BY <1>e DEF EndWith
<1>f. "none" \in Results /\ "quiet" \in Results /\ "normal" \in Flows
  BY DEF Results, Flows
<1>h. Top.kind \in Tests => Top.held \in Results /\ (Top.left > 0 => Top.left - 1 \in 0 .. ITEMS)
  <2>1. Top.kind \in Tests => Top.held \in Results /\ Top.left \in 0 .. ITEMS
    BY <1>a, Parts
  <2> QED
    BY <2>1, ControlAssumption
<1>i. [kind |-> "rest", block |-> EmptyBlock] \in Frame
  BY BlocksTyped DEF Plain
<1>j. FALSE \in BOOLEAN /\ TRUE \in BOOLEAN
  OBVIOUS
<1>7. CASE EndTest
  <2>1. Blocked("choose") /\ UNCHANGED <<depth, thrown, lands>>
    BY <1>7 DEF EndTest
  <2>2. CASE GoOn([kind |-> "rest", block |-> EmptyBlock])
    BY <1>6, <1>b, <1>i, <2>1, <2>2
  <2>3. CASE Top.left > 0 /\ GoOn([Top EXCEPT !.left = @ - 1, !.block = EmptyBlock])
    <3>1. PICK g \in Frame : GoOn(g) /\ g.kind = Top.kind
      <4>1. Top.kind \in Tests /\ Top.left - 1 \in 0 .. ITEMS
        BY <1>b, <1>d, <1>h, <2>1, <2>3
      <4> DEFINE g == [Top EXCEPT !.left = Top.left - 1, !.block = EmptyBlock]
      <4>2. g \in Frame /\ g.kind = Top.kind
        BY <1>a, <4>1, OtherTest
      <4> HIDE DEF g
      <4> QED
        BY <2>3, <4>2 DEF g
    <3> QED
      BY <1>6, <1>b, <2>1, <3>1
  <2>4. CASE Pop /\ (Yield("none", "normal", FALSE) \/ Yield("quiet", "normal", TRUE))
    <3>1. \E v \in Results, f \in Flows, q \in BOOLEAN : Pop /\ Yield(v, f, q)
      BY <1>f, <1>j, <2>4
    <3> QED
      BY <1>6, <1>b, <2>1, <3>1
  <2>5. CASE Fail
    BY <1>6, <1>b, <2>1, <2>5
  <2> QED
    BY <1>7, <2>2, <2>3, <2>4, <2>5 DEF EndTest
<1>8. CASE EndRest
  <2>1. PICK k \in Within : Blocked(k)
    BY <1>8, <1>b DEF EndRest
  <2>2. EndWith(came.last, sig.flow) /\ UNCHANGED <<depth, thrown, lands>>
    BY <1>8 DEF EndRest
  <2> QED
    BY <1>6, <1>d, <1>e, <2>1, <2>2
<1>9. CASE EndWhileTest
  <2>1. Blocked("while") /\ UNCHANGED <<depth, thrown, lands>> /\ "while" \in Within /\ "while" \in Tests
    BY <1>9, <1>b DEF EndWhileTest
  <2>2. /\ sig.flow \in Flows /\ came.shy \in BOOLEAN /\ came.last \in Results
        /\ Top.held \in Results /\ Top.kind = "while"
    BY <1>d, <1>h, <2>1
  <2>3. CASE EndWith(came.last, sig.flow) \/ EndWith(Top.held, "normal")
    BY <1>6, <1>e, <1>f, <2>1, <2>2, <2>3
  <2>4. CASE Fail
    BY <1>6, <2>1, <2>4
  <2>5. ASSUME ~EndWith(came.last, sig.flow), ~EndWith(Top.held, "normal"), ~Fail
        PROVE  Values' /\ Moves
    <3> DEFINE b == [last |-> Top.held, at |-> 0, shy |-> Top.held # "none" /\ came.shy]
               g == [Top EXCEPT !.testing = FALSE, !.block = b]
    <3>1. GoOn(g)
      BY <1>9, <2>5 DEF EndWhileTest
    <3>2. b \in Block
      BY <2>2, ControlAssumption DEF Block
    <3> HIDE DEF b
    <3>3. g \in Frame /\ g.kind = Top.kind
      BY <1>f, <1>a, <2>1, <2>2, <3>2, OtherTest
    <3> HIDE DEF g
    <3> QED
      BY <1>6, <2>1, <3>1, <3>3
  <2> QED
    BY <2>3, <2>4, <2>5
<1>10. ASSUME NEW kind \in {"while", "for"}, EndLoopBody(kind)
       PROVE  Values' /\ Moves
  <2>1. Blocked(kind) /\ UNCHANGED <<depth, thrown, lands>> /\ kind \in Within /\ kind \in Tests
    BY <1>10, <1>b DEF EndLoopBody
  <2>2. /\ sig.flow \in Flows /\ came \in Block /\ came.shy \in BOOLEAN /\ came.last \in Results
        /\ Top.kind = kind
    BY <1>d, <2>1
  <2>3. CASE ~Further(kind)
    <3>1. Outwards \in Flows /\ EndWith(came.last, Outwards)
      BY <1>10, <1>f, <2>2, <2>3 DEF EndLoopBody, Outwards
    <3> QED
      BY <1>6, <1>e, <2>1, <2>2, <3>1
  <2>4. CASE Further(kind) /\ kind = "while"
    <3> DEFINE g == [Top EXCEPT !.testing = TRUE, !.held = came.last, !.block = EmptyBlock]
    <3>1. GoOn(g)
      BY <1>10, <2>4 DEF EndLoopBody
    <3>2. g \in Frame /\ g.kind = Top.kind
      BY <1>a, <1>f, <2>1, <2>2, OtherTest
    <3> HIDE DEF g
    <3> QED
      BY <1>6, <2>1, <3>1, <3>2
  <2>5. CASE Further(kind) /\ kind = "for"
    <3> DEFINE b == [came EXCEPT !.at = 0]
               g == [Top EXCEPT !.left = Top.left - 1, !.block = b]
    <3>1. GoOn(g)
      BY <1>10, <2>5 DEF EndLoopBody
    <3>2. b \in Block /\ Top.left - 1 \in 0 .. ITEMS
      BY <1>h, <2>1, <2>2, <2>5, ControlAssumption DEF Block, Further
    <3> HIDE DEF b
    <3>3. g \in Frame /\ g.kind = Top.kind
      BY <1>a, <1>f, <2>1, <2>2, <3>2, OtherTest
    <3> HIDE DEF g
    <3> QED
      BY <1>6, <2>1, <3>1, <3>3
  <2> QED
    BY <2>3, <2>4, <2>5
<1>11. CASE EndSelectTest \/ EndSelectBody
  <2>1. Blocked("select") /\ UNCHANGED <<depth, thrown, lands>> /\ "select" \in Within /\ "select" \in Tests
    BY <1>11, <1>b DEF EndSelectTest, EndSelectBody
  <2>2. /\ sig.flow \in Flows /\ came \in Block /\ came.shy \in BOOLEAN /\ came.last \in Results
        /\ Top.kind = "select" /\ [came EXCEPT !.at = 0] \in Block
    BY <1>d, <2>1, ControlAssumption DEF Block
  <2>3. CASE EndWith(came.last, sig.flow) \/ EndWith("none", "normal")
    BY <1>6, <1>e, <1>f, <2>1, <2>2, <2>3
  <2>4. ASSUME NEW b \in Block, GoOn([Top EXCEPT !.testing = FALSE, !.block = b])
        PROVE  Values' /\ Moves
    <3> DEFINE g == [Top EXCEPT !.testing = FALSE, !.block = b]
    <3>1. g \in Frame /\ g.kind = Top.kind
      BY <1>a, <1>f, <2>1, <2>2, OtherTest
    <3> HIDE DEF g
    <3> QED
      BY <1>6, <2>1, <2>4, <3>1 DEF g
  <2>5. ASSUME NEW b \in Block, Top.left > 0, GoOn([Top EXCEPT !.left = Top.left - 1, !.block = b])
        PROVE  Values' /\ Moves
    <3> DEFINE g == [Top EXCEPT !.left = Top.left - 1, !.block = b]
    <3>1. Top.left - 1 \in 0 .. ITEMS
      BY <1>h, <2>1, <2>2, <2>5
    <3>2. g \in Frame /\ g.kind = Top.kind
      BY <1>a, <1>f, <2>1, <2>2, <3>1, OtherTest
    <3> HIDE DEF g
    <3> QED
      BY <1>6, <2>1, <2>5, <3>2 DEF g
  <2> QED
    BY <1>11, <1>a, <2>2, <2>3, <2>4, <2>5 DEF EndSelectTest, EndSelectBody
<1> QED
  BY <1>1, <1>2, <1>3, <1>4, <1>5, <1>7, <1>8, <1>9, <1>10, <1>11

(* Steps that meet an error. *)
LEMMA ErrorsTyped ==
  ASSUME TypeInv, LevelInv, stack # <<>>, Unwind \/ Rescue \/ PassOn \/ Otherwise
  PROVE  Values' /\ Moves
<1> USE Typing, SignalsTyped, Signalled, Apart
<1>1. CASE Unwind
  <2>1. depth' \in 0 .. RECURSION_LIMIT
    BY <1>1, DepthAbove, ControlAssumption DEF Unwind, Values
  <2>2. sig' \in {Finished, sig} /\ sig.is = "err"
    BY <1>1 DEF Unwind
  <2>3. Values'
    BY <1>1, <2>1, <2>2 DEF Unwind, Values
  <2> QED
    BY <1>1, <2>2, <2>3, PopDrops DEF Unwind
<1>2. CASE Rescue
  <2> DEFINE g == [kind |-> "rest", block |-> EmptyBlock]
  <2>1. g \in Frame /\ g.kind = "rest" /\ Top.kind \in Within
    BY <1>2, BlocksTyped DEF Rescue, Plain, Within, RunsBlocks
  <2>2. Replace(g) /\ sig' = Run
    BY <1>2 DEF Rescue
  <2>3. UNCHANGED <<depth, shy>> /\ thrown' \in {thrown, Unthrown} /\ lands' \in {lands, 0}
    BY <1>2 DEF Rescue
  <2>4. 0 \in 0 .. HEIGHT
    BY ControlAssumption
  <2>5. Values'
    BY <2>2, <2>3, <2>4 DEF Values
  <2> HIDE DEF g
  <2> QED
    BY <2>1, <2>2, <2>5, GoOnPuts
<1>3. CASE PassOn
  <2>1. Values'
    BY <1>3 DEF PassOn, Values
  <2> QED
    BY <1>3, <2>1, PopDrops DEF PassOn
<1>4. CASE Otherwise
  <2> DEFINE g == [kind |-> "otherwise", block |-> EmptyBlock]
  <2>1. g \in Frame /\ g.kind = "otherwise" /\ Midway(g)
    BY BlocksTyped DEF Plain, Midway
  <2>2. 0 \in 0 .. HEIGHT
    BY ControlAssumption
  <2>3. Values' /\ sig' = InSentence
    BY <1>4, <2>2 DEF Otherwise, Values
  <2>4. Replace(g)
    BY <1>4 DEF Otherwise
  <2> HIDE DEF g
  <2>5. Puts(g)
    BY <2>1, <2>3, <2>4 DEF Puts, Replace, Other
  <2> QED
    BY <2>3, <2>5 DEF Moves
<1> QED
  BY <1>1, <1>2, <1>3, <1>4

LEMMA TypeInit == Init => TypeInv
<1> SUFFICES ASSUME Init PROVE TypeInv
  OBVIOUS
<1> DEFINE f == [kind |-> "program", block |-> EmptyBlock]
<1>1. stack = <<f>> /\ depth = 0 /\ thrown = Unthrown /\ shy = FALSE /\ sig = Run /\ lands = 0
  BY DEF Init
<1>2. f \in Frame
  BY BlocksTyped DEF Plain
<1> HIDE DEF f
<1>3. stack \in Seq(Frame) /\ Len(stack) = 1
  BY <1>1, <1>2
<1>4. 0 \in 0 .. RECURSION_LIMIT /\ 0 \in 0 .. HEIGHT /\ 1 <= HEIGHT
  BY ControlAssumption
<1>5. TypeOK
  BY <1>1, <1>3, <1>4, SignalsTyped DEF TypeOK
<1>6. Underway
  BY <1>1, <1>3, Signalled DEF Underway
<1> QED
  BY <1>5, <1>6 DEF TypeInv

LEMMA TypeNext == TypeInv /\ LevelInv /\ [Next]_vars => TypeInv'
<1> SUFFICES ASSUME TypeInv, LevelInv, [Next]_vars PROVE TypeInv'
  OBVIOUS
<1>1. CASE UNCHANGED vars
  <2>1. TypeOK'
    BY <1>1 DEF TypeInv, TypeOK, vars
  <2>2. Underway'
    BY <1>1 DEF TypeInv, Underway, Top, vars
  <2> QED
    BY <2>1, <2>2 DEF TypeInv
<1>2. CASE ~Ended /\ Step
  <2>1. stack # <<>>
    BY <1>2 DEF Ended
  <2>2. Values' /\ Moves
    BY <1>2, <2>1, BeginningsTyped, MiddlesTyped, EndingsTyped, ErrorsTyped DEF Step
  <2> QED
    BY <2>1, <2>2, PutsTyped, DropsTyped, AddsTyped DEF Moves
<1> QED
  BY <1>1, <1>2 DEF Next

(* Whatever the program, its forms and its errors, every frame keeps the   *)
(* shape its code gives it (run_block, run_body and each control sentence),*)
(* no block is read past its end, no loop or choice goes on past its items,*)
(* no body counts more steps than BRANCH_LIMIT and no level is outside     *)
(* RECURSION_LIMIT.                                                        *)
THEOREM ControlTyped == Spec => []TypeOK
<1>1. Init => TypeInv /\ LevelInv
  BY TypeInit, LevelInit
<1>2. TypeInv /\ LevelInv /\ [Next]_vars => (TypeInv /\ LevelInv)'
  BY TypeNext, LevelNext
<1>3. TypeInv => TypeOK
  BY DEF TypeInv
<1> QED
  BY <1>1, <1>2, <1>3, PTL DEF Spec
=============================================================================
