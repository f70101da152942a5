--------------------------- MODULE OracleRunProofs ---------------------------
(***************************************************************************)
(* What the runner of a reference interpreter promises, for every cap and  *)
(* every size of pipe.                                                     *)
(***************************************************************************)
EXTENDS OracleRun, TLAPS

(* A unit that was not thrown away is kept or still in its pipe. *)
Ledger == \A s \in Streams : ~over[s] => kept[s] + piped[s] = printed[s]

(* A drain ends where it ran over, or where the pipe is empty and nobody   *)
(* is left to write to it.                                                 *)
EndedForGood == \A s \in Streams : drain[s] = "ended" /\ ~over[s] => piped[s] = 0 /\ ~Held

(* Only a drain that has ended ran over. *)
OverEnded == \A s \in Streams : over[s] => drain[s] = "ended"

(* The drains start with the first look at the child. *)
Unread == pc = "write" => \A s \in Streams : ~over[s] /\ drain[s] = "none"

(* Where the recorder is says what has become of the child. *)
ChildGone == pc \in {"join", "done"} \/ (pc = "spawn" /\ attempt = 2) =>
               child # "running" /\ (cut # "no" => ~grandchild)

CutBefore == cut # "no" => pc \in {"kill", "join", "done"} \/ (pc = "spawn" /\ attempt = 2)

(* A reply, and a second attempt, come after both joins. *)
AfterJoins == (pc = "done" /\ reply # "Panic") \/ (pc = "spawn" /\ attempt = 2) => Joined

(* An answer is given where nothing ran over. *)
RepliedAtEnd == /\ reply # "none" => pc = "done"
                /\ reply \in {"Finished", "Crashed"} => \A s \in Streams : ~over[s]

IInv == /\ TypeOK /\ Ledger /\ OverEnded /\ EndedForGood /\ Unread
        /\ ChildGone /\ CutBefore /\ AfterJoins /\ RepliedAtEnd

-----------------------------------------------------------------------------
(* The sizes are positive whole numbers. *)
LEMMA Sizes == CAP \in Nat /\ PIPE \in Nat /\ MOST \in Nat
BY OracleAssumption

(* What a drain keeps of what it has read fits, is no more than it read,   *)
(* and is all of it unless it says that it ran over.                       *)
LEMMA RoomForFits ==
  ASSUME TypeOK, NEW s \in Streams, NEW n \in Nat
  PROVE  /\ RoomFor(s, n) \in Nat
         /\ kept[s] + RoomFor(s, n) \in 0 .. CAP
         /\ RoomFor(s, n) = n \/ RoomFor(s, n) < n
BY Sizes DEF TypeOK, RoomFor, Smaller

LEMMA InitHolds == Init => IInv
<1> SUFFICES ASSUME Init PROVE IInv
  OBVIOUS
<1>1. TypeOK
  <2>1. /\ 0 \in 0 .. MOST /\ 0 \in 0 .. PIPE /\ 0 \in 0 .. CAP /\ 1 \in 1 .. 2
    BY Sizes
  <2> QED BY <2>1 DEF Init, TypeOK
<1>2. Ledger /\ OverEnded /\ EndedForGood /\ Unread BY DEF Init, Ledger, OverEnded, EndedForGood, Unread
<1>3. ChildGone /\ CutBefore /\ AfterJoins /\ RepliedAtEnd
  BY DEF Init, ChildGone, CutBefore, AfterJoins, RepliedAtEnd
<1> QED BY <1>1, <1>2, <1>3 DEF IInv

LEMMA TypesKept == TypeOK /\ [Next]_vars => TypeOK'
<1> SUFFICES ASSUME TypeOK, [Next]_vars PROVE TypeOK'
  OBVIOUS
<1> USE Sizes DEF TypeOK, recorder, pipes
<1>1. CASE Spawn
  <2>1. 0 \in 0 .. MOST /\ 0 \in 0 .. PIPE /\ 0 \in 0 .. CAP
    BY Sizes
  <2> QED BY <1>1, <2>1, Zenon DEF Spawn
<1>2. CASE Write BY <1>2 DEF Write, Replies
<1>3. CASE Poll BY <1>3 DEF Poll
<1>4. CASE Check BY <1>4 DEF Check
<1>5. CASE Kill BY <1>5 DEF Kill
<1>6. CASE Join
  <2>1. Verdict \in Replies BY DEF Verdict, Replies
  <2> QED BY <1>6, <2>1 DEF Join
<1>7. CASE Clock BY <1>7 DEF Clock
<1>8. CASE Fork BY <1>8 DEF Fork
<1>9. CASE End BY <1>9 DEF End
<1>10. ASSUME NEW s \in Streams, Emit(s) PROVE TypeOK'
  <2>1. CASE UNCHANGED pipes BY <1>10, <2>1 DEF Emit
  <2>2. CASE piped[s] < PIPE /\ UNCHANGED <<kept, drain, over, child, grandchild>>
    <3>1. printed[s] + 1 \in 0 .. MOST /\ piped[s] + 1 \in 0 .. PIPE
      BY <1>10, <2>2 DEF Emit
    <3> QED BY <1>10, <2>2, <3>1 DEF Emit
  <2> QED BY <1>10, <2>1, <2>2 DEF Emit
<1>11. ASSUME NEW s \in Streams, Read(s) PROVE TypeOK'
  <2>1. CASE \E n \in 1 .. piped[s] :
          /\ piped' = [piped EXCEPT ![s] = @ - n]
          /\ kept' = [kept EXCEPT ![s] = @ + RoomFor(s, n)]
          /\ over' = [over EXCEPT ![s] = RoomFor(s, n) < n]
          /\ drain' = IF RoomFor(s, n) < n THEN [drain EXCEPT ![s] = "ended"] ELSE drain
    <3>1. PICK n \in 1 .. piped[s] :
          /\ piped' = [piped EXCEPT ![s] = @ - n]
          /\ kept' = [kept EXCEPT ![s] = @ + RoomFor(s, n)]
          /\ over' = [over EXCEPT ![s] = RoomFor(s, n) < n]
          /\ drain' = IF RoomFor(s, n) < n THEN [drain EXCEPT ![s] = "ended"] ELSE drain
      BY <2>1
    <3>2. kept[s] + RoomFor(s, n) \in 0 .. CAP
      BY RoomForFits, <1>11, <3>1
    <3>3. piped[s] - n \in 0 .. PIPE
      BY <1>11, <3>1
    <3> QED BY <1>11, <3>1, <3>2, <3>3 DEF Read
  <2>2. CASE drain' = [drain EXCEPT ![s] = "ended"] /\ UNCHANGED <<piped, kept, over>>
    BY <1>11, <2>2 DEF Read
  <2> QED BY <1>11, <2>1, <2>2 DEF Read
<1>12. CASE UNCHANGED vars BY <1>12 DEF vars
<1> QED
  BY <1>1, <1>2, <1>3, <1>4, <1>5, <1>6, <1>7, <1>8, <1>9, <1>10, <1>11, <1>12 DEF Next, Recorder

(* Spawn sets both streams afresh, and nothing else adds to what was       *)
(* printed, read or kept but Emit and Read.                                *)
LEMMA LedgerKept == IInv /\ [Next]_vars => Ledger'
<1> SUFFICES ASSUME IInv, [Next]_vars PROVE Ledger'
  OBVIOUS
<1> USE DEF IInv, Ledger, recorder, pipes
<1>1. CASE Spawn BY <1>1 DEF Spawn
<1>2. CASE Write BY <1>2 DEF Write
<1>3. CASE Poll \/ Check \/ Join BY <1>3 DEF Poll, Check, Join
<1>4. CASE Kill BY <1>4 DEF Kill
<1>5. CASE Clock \/ Fork \/ End BY <1>5 DEF Clock, Fork, End
<1>6. ASSUME NEW s \in Streams, Emit(s) PROVE Ledger'
  <2>1. CASE UNCHANGED pipes BY <2>1
  <2>2. CASE /\ piped' = [piped EXCEPT ![s] = @ + 1]
             /\ printed' = [printed EXCEPT ![s] = @ + 1]
             /\ UNCHANGED <<kept, over>>
    BY <2>2, Sizes DEF TypeOK
  <2> QED BY <1>6, <2>1, <2>2 DEF Emit
<1>7. ASSUME NEW s \in Streams, Read(s) PROVE Ledger'
  <2>1. CASE UNCHANGED <<piped, kept, over>> BY <1>7, <2>1 DEF Read
  <2>2. ASSUME NEW n \in 1 .. piped[s],
               piped' = [piped EXCEPT ![s] = @ - n],
               kept' = [kept EXCEPT ![s] = @ + RoomFor(s, n)],
               over' = [over EXCEPT ![s] = RoomFor(s, n) < n],
               UNCHANGED printed, drain[s] = "reading"
        PROVE Ledger'
    <3>1. n \in Nat /\ piped[s] \in Nat /\ kept[s] \in Nat /\ RoomFor(s, n) \in Nat
      BY <2>2, Sizes, RoomForFits DEF TypeOK
    <3>2. ~over[s] BY <2>2 DEF OverEnded
    <3>3. /\ piped'[s] = piped[s] - n /\ kept'[s] = kept[s] + RoomFor(s, n)
          /\ over'[s] = (RoomFor(s, n) < n) /\ printed'[s] = printed[s]
      BY <2>2 DEF TypeOK
    <3>5. ~(RoomFor(s, n) < n) => RoomFor(s, n) = n
      BY <3>1, RoomForFits
    <3>6. printed[s] \in Nat /\ kept[s] + piped[s] = printed[s]
      BY <3>2, Sizes DEF TypeOK
    <3>7. ~over'[s] => kept'[s] + piped'[s] = printed'[s]
      <4>1. ~over'[s] => RoomFor(s, n) = n BY <3>3, <3>5, Zenon
      <4>2. RoomFor(s, n) = n => kept'[s] + piped'[s] = printed'[s]
        BY <3>1, <3>3, <3>6
      <4> QED BY <4>1, <4>2, Zenon
    <3>4. \A t \in Streams \ {s} : kept'[t] = kept[t] /\ piped'[t] = piped[t] /\ over'[t] = over[t]
      BY <2>2 DEF TypeOK
    <3> QED BY <2>2, <3>7, <3>4
  <2> QED BY <1>7, <2>1, <2>2 DEF Read
<1>8. CASE UNCHANGED vars BY <1>8 DEF vars
<1> QED
  BY <1>1, <1>2, <1>3, <1>4, <1>5, <1>6, <1>7, <1>8 DEF Next, Recorder

(* Nobody comes to hold a pipe again that nobody held: a child starts only *)
(* with the streams, and what it starts, while it runs.                    *)
LEMMA EndedKept == IInv /\ [Next]_vars => OverEnded' /\ EndedForGood'
<1> SUFFICES ASSUME IInv, [Next]_vars PROVE OverEnded' /\ EndedForGood'
  OBVIOUS
<1> USE DEF IInv, OverEnded, EndedForGood, Held, recorder, pipes
<1>1. CASE Spawn BY <1>1 DEF Spawn
<1>2. CASE Write BY <1>2 DEF Write, Unread
<1>3. CASE Poll \/ Check \/ Join BY <1>3 DEF Poll, Check, Join
<1>4. CASE Kill BY <1>4 DEF Kill
<1>5. CASE Clock \/ Fork \/ End BY <1>5 DEF Clock, Fork, End
<1>6. ASSUME NEW s \in Streams, Emit(s) PROVE OverEnded' /\ EndedForGood'
  <2>1. CASE drain[s] = "ended" BY <1>6, <2>1 DEF Emit
  <2>2. CASE drain[s] # "ended" BY <1>6, <2>2 DEF Emit, TypeOK
  <2> QED BY <2>1, <2>2
<1>7. ASSUME NEW s \in Streams, Read(s) PROVE OverEnded' /\ EndedForGood'
  BY <1>7, Sizes DEF Read, TypeOK
<1>8. CASE UNCHANGED vars BY <1>8 DEF vars
<1> QED
  BY <1>1, <1>2, <1>3, <1>4, <1>5, <1>6, <1>7, <1>8 DEF Next, Recorder

(* The recorder's own steps decide, and the child's only go one way.       *)
LEMMA PlaceKept == IInv /\ [Next]_vars => Unread' /\ ChildGone' /\ CutBefore' /\ AfterJoins' /\ RepliedAtEnd'
<1> SUFFICES ASSUME IInv, [Next]_vars
             PROVE Unread' /\ ChildGone' /\ CutBefore' /\ AfterJoins' /\ RepliedAtEnd'
  OBVIOUS
<1> USE DEF IInv, Unread, ChildGone, CutBefore, AfterJoins, RepliedAtEnd, recorder, pipes
<1>1. CASE Spawn BY <1>1 DEF Spawn, TypeOK, Joined
<1>2. CASE Write BY <1>2 DEF Write, TypeOK, Joined
<1>3. CASE Poll BY <1>3 DEF Poll, TypeOK, Joined
<1>4. CASE Check BY <1>4 DEF Check, TypeOK, Joined
<1>5. CASE Kill BY <1>5 DEF Kill, TypeOK, Joined
<1>6. CASE Join BY <1>6 DEF Join, Verdict, TypeOK, Joined
<1>7. CASE Clock \/ Fork \/ End BY <1>7 DEF Clock, Fork, End, TypeOK, Joined
<1>8. ASSUME NEW s \in Streams, Emit(s)
      PROVE Unread' /\ ChildGone' /\ CutBefore' /\ AfterJoins' /\ RepliedAtEnd'
  BY <1>8 DEF Emit, TypeOK, Joined
<1>9. ASSUME NEW s \in Streams, Read(s)
      PROVE Unread' /\ ChildGone' /\ CutBefore' /\ AfterJoins' /\ RepliedAtEnd'
  <2>1. ~Joined BY <1>9 DEF Read, Joined
  <2>2. UNCHANGED <<recorder, child, grandchild>> BY <1>9 DEF Read
  <2> QED BY <1>9, <2>1, <2>2 DEF Read, TypeOK, Joined
<1>10. CASE UNCHANGED vars BY <1>10 DEF vars, Joined
<1> QED
  BY <1>1, <1>2, <1>3, <1>4, <1>5, <1>6, <1>7, <1>8, <1>9, <1>10 DEF Next, Recorder

-----------------------------------------------------------------------------
(* The invariant holds of every state of every run. *)
LEMMA IInvAlways == Spec => []IInv
<1>1. IInv /\ [Next]_vars => IInv'
  BY TypesKept, LedgerKept, EndedKept, PlaceKept DEF IInv
<1> QED BY InitHolds, <1>1, PTL DEF Spec

(* Types and sizes: no drain keeps more than the cap, no pipe holds more   *)
(* than it can.                                                            *)
THEOREM TypeOKAlways == Spec => []TypeOK
<1>1. IInv => TypeOK BY DEF IInv
<1> QED BY IInvAlways, <1>1, PTL

(* What wait_within hands on as an answer is everything the child and what *)
(* it started have printed, whatever the cap.                              *)
THEOREM AnswerIsWholeAlways == Spec => []AnswerIsWhole
<1>1. IInv => AnswerIsWhole
  <2> SUFFICES ASSUME IInv, reply \in {"Finished", "Crashed"}, NEW s \in Streams
               PROVE kept[s] = printed[s] /\ piped[s] = 0
    BY DEF AnswerIsWhole
  <2>1. drain[s] = "ended" /\ ~over[s]
    BY DEF IInv, RepliedAtEnd, AfterJoins, Joined
  <2>2. piped[s] = 0 BY <2>1 DEF IInv, EndedForGood
  <2> QED BY <2>1, <2>2, Sizes DEF IInv, Ledger, TypeOK
<1> QED BY IInvAlways, <1>1, PTL

(* Every reply but a panic, and every second attempt, comes after both     *)
(* drains have ended, the child is gone, and a run cut short has left no   *)
(* process of its group.                                                   *)
THEOREM NothingLeftBehindAlways == Spec => []NothingLeftBehind
<1>1. IInv => NothingLeftBehind
  BY DEF IInv, AfterJoins, ChildGone, Joined, NothingLeftBehind
<1> QED BY IInvAlways, <1>1, PTL
=============================================================================
