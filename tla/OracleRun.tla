----------------------------- MODULE OracleRun -----------------------------
(***************************************************************************)
(* One sentence run by a reference interpreter: oracle.rs of               *)
(* libjay-devtools.  The recorder starts a child in a group of its own,    *)
(* writes the sentence to it, reads both its pipes in threads of their own *)
(* and waits, with a limit and a cap; the child prints what it likes, may  *)
(* start a process of its own that holds the pipes too, and may exit, die  *)
(* or do neither.  Output is counted in units.                             *)
(***************************************************************************)
EXTENDS Integers, FiniteSets

CONSTANTS CAP,    \* units kept of one stream
          PIPE,   \* units a pipe holds
          MOST    \* bound: units the child and what it starts print on one stream

ASSUME OracleAssumption == {CAP, PIPE, MOST} \subseteq Nat \ {0}

VARIABLES pc,          \* where the recorder is
          attempt,     \* eval_patiently's
          child,       \* "none", "running", "exited" or "died"
          grandchild,  \* what the child started is running
          printed,     \* units printed on each stream
          piped,       \* units in each pipe
          kept,        \* units each drain thread has kept
          drain,       \* "none", "reading" or "ended"
          over,        \* over_cap of each drain
          late,        \* the deadline has passed
          cut,         \* cut_short
          died,        \* died
          reply

vars == <<pc, attempt, child, grandchild, printed, piped, kept, drain, over, late, cut, died, reply>>

recorder == <<pc, attempt, cut, died, reply>>
pipes    == <<printed, piped, kept, drain, over>>

Streams == {"out", "err"}
Replies == {"Finished", "Crashed", "TimedOut", "Overflowed", "Panic"}

TypeOK ==
  /\ pc \in {"spawn", "write", "poll", "check", "kill", "join", "done"}
  /\ attempt \in 1 .. 2
  /\ child \in {"none", "running", "exited", "died"} /\ grandchild \in BOOLEAN
  /\ printed \in [Streams -> 0 .. MOST] /\ piped \in [Streams -> 0 .. PIPE]
  /\ kept \in [Streams -> 0 .. CAP] /\ drain \in [Streams -> {"none", "reading", "ended"}]
  /\ over \in [Streams -> BOOLEAN] /\ {late, died} \subseteq BOOLEAN
  /\ cut \in {"no", "TimedOut", "Overflowed"}
  /\ reply \in Replies \cup {"none"}

Init ==
  /\ pc = "spawn" /\ attempt = 1 /\ reply = "none"
  /\ child = "none" /\ grandchild = FALSE
  /\ printed = [s \in Streams |-> 0] /\ piped = [s \in Streams |-> 0]
  /\ kept = [s \in Streams |-> 0] /\ over = [s \in Streams |-> FALSE]
  /\ drain = [s \in Streams |-> "none"]
  /\ late = FALSE /\ cut = "no" /\ died = FALSE
-----------------------------------------------------------------------------
(* The child, and what it starts. *)
Spawn ==
  /\ pc = "spawn" /\ pc' = "write"
  /\ child' = "running" /\ grandchild' = FALSE
  /\ printed' = [s \in Streams |-> 0] /\ piped' = [s \in Streams |-> 0]
  /\ kept' = [s \in Streams |-> 0] /\ over' = [s \in Streams |-> FALSE]
  /\ drain' = [s \in Streams |-> "none"]
  /\ late' = FALSE /\ cut' = "no" /\ died' = FALSE
  /\ UNCHANGED <<attempt, reply>>

Held == child = "running" \/ grandchild

(* A write to a pipe nobody reads any more kills the writer. *)
Emit(s) ==
  /\ Held /\ printed[s] < MOST
  /\ IF drain[s] = "ended"
     THEN /\ \/ child = "running" /\ child' = "died" /\ UNCHANGED grandchild
             \/ grandchild /\ grandchild' = FALSE /\ UNCHANGED child
          /\ UNCHANGED pipes
     ELSE /\ piped[s] < PIPE
          /\ piped' = [piped EXCEPT ![s] = @ + 1]
          /\ printed' = [printed EXCEPT ![s] = @ + 1]
          /\ UNCHANGED <<kept, drain, over, child, grandchild>>
  /\ UNCHANGED <<recorder, late>>

Fork == /\ child = "running" /\ grandchild' = TRUE
        /\ UNCHANGED <<recorder, pipes, child, late>>
End  == /\ \/ child = "running" /\ child' \in {"exited", "died"} /\ UNCHANGED grandchild
           \/ grandchild' = FALSE /\ UNCHANGED child
        /\ UNCHANGED <<recorder, pipes, late>>
-----------------------------------------------------------------------------
(* A drain thread reads what there is, keeps what there is room for, and   *)
(* ends at the cap or where nobody holds the pipe any more.                *)
Smaller(a, b) == IF a < b THEN a ELSE b
RoomFor(s, n)  == Smaller(n, CAP - kept[s])

Read(s) ==
  /\ drain[s] = "reading"
  /\ \/ \E n \in 1 .. piped[s] :
          /\ piped' = [piped EXCEPT ![s] = @ - n]
          /\ kept' = [kept EXCEPT ![s] = @ + RoomFor(s, n)]
          /\ over' = [over EXCEPT ![s] = RoomFor(s, n) < n]
          /\ drain' = IF RoomFor(s, n) < n THEN [drain EXCEPT ![s] = "ended"] ELSE drain
     \/ /\ piped[s] = 0 /\ ~Held
        /\ drain' = [drain EXCEPT ![s] = "ended"]
        /\ UNCHANGED <<piped, kept, over>>
  /\ UNCHANGED <<recorder, child, grandchild, printed, late>>

Clock == /\ pc \in {"poll", "check"} /\ ~late /\ late' = TRUE
         /\ UNCHANGED <<recorder, pipes, child, grandchild>>
-----------------------------------------------------------------------------
(* The recorder.  The sentence goes out before anything is read, and a     *)
(* child that is gone by then takes the recorder with it.                  *)
Write ==
  /\ pc = "write"
  /\ IF child = "running"
     THEN /\ pc' = "poll" /\ drain' = [s \in Streams |-> "reading"] /\ UNCHANGED reply
     ELSE /\ pc' = "done" /\ reply' = "Panic" /\ UNCHANGED drain
  /\ UNCHANGED <<attempt, cut, died, child, grandchild, printed, piped, kept, over, late>>

Poll ==
  /\ pc = "poll"
  /\ IF child = "running" THEN pc' = "check" /\ UNCHANGED died
                          ELSE pc' = "join" /\ died' = (child = "died")
  /\ UNCHANGED <<attempt, cut, reply, pipes, child, grandchild, late>>

Check ==
  /\ pc = "check"
  /\ LET over_cap == \E s \in Streams : over[s] IN
     IF over_cap \/ late
     THEN pc' = "kill" /\ cut' = IF over_cap THEN "Overflowed" ELSE "TimedOut"
     ELSE pc' = "poll" /\ UNCHANGED cut
  /\ UNCHANGED <<attempt, died, reply, pipes, child, grandchild, late>>

(* kill_group, and the wait for the child it has killed. *)
KillChildOnly == \* mutant of Kill: what the child started lives on
  /\ pc = "kill" /\ pc' = "join"
  /\ child' = IF child = "running" THEN "died" ELSE child
  /\ UNCHANGED <<attempt, cut, died, reply, pipes, grandchild, late>>

Kill ==
  /\ pc = "kill" /\ pc' = "join"
  /\ child' = IF child = "running" THEN "died" ELSE child
  /\ grandchild' = FALSE
  /\ UNCHANGED <<attempt, cut, died, reply, pipes, late>>

OneJoined   == \E s \in Streams : drain[s] = "ended"  \* mutant of Joined
Joined      == \A s \in Streams : drain[s] = "ended"
VerdictEarly == \* mutant of Verdict: no second look at the flags
  IF cut # "no" THEN cut ELSE IF died THEN "Crashed" ELSE "Finished"
Verdict ==
  IF cut # "no" THEN cut
  ELSE IF \E s \in Streams : over[s] THEN "Overflowed"
  ELSE IF died THEN "Crashed" ELSE "Finished"

(* The end of wait_within, and eval_patiently's second try. *)
Join ==
  /\ pc = "join" /\ Joined
  /\ IF Verdict = "TimedOut" /\ attempt = 1
     THEN pc' = "spawn" /\ attempt' = 2 /\ UNCHANGED reply
     ELSE pc' = "done" /\ reply' = Verdict /\ UNCHANGED attempt
  /\ UNCHANGED <<cut, died, pipes, child, grandchild, late>>

Recorder == Spawn \/ Write \/ Poll \/ Check \/ Kill \/ Join

Next == Recorder \/ Clock \/ Fork \/ End \/ \E s \in Streams : Emit(s) \/ Read(s)

(* Time passes and the recorder's threads run; the child owes nobody       *)
(* anything, and nor does what it starts.                                  *)
Spec == /\ Init /\ [][Next]_vars
        /\ WF_vars(Recorder) /\ WF_vars(Clock) /\ \A s \in Streams : WF_vars(Read(s))
-----------------------------------------------------------------------------
(* What is taken for an answer is all of it: every unit printed was read   *)
(* and kept, whenever the child exits, overflows and outstays its limit    *)
(* ("an abbreviation recorded as an answer is a wrong answer").            *)
AnswerIsWhole ==
  reply \in {"Finished", "Crashed"} =>
    \A s \in Streams : kept[s] = printed[s] /\ piped[s] = 0

(* The recorder leaves no thread behind on any path, and no process where  *)
(* it cut the run short, so the next attempt has the machine to itself     *)
(* ("Both drain threads are joined on EVERY path"; kill_group).            *)
NothingLeftBehind ==
  (pc = "done" /\ reply # "Panic") \/ (pc = "spawn" /\ attempt = 2) =>
    /\ \A s \in Streams : drain[s] = "ended"
    /\ child # "running"
    /\ cut # "no" => ~grandchild

(* With a limit set, a sentence gets its reply whatever the child does,    *)
(* unless the child is gone and what it started still holds the pipes: the *)
(* one case in which nothing is killed and the joins wait for it.          *)
Lingering == cut = "no" /\ child \in {"exited", "died"} /\ grandchild
Answered  == []<>(pc = "done" \/ Lingering)
=============================================================================
