----------------------------- MODULE SweepJournal -----------------------------
(***************************************************************************)
(* A supervised sweep: supervise, run_worker, work and read of             *)
(* src/crates/libjay-devtools/src/journal.rs.  A worker process measures   *)
(* the probes on several threads and appends what it does to a journal;    *)
(* the supervisor reads the journal, names what a dead worker had in       *)
(* flight and starts another.  The worker may die at any moment, in the    *)
(* middle of writing a line among others.                                  *)
(*                                                                         *)
(* `say` writes a record and its newline one after the other, so a worker  *)
(* that dies leaves one of `Tears` at the end of the file: "newline", the  *)
(* record and no newline; "short", a piece with too few fields to be a     *)
(* record; "last", a result cut inside its last field; "char", a piece cut *)
(* inside a character, which makes the file unreadable as text.  A cut     *)
(* inside an announced sentence, which announces another, is left out.     *)
(***************************************************************************)
EXTENDS Integers, Sequences, FiniteSets

CONSTANTS Probes,   \* the distinct probes of the sweep
          Fatal,    \* the ones that kill the process measuring them
          Stuck,    \* the ones that are never measured
          Threads,  \* the worker's threads
          Tears,
          KILLS     \* bound: how often something else kills a worker

ASSUME SweepAssumption ==
  /\ Fatal \cup Stuck \subseteq Probes /\ Fatal \cap Stuck = {}
  /\ Tears \subseteq {"newline", "short", "last", "char"}
  /\ KILLS \in Nat
  /\ IsFiniteSet(Probes) /\ IsFiniteSet(Threads)

VARIABLES journal,  \* the lines of the file
          phase,    \* where the supervisor's loop is
          before,   \* what was held when the worker was started
          left,     \* the probes no thread has taken yet
          pc, cur,  \* each thread's place in `work` and the probe it has
          kills,
          recorded  \* history: the probes a whole result was written for

workerVars == <<left, pc, cur>>
vars == <<journal, phase, before, left, pc, cur, kills, recorded>>

Lines == [is : {"announce", "result", "died", "piece", "cut", "split"},
          probe : Probes, ended : BOOLEAN]
Places == {"idle", "announce", "announced", "measure", "record", "recorded"}

TypeOK ==
  /\ journal \in Seq(Lines)
  /\ \A i \in 1 .. Len(journal) - 1 : journal[i].ended
  /\ phase \in {"look", "running", "died", "done", "gave_up"}
  /\ before \in 0 .. Cardinality(Probes)
  /\ left \subseteq Probes
  /\ pc \in [Threads -> Places]
  /\ cur \in [Threads -> Probes]
  /\ kills \in 0 .. KILLS
  /\ recorded \subseteq Probes
-----------------------------------------------------------------------------
(* The file.  What is appended to a line without a newline joins it, and   *)
(* the two together have too many fields, or too few, for a record: a      *)
(* "piece".  Nothing is ever read again from a file that is not text, so   *)
(* what is appended to it is not kept.                                     *)
Line(is, p, ended) == [is |-> is, probe |-> p, ended |-> ended]

Open(j) == j # <<>> /\ ~j[Len(j)].ended

Unreadable(j) == \E i \in DOMAIN j : j[i].is = "split"

Write(j, is, p, ended) ==
  IF Unreadable(j) THEN j
  ELSE IF Open(j)
  THEN [j EXCEPT ![Len(j)] = Line("piece", @.probe, ended)]
  ELSE Append(j, Line(is, p, ended))

EndLine(j) == IF Unreadable(j) THEN j ELSE [j EXCEPT ![Len(j)].ended = TRUE]

(* `read`: the lines that count, terminated or not, unless the file is not *)
(* text.                                                                   *)
ReadableKind(j, kinds) ==
  IF Unreadable(j) THEN {}
  ELSE {j[i].probe : i \in {k \in DOMAIN j : j[k].is \in kinds}}

Mangled  == {journal[i].probe : i \in {k \in DOMAIN journal : journal[k].is = "piece"}}
Results  == ReadableKind(journal, {"result", "died", "cut"})
InFlight == ReadableKind(journal, {"announce"}) \ Results

Held(results) == Cardinality(Probes \cap results)
-----------------------------------------------------------------------------
Nobody == [t \in Threads |-> "idle"]

Init ==
  /\ journal = <<>>
  /\ phase = "look"
  /\ before = 0
  /\ left = {}
  /\ pc = Nobody
  /\ cur \in [Threads -> Probes] /\ \A t, u \in Threads : cur[t] = cur[u]
  /\ kills = 0
  /\ recorded = {}

(* The supervisor's loop: all held; a dead worker's probes to name; or     *)
(* probes left to measure.                                                 *)
Finish ==
  /\ phase = "look" /\ Held(Results) >= Cardinality(Probes)
  /\ phase' = "done"
  /\ UNCHANGED <<journal, before, workerVars, kills, recorded>>

(* The probes in flight are named in the order they were announced in, the *)
(* first on the line a dead worker has left open, if it has left one.      *)
Order(S) == CHOOSE s \in [1 .. Cardinality(S) -> S] : \A p \in S : \E i \in DOMAIN s : s[i] = p

NameInFlight ==
  /\ phase = "look" /\ Held(Results) < Cardinality(Probes) /\ InFlight # {}
  /\ LET names == Order(InFlight) IN
     journal' = Write(journal, "died", names[1], TRUE)
                  \o [i \in 1 .. Len(names) - 1 |-> Line("died", names[i + 1], TRUE)]
  /\ UNCHANGED <<phase, before, workerVars, kills, recorded>>

StartAnyway == \* mutant of StartWorker: what was in flight is not looked at
  /\ phase = "look" /\ Held(Results) < Cardinality(Probes)
  /\ phase' = "running"
  /\ before' = Held(Results)
  /\ left' = Probes \ Results
  /\ pc' = Nobody
  /\ UNCHANGED <<journal, cur, kills, recorded>>

StartAfresh == \* mutant of StartWorker: what is held is measured again
  /\ phase = "look" /\ Held(Results) < Cardinality(Probes) /\ InFlight = {}
  /\ phase' = "running"
  /\ before' = Held(Results)
  /\ left' = Probes
  /\ pc' = Nobody
  /\ UNCHANGED <<journal, cur, kills, recorded>>

StartWorker ==
  /\ phase = "look" /\ Held(Results) < Cardinality(Probes) /\ InFlight = {}
  /\ phase' = "running"
  /\ before' = Held(Results)
  /\ left' = Probes \ Results
  /\ pc' = Nobody
  /\ UNCHANGED <<journal, cur, kills, recorded>>

(* After a worker that did not finish. *)
Judge ==
  /\ phase = "died"
  /\ phase' = IF Held(Results) = before /\ InFlight = {} THEN "gave_up" ELSE "look"
  /\ UNCHANGED <<journal, before, workerVars, kills, recorded>>
-----------------------------------------------------------------------------
(* The worker's threads. *)
Go(t, place) == pc' = [pc EXCEPT ![t] = place]
Unlocked     == \A t \in Threads : pc[t] \notin {"announced", "recorded"}

Take(t, p) ==
  /\ phase = "running" /\ pc[t] = "idle" /\ p \in left
  /\ left' = left \ {p}
  /\ cur' = [cur EXCEPT ![t] = p]
  /\ Go(t, "announce")
  /\ UNCHANGED <<journal, phase, before, kills, recorded>>

(* `say`, the record and then the newline, under the journal's lock. *)
SayRecord(t) ==
  /\ phase = "running" /\ pc[t] \in {"announce", "record"} /\ Unlocked
  /\ IF pc[t] = "announce"
     THEN /\ journal' = Write(journal, "announce", cur[t], FALSE)
          /\ Go(t, "announced")
          /\ UNCHANGED recorded
     ELSE /\ journal' = Write(journal, "result", cur[t], FALSE)
          /\ Go(t, "recorded")
          /\ recorded' = recorded \cup {cur[t]}
  /\ UNCHANGED <<phase, before, left, cur, kills>>

SayNewline(t) ==
  /\ phase = "running" /\ pc[t] \in {"announced", "recorded"}
  /\ journal' = EndLine(journal)
  /\ Go(t, IF pc[t] = "announced" THEN "measure" ELSE "idle")
  /\ UNCHANGED <<phase, before, left, cur, kills, recorded>>

Measure(t) ==
  /\ phase = "running" /\ pc[t] = "measure" /\ cur[t] \notin Fatal \cup Stuck
  /\ Go(t, "record")
  /\ UNCHANGED <<journal, phase, before, left, cur, kills, recorded>>

EndWorker ==
  /\ phase = "running" /\ left = {} /\ pc = Nobody
  /\ phase' = "look"
  /\ UNCHANGED <<journal, before, workerVars, kills, recorded>>

(* What a dying worker leaves of a record a thread has begun to write. *)
Torn ==
  LET begun == {t \in Threads : Unlocked /\ pc[t] \in {"announce", "record"}}
      leaves(t) == (IF "short" \in Tears THEN {"piece"} ELSE {})
                   \cup (IF "last" \in Tears /\ pc[t] = "record" THEN {"cut"} ELSE {})
                   \cup (IF "char" \in Tears THEN {"split"} ELSE {})
  IN  {journal} \cup UNION {{Write(journal, is, cur[t], FALSE) : is \in leaves(t)} : t \in begun}

Die ==
  /\ "newline" \in Tears \/ Unlocked
  /\ journal' \in Torn
  /\ phase' = "died"
  /\ pc' = Nobody /\ left' = {}
  /\ UNCHANGED <<before, cur, recorded>>

(* A fatal signal; something outside; and the supervisor, for a sentence   *)
(* in flight too long (which it sees announced) or a journal that has      *)
(* stopped growing.                                                        *)
FatalSignal(t) ==
  /\ phase = "running" /\ pc[t] = "measure" /\ cur[t] \in Fatal
  /\ Die /\ UNCHANGED kills

Killed ==
  /\ phase = "running" /\ kills < KILLS
  /\ Die /\ kills' = kills + 1

Hangs(t) == pc[t] = "measure" /\ cur[t] \in Stuck

CapKill(t) ==
  /\ phase = "running" /\ Hangs(t) /\ cur[t] \in InFlight
  /\ Die /\ UNCHANGED kills

StallKillBusy == \* mutant of StallKill: a thread with nothing to do is no sign
  /\ phase = "running" /\ \A t \in Threads : Hangs(t)
  /\ Die /\ UNCHANGED kills

StallKill ==
  /\ phase = "running" /\ \E t \in Threads : Hangs(t)
  /\ \A t \in Threads : Hangs(t) \/ (pc[t] = "idle" /\ left = {})
  /\ Die /\ UNCHANGED kills

Supervisor == Finish \/ NameInFlight \/ StartWorker \/ Judge \/ StallKill
              \/ \E t \in Threads : CapKill(t)
Thread(t) == \/ \E p \in Probes : Take(t, p)
             \/ SayRecord(t) \/ SayNewline(t) \/ Measure(t) \/ FatalSignal(t)

Next == Supervisor \/ EndWorker \/ Killed \/ \E t \in Threads : Thread(t)

Spec == Init /\ [][Next]_vars

(* Threads run, a fatal signal comes, and the supervisor looks every 200   *)
(* milliseconds; only Killed need never happen.                            *)
FairSpec == Spec /\ WF_vars(Supervisor) /\ WF_vars(EndWorker)
                 /\ \A t \in Threads : WF_vars(Thread(t))
-----------------------------------------------------------------------------
(* However workers die, the sweep comes to an end: every probe is answered *)
(* for, or the supervisor says it cannot go on (the loop of supervise).    *)
SweepEnds == <>(phase \in {"done", "gave_up"})

(* A probe whose result is written is neither named as having killed the   *)
(* runner nor measured again ("The journal is the measurement; the process *)
(* that made it is replaceable").                                          *)
MeasuredIsSettled ==
  [][/\ \A i \in DOMAIN journal' : journal'[i].is = "died" => journal'[i].probe \notin recorded
     /\ \A t \in Threads : pc[t] = "idle" /\ pc'[t] = "announce" => cur'[t] \notin recorded]_vars

(* When a worker has died, the supervisor knows which probes were in       *)
(* flight, "at most one per thread", but for those of which a line was cut *)
(* short or joined by the next.                                            *)
InFlightPerThread == phase = "died" => Cardinality(InFlight \ Mangled) <= Cardinality(Threads)
=============================================================================
