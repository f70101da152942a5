-------------------------------- MODULE Pool --------------------------------
(***************************************************************************)
(* Verbs applied to cells on several threads: each_cell of verb.rs, the    *)
(* pool of par.rs, and the two things a thread keeps to itself meanwhile,  *)
(* NESTING and FOLD_STOPS.  A worker that waits for cells of its own runs  *)
(* whatever cell there is to run, on top of what it already has begun.     *)
(*                                                                         *)
(* A program is a sequence of layers, each applied to the next: a fold, a  *)
(* `n Z: v` (the next layer is its v), a verb over cells too few to split, *)
(* and one over cells worth splitting.  Under the last is a verb that      *)
(* answers or is refused.                                                  *)
(***************************************************************************)
EXTENDS Integers, Sequences, FiniteSets, SequencesExt

CONSTANTS Hosts,        \* threads of the host, each running the program
          Workers,      \* the pool's threads
          Programs,     \* the programs, one of which the hosts run
          MAX_NESTING,
          CELLS,        \* cells in a frame
          STEPS         \* steps of a fold

ASSUME PoolAssumption ==
  /\ Hosts \cap Workers = {}
  /\ Cardinality(Workers) > 1
  /\ {MAX_NESTING, CELLS, STEPS} \subseteq Nat \ {0}

Threads  == Hosts \cup Workers
Layers   == {"fold", "stop", "cells", "pool"}
Controls == -2 .. 1
NoStop   == 2

(* A program: its layers, the control its stops leave, and the indices at  *)
(* which the innermost verb is refused.                                    *)
IsProgram(p) == /\ p.layers \in Seq(Layers) /\ p.control \in Controls
                /\ p.refused \subseteq 1 .. CELLS
ASSUME ProgramsAssumption == \A p \in Programs : IsProgram(p)

VARIABLES program,
          stack,    \* the applications begun on each thread, innermost last
          nesting,  \* NESTING of each thread
          stops,    \* FOLD_STOPS of each thread
          told,     \* what the application that has just ended came to, per thread
          cells,    \* cells handed to the pool and not begun
          answer    \* what the program came to, per host

vars == <<program, stack, nesting, stops, told, cells, answer>>

Fine(v)    == [is |-> "fine", at |-> <<>>, value |-> v]
Bad(e, at) == [is |-> e, at |-> at, value |-> <<>>]
Nothing    == [is |-> "nothing", at |-> <<>>, value |-> <<>>]
-----------------------------------------------------------------------------
(* What a stop's control says: the step is kept; the fold ends with it. *)
Kept(c)  == c \in {NoStop, 1}
Ended(c) == c \in {-2, 1}
-----------------------------------------------------------------------------
(* An application begun: its layer and its argument; how many cells or     *)
(* steps it has begun; what they came to (for a fold, the steps kept);     *)
(* whether a step was left out; and the cell it is the whole of, if any.   *)
NoCell == <<>>
Application(n, path, cell) ==
  [layer |-> n, path |-> path, begun |-> 0, got |-> <<>>, lost |-> FALSE, cell |-> cell]

LayerOf(p, n) == IF n > Len(p.layers) THEN "verb" ELSE p.layers[n]
Layer(n)   == LayerOf(program, n)
Kind(f)    == Layer(f.layer)
Top(t)     == stack[t][Len(stack[t])]
On(t, k)   == stack[t] # <<>> /\ Kind(Top(t)) = k
Changed(t, f) == [stack EXCEPT ![t][Len(stack[t])] = f]

(* Where an answer goes: to the application underneath, or, where a cell   *)
(* has been handed to the pool, to the one that waits for it.              *)
Answering(st, t, v, cell) ==
  IF cell = NoCell
  THEN stack' = st /\ told' = [told EXCEPT ![t] = v]
  ELSE /\ stack' = [st EXCEPT ![cell[1]][cell[2]].got[cell[3]] = v]
       /\ told' = [told EXCEPT ![t] = Nothing]

(* Nesting::enter, with fold_family's frame opened at once after it. *)
Enter(st, t, n, path, cell) ==
  IF nesting[t] < MAX_NESTING
  THEN /\ stack' = [st EXCEPT ![t] = Append(@, Application(n, path, cell))]
       /\ nesting' = [nesting EXCEPT ![t] = @ + 1]
       /\ told' = [told EXCEPT ![t] = Nothing]
       /\ stops' = IF Layer(n) = "fold" THEN [stops EXCEPT ![t] = Append(@, NoStop)] ELSE stops
  ELSE Answering(st, t, Bad("limit", <<>>), cell) /\ UNCHANGED <<nesting, stops>>

(* The application on top of t comes to v: Nesting and FoldFrame are       *)
(* dropped, whichever way it leaves.                                       *)
LeaveCounted(t, v) == \* mutant of Leave: a refusal leaves its level behind
  /\ Answering([stack EXCEPT ![t] = Front(@)], t, v, Top(t).cell)
  /\ nesting' = IF v.is = "fine" THEN [nesting EXCEPT ![t] = @ - 1] ELSE nesting
  /\ stops' = IF On(t, "fold") THEN [stops EXCEPT ![t] = Front(@)] ELSE stops

Leave(t, v) ==
  /\ Answering([stack EXCEPT ![t] = Front(@)], t, v, Top(t).cell)
  /\ nesting' = [nesting EXCEPT ![t] = @ - 1]
  /\ stops' = IF On(t, "fold") THEN [stops EXCEPT ![t] = Front(@)] ELSE stops

Init ==
  /\ program \in Programs
  /\ stack   = [t \in Threads |-> <<>>]
  /\ nesting = [t \in Threads |-> 0]
  /\ stops   = [t \in Threads |-> <<>>]
  /\ told    = [t \in Threads |-> Nothing]
  /\ cells   = {}
  /\ answer  = [h \in Hosts |-> Nothing]

Run(h) ==
  /\ h \in Hosts /\ stack[h] = <<>> /\ answer[h] = Nothing /\ told[h] = Nothing
  /\ Enter(stack, h, 1, <<1>>, NoCell)
  /\ UNCHANGED <<program, cells, answer>>

Finish(h) ==
  /\ h \in Hosts /\ stack[h] = <<>> /\ told[h] # Nothing
  /\ answer' = [answer EXCEPT ![h] = told[h]]
  /\ told' = [told EXCEPT ![h] = Nothing]
  /\ UNCHANGED <<program, stack, nesting, stops, cells>>

(* The innermost verb. *)
Apply(t) ==
  /\ On(t, "verb")
  /\ LET at == Top(t).path IN
     Leave(t, IF Last(at) \in program.refused THEN Bad("refused", at) ELSE Fine(at))
  /\ UNCHANGED <<program, cells, answer>>

(* The next step of a fold, or cell of a frame too small to split. *)
Inner(t, k, most) ==
  /\ On(t, k) /\ told[t] = Nothing /\ Top(t).begun < most
  /\ LET f == Top(t) IN
     Enter(Changed(t, [f EXCEPT !.begun = @ + 1]), t, f.layer + 1, Append(f.path, f.begun + 1), NoCell)
  /\ UNCHANGED <<program, cells, answer>>

CellAnswered(t) ==
  /\ On(t, "cells") /\ told[t] # Nothing
  /\ LET got == Append(Top(t).got, told[t].value) IN
     IF told[t].is # "fine" THEN Leave(t, told[t])
     ELSE IF Len(got) = CELLS THEN Leave(t, Fine(got))
     ELSE /\ stack' = Changed(t, [Top(t) EXCEPT !.got = got])
          /\ told' = [told EXCEPT ![t] = Nothing]
          /\ UNCHANGED <<nesting, stops>>
  /\ UNCHANGED <<program, cells, answer>>

(* fold_family after a step: FoldFrame::taken, and what each control does. *)
StepAnswered(t) ==
  /\ On(t, "fold") /\ told[t] # Nothing
  /\ LET f    == Top(t)
         took == Last(stops[t])
         kept == IF Kept(took) THEN Append(f.got, f.begun) ELSE f.got
         lost == f.lost \/ ~Kept(took)
     IN
     IF told[t].is # "fine" THEN Leave(t, told[t])
     ELSE IF f.begun = STEPS \/ Ended(took)
     THEN Leave(t, IF lost /\ kept = <<>> THEN Bad("left out", f.path) ELSE Fine(kept))
     ELSE /\ stack' = Changed(t, [f EXCEPT !.got = kept, !.lost = lost])
          /\ told'  = [told EXCEPT ![t] = Nothing]
          /\ stops' = [stops EXCEPT ![t][Len(stops[t])] = NoStop]
          /\ UNCHANGED nesting
  /\ UNCHANGED <<program, cells, answer>>

(* fold_stop: its refusal, its v, and the control it writes where v says.  *)
Stop(t) ==
  /\ On(t, "stop") /\ told[t] = Nothing
  /\ LET f == Top(t) IN
     IF stops[t] = <<>> THEN Leave(t, Bad("no fold", f.path))
     ELSE Enter(stack, t, f.layer + 1, f.path, NoCell)
  /\ UNCHANGED <<program, cells, answer>>

StopSaid(t) ==
  /\ On(t, "stop") /\ told[t] # Nothing
  /\ Answering([stack EXCEPT ![t] = Front(@)], t,
               IF told[t].is = "fine" THEN Fine(<<>>) ELSE told[t], Top(t).cell)
  /\ nesting' = [nesting EXCEPT ![t] = @ - 1]
  /\ stops' = IF told[t].is = "fine" /\ Last(Top(t).path) = 1
              THEN [stops EXCEPT ![t][Len(stops[t])] = program.control]
              ELSE stops
  /\ UNCHANGED <<program, cells, answer>>

(* map_indexed: the cells go to the pool, and their answers are collected  *)
(* in index order, the first refusal for all of them.                      *)
HandOut(t) ==
  /\ On(t, "pool") /\ Top(t).begun = 0
  /\ stack' = Changed(t, [Top(t) EXCEPT !.begun = CELLS, !.got = [i \in 1 .. CELLS |-> Nothing]])
  /\ cells' = cells \cup {<<t, Len(stack[t]), i>> : i \in 1 .. CELLS}
  /\ UNCHANGED <<program, nesting, stops, told, answer>>

Waiting(t) == On(t, "pool") /\ Top(t).begun = CELLS /\ \E i \in 1 .. CELLS : Top(t).got[i] = Nothing

Idle(t)     == stack[t] = <<>>            \* mutant of MayTake: waiting is only waiting
MayTake(t)  == stack[t] = <<>> \/ Waiting(t)

(* A worker with nothing to do, or one that waits, begins a cell: one of   *)
(* its own if it has any left.                                             *)
Take(t) ==
  /\ t \in Workers /\ MayTake(t)
  /\ \E c \in cells :
       /\ (\E d \in cells : d[1] = t) => c[1] = t
       /\ LET f == stack[c[1]][c[2]] IN
          Enter(stack, t, f.layer + 1, Append(f.path, c[3]), c)
       /\ cells' = cells \ {c}
  /\ UNCHANGED <<program, answer>>

LastOf(got, bad)    == CHOOSE i \in bad : \A j \in bad : j <= i  \* mutant of FirstOf
FirstOf(got, bad) == CHOOSE i \in bad : \A j \in bad : i <= j

Collect(t) ==
  /\ On(t, "pool") /\ Top(t).begun = CELLS /\ ~Waiting(t)
  /\ LET got == Top(t).got
         bad == {i \in 1 .. CELLS : got[i].is # "fine"}
     IN Leave(t, IF bad # {} THEN got[FirstOf(got, bad)]
                 ELSE Fine([i \in 1 .. CELLS |-> got[i].value]))
  /\ UNCHANGED <<program, cells, answer>>

Step(t) ==
  \/ Run(t) \/ Finish(t) \/ Apply(t)
  \/ Inner(t, "fold", STEPS) \/ Inner(t, "cells", CELLS)
  \/ CellAnswered(t) \/ StepAnswered(t) \/ Stop(t) \/ StopSaid(t)
  \/ HandOut(t) \/ Take(t) \/ Collect(t)

Done == \A h \in Hosts : answer[h] # Nothing

Next == \E t \in Threads : Step(t)

(* Each thread that can go on does: the host's and the pool's are the      *)
(* operating system's to schedule.                                         *)
Spec == Init /\ [][Next]_vars /\ \A t \in Threads : WF_vars(Step(t))
-----------------------------------------------------------------------------
TypeOK ==
  /\ program \in Programs
  /\ \A t \in Threads :
       /\ nesting[t] \in 0 .. MAX_NESTING
       /\ stops[t] \in Seq(Controls \cup {NoStop})
       /\ told[t].is \in {"nothing", "fine", "refused", "no fold", "left out", "limit"}
       /\ \A i \in DOMAIN stack[t] :
            /\ stack[t][i].layer \in 1 .. Len(program.layers) + 1
            /\ stack[t][i].cell # NoCell => t \in Workers
  /\ \A c \in cells : stack[c[1]][c[2]].got[c[3]] = Nothing

(* Threads that wait for each other's cells never all wait: every program  *)
(* comes to an answer (map_indexed and in_pool).                           *)
Answers == <>Done
=============================================================================
