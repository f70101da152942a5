----------------------------- MODULE PoolMeaning -----------------------------
(***************************************************************************)
(* What a program comes to on one thread, and that the pool comes to it.   *)
(* An application of a layer to the argument at a path comes to what is    *)
(* said of it and the control it leaves for the fold around it; `inner` is *)
(* what the next layer comes to, at each path.                             *)
(***************************************************************************)
EXTENDS Pool

Paths        == Seq(Nat)
Innermost(p) == Len(p.layers) + 1
InFold(p, n) == \E i \in 1 .. n - 1 : LayerOf(p, i) = "fold"

(* A control takes the place of the one left before it. *)
Over(before, c) == IF c = NoStop THEN before ELSE c

Verb(p, path) ==
  [left |-> NoStop,
   said |-> IF Last(path) \in p.refused THEN Bad("refused", path) ELSE Fine(path)]

Stopping(p, n, path, inner) ==
  IF ~InFold(p, n) THEN [left |-> NoStop, said |-> Bad("no fold", path)]
  ELSE IF inner[path].said.is # "fine" THEN inner[path]
  ELSE [left |-> Over(inner[path].left, IF Last(path) = 1 THEN p.control ELSE NoStop),
        said |-> Fine(<<>>)]

(* Cell after cell, to the first refusal in index order. *)
ThenCell(so, r) ==
  IF so.said.is # "fine" THEN so
  ELSE [left |-> Over(so.left, r.left),
        said |-> IF r.said.is # "fine" THEN r.said ELSE Fine(Append(so.said.value, r.said.value))]

AlongCells(path, inner) ==
  LET so[i \in 0 .. CELLS] ==
        IF i = 0 THEN [left |-> NoStop, said |-> Fine(<<>>)]
        ELSE ThenCell(so[i - 1], inner[Append(path, i)])
  IN  so

(* Step after step, to a refusal or a control that ends the fold. *)
ThenStep(so, i, r) ==
  IF so.over THEN so
  ELSE IF r.said.is # "fine" THEN [so EXCEPT !.over = TRUE, !.said = r.said]
  ELSE [over |-> Ended(r.left), said |-> so.said,
        kept |-> IF Kept(r.left) THEN Append(so.kept, i) ELSE so.kept,
        lost |-> so.lost \/ ~Kept(r.left)]

AlongSteps(path, inner) ==
  LET so[i \in 0 .. STEPS] ==
        IF i = 0 THEN [over |-> FALSE, said |-> Fine(<<>>), kept |-> <<>>, lost |-> FALSE]
        ELSE ThenStep(so[i - 1], i, inner[Append(path, i)])
  IN  so

Folded(path, so) ==
  [left |-> NoStop,
   said |-> IF so.said.is # "fine" THEN so.said
            ELSE IF so.lost /\ so.kept = <<>> THEN Bad("left out", path) ELSE Fine(so.kept)]

Applied(p, n, path, inner) ==
  CASE LayerOf(p, n) = "verb" -> Verb(p, path)
    [] LayerOf(p, n) = "stop" -> Stopping(p, n, path, inner)
    [] LayerOf(p, n) \in {"cells", "pool"} -> AlongCells(path, inner)[CELLS]
    [] LayerOf(p, n) = "fold" -> Folded(path, AlongSteps(path, inner)[STEPS])

(* What each layer comes to, from the innermost outwards. *)
Sequential(p) ==
  LET m[n \in 1 .. Innermost(p)] ==
        [path \in Paths |-> Applied(p, n, path, IF n = Innermost(p) THEN <<>> ELSE m[n + 1])]
  IN  m
-----------------------------------------------------------------------------
(* No cells are handed to the pool between a fold and a stop in its step.  *)
StopsStayHome(p) ==
  \A i, j \in DOMAIN p.layers :
    /\ i < j /\ p.layers[i] = "fold" /\ p.layers[j] = "stop"
    /\ \A k \in i + 1 .. j - 1 : p.layers[k] # "fold"
    => \A k \in i + 1 .. j - 1 : p.layers[k] # "pool"

(* Whatever the schedule, a program comes to what it comes to on one       *)
(* thread: the same steps kept, the same refusal ("Every primitive in here *)
(* produces exactly what the sequential code would"; "the first failing    *)
(* cell in index order supplies the error").  The nesting limit is a       *)
(* thread's, so reaching it is not.  It holds where StopsStayHome does.    *)
SameAsSequential ==
  \A h \in Hosts :
    StopsStayHome(program) /\ answer[h] # Nothing
      => answer[h] \in {Sequential(program)[1][<<1>>].said, Bad("limit", <<>>)}
-----------------------------------------------------------------------------
(* A stretch is what one thread runs from the top, or from a cell, down to *)
(* the next layer that hands its cells out; Deep is how far down its       *)
(* stretch a layer stands.                                                 *)
Splits(p)  == {i \in 1 .. Len(p.layers) : p.layers[i] = "pool"}
Deep(p, n) == n - Max({0} \cup {i \in Splits(p) : i < n})

(* The layers come to: none below a stop with no fold over it.             *)
Reached(p) ==
  {n \in 1 .. Innermost(p) :
     \A j \in 1 .. n - 1 :
       LayerOf(p, j) = "stop" => \E i \in 1 .. Deep(p, j) - 1 : LayerOf(p, j - i) = "fold"}

(* The most a waiting worker can have on its stack: of each stretch that   *)
(* waits, every cell there is at a time, and one of the innermost.  What   *)
(* the program begins with is on the host, which takes no cells.           *)
AtATime(p, n) == Cardinality(Hosts) * CELLS ^ Cardinality({i \in Splits(p) : i < n})
Piled(p) ==
  LET first == Min(Splits(p))
      waits == MapThenSumSet(LAMBDA n : AtATime(p, n) * Deep(p, n), Splits(p) \ {first})
  IN  IF Splits(p) = {} THEN Innermost(p) ELSE Max({first, waits + Deep(p, Innermost(p))})

(* The limit is a thread's, and a worker that waits begins a cell on top   *)
(* of its own count, so whether a program meets it depends on who takes    *)
(* what (Nesting::enter).  It depends on nothing else: a program with a    *)
(* stretch too deep is refused whatever the schedule, and none is refused  *)
(* unless the cells of waiting workers can pile up that far.  Split once   *)
(* or never, no worker waits: then only a stretch too deep is refused.     *)
DeepIsRefused(v) == (\E n \in Reached(program) : Deep(program, n) > MAX_NESTING) => v.is = "limit"
RefusedIsPiled(v) == v.is = "limit" => Piled(program) > MAX_NESTING
LimitAsDeep ==
  \A h \in Hosts : answer[h] # Nothing => DeepIsRefused(answer[h]) /\ RefusedIsPiled(answer[h])
=============================================================================
