# TLA+ models of libjay

libjay runs J and APL programs: a frontend per language reads source text into
one intermediate form (`ir.rs`), and one evaluator runs it over the verbs of
`verb.rs`.  This directory holds models of the parts of it whose correctness
hangs on an order: of events (names and calls, control flow, tables that threads
share, a pool of threads, buffers that are shared and written, a child process
and its pipes, the journal of a supervised sweep), of elements (layouts, cells,
chunks and lanes of a pass), and of words (which operand a rule or an operator
takes first).  Each model is checked on small instances with TLC, and the
theorems named below are proved for every instance with TLAPS.

## The system

Paths are under `src/crates`.  "Hard" names what a test would hardly reach.

| Component | State it keeps | Operations | Talks to | Hard | What makes it correct |
|---|---|---|---|---|---|
| Call stack (`libjay/src/verb.rs`: `Frame`, `Env.frames`, `running`, `depth`) | frames and definition handles, one per level ever reached | enter, leave, read, write, erase a local | the evaluator, modifiers | storage reused between unrelated calls | a call sees its own locals and its lexical parents', no others |
| Names and locales (`verb.rs`: `Env`) | values per locale, verbs, modifiers, current locale, next number | assign, read, erase, name a verb or modifier, cocurrent, 18!:2, 18!:3, 18!:55 | the call stack; `call_explicit` saves and restores the locale | three tables for one name; a locale erased while it is in use | one meaning per name; numbers handed out once; the caller's locale comes back |
| Control structures (`ir.rs`) | host stack, `Ctx.shy`, `Env.thrown`, `Env.depth` | run a block, a loop, a select, a try; call; throw; branch; execute | verbs call back into it | ways out of nested structures; a flag every sentence overwrites | levels balance; throws, breaks and gaps stop where they should; limits end loops |
| Symbol table (`symbol.rs`) | names, ids, a lock | intern, name | every thread of the process | two lock sections; ids that run out | one id per text, for the life of the process |
| Sweep and journal (`libjay-devtools/src/journal.rs`) | an append-only file; a supervisor; a worker's threads | announce, measure, record, kill, restart, resume | the interpreter runner | a worker dies anywhere, also inside a write | what is measured is settled; the sweep ends |
| Interpreter runner (`oracle.rs`) | a child, two drain threads, a deadline | run, wait, kill | the sweep | exit, cap and deadline at once; a grandchild with the pipe | one verdict; every thread joined |
| Frontends (`frontend/j.rs`, `frontend/apl.rs`, `frontend/mod.rs`) | names a parser has seen, derivations in progress, dfn ids (per thread) | parse blocks and control words, settle names | the evaluator's names | parse-time and run-time names drift apart; ids of two threads | a program means what its text says at the time it runs |
| Verbs, rank, agreement (`verb.rs`) | nesting and fold stops per thread, memo caches | apply to cells | the pool | cells run by another thread | a parallel pass answers what a sequential one would |
| Arrays and buffers (`array.rs`, `sparse.rs`, `dtype.rs`) | shared, inline, foreign and joined buffers | slice, write, join | hosts, devices | a write to what is shared | copy on write; an owner outlives its buffer |
| Passes (`par.rs`, `simd.rs`), fusion (`fuse.rs`), devices (`device/`) | a pool, a level, shader caches | split, fold, dispatch, inline | verbs | regrouped overflow; a level set while resolved; a name inlined past its change | same answer as the plain road |
| Random streams (`rng.rs`) | a shared generator, a link per thread | roll, set and clear the link | `Program::exec` | a program run from another's callback | a seed reaches its own run and no other |
| Interfaces (`libjay-capi`, `libjay-python`, `python/jay`) | handles a host owns | compile, run, read, free | hosts | order of frees; borrowed pointers | a borrow lives as long as its result |
| Numbers, display, errors, gerunds, foreigns (`exact.rs`, `complex.rs`, `fmt.rs`, `error.rs`, `explain.rs`, `gerund.rs`, `foreign.rs`, `sysvar.rs`, `limits.rs`) | none to speak of | convert and compute | verbs | numeric edges | agreement with the reference interpreters, which the corpus tests |
| Tools and tests (`libjay-devtools`, `libjay-testkit`) | files | generate, record, compare | the interpreter runner | a recording cut short | a record reads back as it was written |

`PROJECT.json` lists every component with its status, the hazards with their
lines, and for each definition of the models the lines it stands for.

## Modules

| Module | What it is |
|---|---|
| `CallStack` | what local names promise a program: a stack of fresh frames |
| `Frames` | `Frame` and the call stack of `Env`, which reuses frames and handles; implements `CallStack` |
| `Env` | names, locales, verbs and modifiers over `Frames`, with the sentences and foreigns that drive them; implements `Frames` |
| `Interning` | what the symbol table promises: making a symbol is one step |
| `SymbolTable` | `intern` and its two lock sections; implements `Interning` |
| `Control` | the evaluator as a machine with an explicit stack |
| `SweepJournal` | supervisor, worker threads and the journal |
| `OracleRun` | one sentence run by a reference interpreter: child, drains, cap, deadline |
| `Pool` | verbs over cells on several threads, with folds and their stops |
| `PoolMeaning` | what a pool's programs answer on one thread, which any schedule should |
| `PrivateValues` | what a buffer promises: elements of its own |
| `Buffers` | `Buf` and its representations; implements `PrivateValues` |
| `Values`, `Cells` | arrays with their layouts and types; frames, cells, agreement, assembly |
| `Structural`, `Searching`, `Selecting` | verbs that move, find, order, select and amend |
| `Scalars`, `Folding` | elementwise passes; folds, scans and windows |
| `Trees`, `Verbs` | verbs as trees, with ranks, purity and obverses; running a tree |
| `JModifiers`, `JSentences` | what J's modifiers derive, and representations; the parser, its names, blocks, definitions and translations |
| `AplSentences` | APL's parser from tokens on |
| `JLaws`, `AplLaws` | what the two frontends owe their languages, with the grammars they are held to |
| `FramesProofs`, `EnvProofs`, `SymbolTableProofs`, `ControlProofs`, `OracleRunProofs`, `PoolProofs`, `BuffersProofs`, `SweepProofs` | theorems about the module each is named for (`SweepProofs`: `SweepJournal`) |
| `MC...` | the instances TLC checks |

`Values` to `Verbs` extend one another in the order of the table, and the
language modules extend them: a noun a frontend folds while it parses is an
array of `Values`, a verb it derives is a tree of `Trees`, and `Verbs` runs it.

A definition marked "mutant of" is a plausible mistake in the code, kept beside
the definition it would replace; the specification never uses it.  Replacing the
one by the other makes a run find the property that would catch the mistake.

### Frames and CallStack

A frame is a function on the names that have a slot, `NoValue` an empty slot.
`frames` and `running` are as long as the deepest call so far; what is past
`depth` is dormant.  `Enter` is `Env::enter` with the bindings `call_explicit`
makes at once after it: no sentence runs between the two.  `Leave` is
`Env::leave`, recycling included.  `Enclosing` gives the definitions each one is
written inside, by identity; that two definitions never share an id is an
assumption here (see Plan).  `bodies` is the `def` each `call_explicit` under way
holds, which the handles of `running` should agree with; `seen` is the answer of
the last read.  The two make the refinement say that a read is answered as the
definition that really runs would have it.

### Env

Spellings are `[head, loc]` records, `loc` a locale or `Bare`; `split_locative`
is thereby the record's two fields.  The names of locales are values, and
`Numeral[k]` is the one number k is written as.  One call of `EraseNames`,
`EraseLocale` or `SetLocalePath` handles one box; a list of them is several
steps, which nothing can tell from one.  `AssignMany` is a list of two names.
`saved` is what `enter_locale` hands back, on the machine stack of each
`call_explicit`; `moved` is the answer `Arc::ptr_eq` will give in
`leave_locale`.  `handed` is a history variable.  A call may end by an answer or
an error at any time: both run the same two lines.

### Control

The host stack of `eval_stmt`, `eval_control`, `run_block`, `run_body`,
`call_explicit` and `execute_source` is `stack`; `sig` is what the innermost
frame is told (go on, or what its sentence came to).  The program is chosen as
it runs: a frame that begins a sentence may begin any of `Forms`, so a run
covers every program of those forms with blocks of `LENGTH` sentences.  A block
that is run again may run other sentences than before, which covers more
behaviours than the code has and only strengthens the invariants; `Ends` is
true of it for the limits alone.  Values are loud, quiet or none.  `lands` is a
history variable: where a throw should stop by the rules of the language,
computed when it is raised, from the stack and not from `Env.depth`.

A condition that fails to be a number and a block that yields no value where a
guard needs one are `Fail`.  `goto_by` goes anywhere in the body or out of it.
The Boolean empties of execute are "loud".

### SweepJournal

A journal is a sequence of lines; an unterminated last line takes in what is
appended next.  `SayRecord` and `SayNewline` are the two writes of `writeln!`,
under the journal's lock.  `Die` may happen at any step of a worker and leaves
one of the `Tears`.  `Fatal` probes end the process, `Stuck` ones are never
measured; `CapKill` and `StallKill` are the supervisor's two limits, enabled
when their clocks could run out.  A supervisor's reads of the file while a
worker writes are `CapKill`'s.  Not modelled: a tear inside an announced
sentence (which announces another one), the escapes, the death of the
supervisor, errors of the file system.  `Mangled` are the probes of pieces:
lines cut short, or joined by the next one.  A piece announces nothing and
answers for nothing, so what is in flight is counted without them.

### OracleRun

`eval_patiently` with its two drain threads: each stream is what the child has
printed, what lies in the pipe and what a drain has taken, in units.  The child
may start another process that holds the pipes, and may exit, die or do neither;
`Kill` ends the whole group.  `Check` looks at exit, cap and deadline in the
code's order.  `Clock` is the deadline's passing.

### Pool

A program is a sequence of layers, each a fold, an `n Z:` inside one, cells too
few to split or cells worth splitting.  A thread has a stack of what it has
begun; a worker that waits for cells of its own takes whatever cell there is and
runs it on top.  `NESTING` and `FOLD_STOPS` are kept per thread.  A fold's stop
is pure or not as its condition is, which is the code's rule; of `MCPool`'s
programs those whose stops stand under no split layer are held to the answer of
one thread (see Findings).  `PoolMeaning` computes that answer: a function from
layers, innermost first, to what is said at each path and the control that is
left there for the fold around it.

`PoolMeaning` also says how far the nesting limit may depend on the schedule.
The layers between one split and the next are a stretch, which one thread runs:
`Deep` is how far down its stretch a layer stands.  A worker that waits takes a
cell on top of what it has begun, so several cells of several stretches may stand
on one stack; `Piled` is the most of them there can be.  `LimitAsDeep`: with a
stretch deeper than `MAX_NESTING` a program is refused under every schedule
(`DeepIsRefused`), and it is refused under none unless `Piled` is above
`MAX_NESTING` (`RefusedIsPiled`).  In between, and only there, it depends on who
takes what.

### Buffers and PrivateValues

A buffer is nothing, one element, a whole vector, a window over one, memory a
host lent, or two buffers to be joined.  The parts of a join are the columns of a
table a host lent (`Data::join` is called by the import of one and by nothing
else), so no part is a join, and two parts already meet at a seam.  `Holders` of
a vector are counted from the buffers, the parts and the joins that hold it.
Writing copies what is not this buffer's
alone; the last drop of a lent block gives it back, after which the host writes
to it as it pleases.  A join is made once into a cell all its clones share.
`PrivateValues` has the same operations over plain sequences.

### Values to Verbs

An array is a record of type, shape, buffer and whether the buffer lies by rows.
A verb answers an array or a refusal of some kind.  Numbers are integers that
their type tells apart: a float is a whole number of any size, a machine integer
overflows above `Largest`, a complex number has no imaginary part.  `Lanes`,
`LaneWork` and `ConvergeLimit` stand for the code's widths and limits.  Passes
are shared out as chunks of every size.  The laws are about the two arguments in
hand, `alpha` and `omega`, and the language `lang`; each relates two roads the
code keeps apart: a layout and the other, a fast form and the plain one, an
operation and the one that undoes it, a search and the order it searches in.

Not modelled there: prototypes of empty boxed arrays, complex replication
counts, NaN and infinities, division, roots, logarithms and circle functions,
sparse arguments, rounding, tolerances in Fit, characteristics, hypergeometric
series, the fill context beyond take, the memo cache, exact, complex and
fractional digits.

### JModifiers, JSentences, AplSentences

A text is a sequence of words that have been told apart already.  The parsers
are operators that return what the code returns: fragments, trees, expressions,
blocks, or a refusal.  What J's parser remembers of names (`Names`) is a record
a sentence hands on to the next.  Purity of definitions, labels and gotos, the
derivation of a verb from an `if.` at parse time and its limit are there.

Left out of the J modules: words from characters, text lists cut out of one
string, the way a rank or `u"v` was spelt, Fit other than by zero, the foreigns
`!:`, indirect locatives `a__b`, the representation of a named entity.  A text
is kept whole in a representation.  An operand that is a noun is settled at
parse time by the scalar verbs, enclose, ravel, link, append and reshape, and
is deferred beside any other verb; the same holds for APL's operands.  Left out
of `AplSentences`: tokens from characters, tradfns, control words and branches,
structured variables, the tolerance option of the variant operator (its token
carries an index origin), an axis between two axes.  The identities of dfns
belong to `Frames`.

`JLaws` and `AplLaws` hold the parsers to descriptions written the other way
round: a grammar of whole phrases that a row of words is parted into in every
possible way, the run of the sentences, the words a tree is written as.  Each
law's comment says which texts it leaves out; all of those are under Findings or
are errors either way.

## Runs

| Run | Bounds | Shows |
|---|---|---|
| `frames` | two names, two values, calls 3 deep, frames of at most 1 kept slot | dormant frames are empty; every read is what fresh frames answer |
| `env_calls` | one name, two definitions, calls 2 deep, three named locales | `Frames` is implemented under every sentence; the caller's locale comes back |
| `env_locales` | one name, two numbers, a search path, a locative | numbers handed out once; named locales survive |
| `symbols` | three threads, four texts, three ids | the table is its own inverse, fails only when full, and is atomic |
| `control_throws` | six frames, calls 2 deep, blocks of 1 | levels balance; throws stop where they should; gaps get out |
| `control_programs` | calls 1 deep, 2 steps a body, four frames | break and continue stop at their loop; programs end |
| `pool` | a host and two workers, two cells a layer, two steps a fold, a nesting limit of 6 | how far the limit depends on the schedule; short of it any schedule answers as one thread does; all answer |
| `oracle` | a cap and a pipe of two units, four printed | an answer is whole; nothing is left behind; a reply comes |
| `buffers` | two named buffers, elements 0 and 1, vectors of two, five operations | buffers are private values; a join is made once |
| `sweep` | two threads, four probes (one fatal, one stuck), one kill, torn records | one probe per thread in flight, those of cut lines aside; measured probes stay settled; the sweep ends |
| `arrays` | pairs of 26 arguments of rank 0 to 3, all types, both layouts, both languages, and the answers of fifteen verbs as arguments | eight laws, one for each kind of verb |
| `language` | all sentences of four words, phrases with a phrase for an operand, scripts of three lines, bodies of four words, control bodies of five, APL texts of four tokens and longer ones with a word changed | seven laws, named below |

The laws of `arrays`: `ElementsStay` (layouts, casts, interleaving),
`CellsComeBack` (framing and agreement), `StructureComesBack` (take and drop,
turning, transposing, joining, copying), `SearchesAndSortsAgree`,
`PassesAreElementwise`, `FoldsAreRegrouped`, `SelectionsComeBack` (amendment,
cuts, partitions, digits), `VerbsMeanTheirCells` (derived verbs, special forms,
powers and obverses, and verbs over a frame with no cell in it, whose answer has
the shape its cells would have had).

The laws of `language`: `ParseIsGrammar` (J's stack against its grammar),
`RepresentationComesBack` (a verb as boxes and as words, read again),
`NamesAsRun` (the parser's names against a run), `TacitMeansItsBody`,
`BodiesKeepTheirWords`, `AplIsGrammar` (one meaning at most, and the parser's
tree is it), `NameStandsForItsDefinition` (a function's or an operator's name
against its definition in its place, braces and their two dialects included).

They are action properties whose steps say nothing of the next state: the law
holds of every state that is left, and every state is left.  TLC evaluates them
once a state.

Why the bounds are enough.  A frame is reused at the second call of a level and
confused with another at most between three levels, a running one, its lexical
parent and an unrelated one in between.  The table's race needs two threads and
its end a third that finds the lock poisoned.  A throw needs a raiser, a try of
its own definition and one of its caller, with an adverse in between: six frames
hold the program, two calls, two tries and one more.  The sweep's hazards need
one thread that dies and one that had something in flight, and two deaths (a
fatal probe's and a kill): one to leave a torn line, one after another line was
glued to it.  By then one probe has killed and another's result was cut, and
two more are wanted for the two threads of the worker that is killed: with three
probes more than one in flight per thread cannot happen, with four it does.  A
stolen cell needs one thread
that waits and one that works, and two cells to wait for.  With a limit of 6 the
programs reach every side of `LimitAsDeep`: stretches of 6 and 7 layers,
under a split and by themselves; a stop with no fold above one too deep; and
cells of short stretches that pile up to 7 on one schedule and not on another.
A buffer is shared by
two, sliced, written and dropped in five operations.  J's parse table looks at
four words, and an operator of APL at one on either side: longer texts are there
for what brackets collapse into.  Arguments have up to twelve elements, enough
for a tail after two lanes and for a chunk that ends inside a repeated run.

The limits of the code (`RECURSION_LIMIT` 48, `BRANCH_LIMIT` 2^22,
`MAX_KEPT_SLOTS` 16, ids of 32 bits, 64-bit integers, eight lanes) are constants
of the models.  `HEIGHT`, `LENGTH`, `ITEMS`, `KILLS`, `STEPS`, `CELLS` and
`MOST` bound the state space only.

The `control_*` runs take part of the language each (`Forms`).  `EmptyResult`
is `"loud"` for J and `"none"` for APL, and both occur.  `control_programs`
leaves out the second run of a body that `control_throws` has.  `sweep` leaves
out the worker that dies between a record and its newline, and the tear inside a
character: what they do is told under Findings.

Deadlock is checked but where the system stops: the sweep and the runner when
they are done, the pool when its programs have answered, the buffers when their
operations are spent, an array law's sentence that is over.  `Control` ends in a
state that stutters.

Fairness.  `Ends` assumes that the evaluator takes its next step, which one
thread that waits for nothing does.  `Answers` assumes that every thread of the
pool takes its next step, which the operating system's scheduler gives it.
`Answered` assumes that the recorder's loop and its drains run and that time
passes; nothing is assumed of the child.  `SweepEnds` assumes that the
supervisor's loop runs (it polls every 200 ms), that a worker with nothing left
to do exits, and that each thread goes on, a fatal probe being fatal in the end.
Nothing assumes that something else kills a worker.

## What is proved

For all values of the constants that the modules' assumptions allow.

* `FramesProofs` — `Typed`: the type invariant, by induction over the steps.
  `DormantEmpty`: from the types, as `Leave` recycles the only frame that
  becomes dormant.  `FramesImplementCallStack`: the refinement.  The invariant it
  needs is that the two stacks are as long as each other and at least as long as
  `depth`, that a running level's handle is the definition that runs there, and
  that dormant frames are empty: then a frame entered again binds
  what a fresh one would (`FrameBind` on an empty frame), and the nearest
  enclosing definition with a value is the same one in both.  `NearestExists`
  supplies the level the two `CHOOSE`s pick.
* `EnvProofs` — `EnvImplementsFrames`: each action is a step of `Frames` or
  leaves its variables alone.  `LocalePutBackAlways`: from the invariant that an
  entry of `saved` with `moved` false means the current locale is the one it
  holds, for the innermost call.  `HandedOutOnceAlways`: every number that was
  handed out, and every numbered locale there is, lies below the counter, which
  only grows.  `NamedLocalesSurviveAlways`: step by step, each keeps the named
  locales and takes away one name at most.  They assume that each number has a
  numeral of its own, that `NoLocale` is no locale, and what `Frames` assumes
  (`EnvAssumption`, `NoLocaleAssumption`, `CallsAssumption`).
* `SymbolTableProofs` — `InverseAlways`, `PanicsOnlyWhenFullAlways`,
  `AppendOnlyAlways` and `TableImplementsInterning`, from an invariant that adds
  to `Inverse` the types and what each thread's place says of what it asked.
* `ControlProofs` — `GapsAlwaysGetThrough`: only an error has a kind, so while a
  gap travels the only steps are the four that meet errors, and those rescue
  none.  The other three rest on one view of the machine: every step leaves the
  frames as they are, changes the innermost alone, takes it away or adds one.
  `DepthBalancedAlways`: `depth` is the number of bodies on the stack, and a
  try's `here` the number of them below it, whichever of the four the step is
  (`LevelInv`).  `ThrowStopsAlways`: while a throw travels, `lands` is the
  innermost frame left that takes it; a frame it passes is none of those, and
  the levels say which try is a caller's (`ThrowInv`).  `BreakStopsAlways`: the
  same of the loops, of which a definition's body hides those outside it
  (`BreakInv`).
  `ControlTyped`: the types, limits included.  They hold because of who may be
  told what (`Underway`): a sentence's outcome reaches only a frame that runs
  blocks and is in the midst of one, so its block has a sentence left to count;
  each frame below waits in the same way; and a control sentence's frame stands
  on one that runs blocks.  That a level given back was there comes from
  `LevelInv`.  Each step puts a frame for the innermost, drops it or adds one
  (`PutsTyped`, `DropsTyped`, `AddsTyped`).  TLC confirmed `Underway` first, over
  all states of both `control` runs.
* `OracleRunProofs` — `AnswerIsWholeAlways`: the invariant is a ledger, in which
  what a drain has kept and what lies in the pipe make up what was printed
  unless the stream is over its cap.  `NothingLeftBehindAlways` adds that a drain
  ends over its cap or at the end of a stream nobody holds, and where the
  recorder is when the child is gone.
* `PoolProofs` — a first invariant (`Counts`): a thread's `NESTING` and
  `FOLD_STOPS` are counted from its stack, and only workers have cells handed to
  the pool on theirs.  An answer is put into whatever stack waits for it, and
  leaves the depth and the folds of each as they were.
  `SameAsSequentialAlways`, for any hosts, workers, programs, frames, steps and
  nesting limit: the program's answer is `Sequential`'s, or the limit.  An answer
  alone is not inductive; `AsMeant`, which is, ties together three things.
  `Shape`: whatever is on a stack was asked for, by the application under it
  or, for a cell, by one that waits in some other thread's stack or lower in this
  one, each cell begun once; and what it has got so far is `AlongCells` or
  `AlongSteps` as far as it has come (`Came`).  `KeptBy`: `FOLD_STOPS` of a
  thread is, level by level of its stack, what the cells and steps done there
  have left; since cells of others run on top of it meanwhile, it also says that
  those leave it alone (`Quiet`), which is where stops that stay home are needed,
  and that a stop finds the cell of its own fold (`Through`, `HomeKept`).
  `StopsRight`: what the thread has just been told is what that application says
  there, with the control it left.  Under these stand what `Sequential` is
  (`SequentialIs`, a recursive function on layers; `CellsAlong`, `StepsAlong`),
  that cells after a refusal and steps after an end change nothing (`CellsEnd`,
  `StepsEnd`), and that answers in any order, collected by index, are each_cell's
  (`Collected`); then, for each way a stack changes, what it does to the shape
  (`ShapePush`, `ShapePop`, `ShapePut`, `ShapeAnswer`, `ShapeHandOut`) and to what
  is left (`KeptPush`, `KeptPop`, `KeptPut`); then one lemma per action.  TLC
  confirmed `AsMeant` first over all states of the `pool` run.
  `DeepIsRefusedAlways`, for every program whose stops stay home: by `AsMeant`
  the layers of a stretch stand one on the other on one stack (`StretchStands`),
  so by `Counts` none is begun at or below one too deep (`NoneSoDeep`).  Then
  no verb is ever come to and no stop lacks its fold (`NoneSaysMore`), and all
  that is ever told is the limit (`StepAdmits`).  `LimitAsDeepAlways`, for those
  of them that are split once or never: a worker has the one inner stretch on its
  stack and never waits (`OneStretch`), so there is room wherever a layer is
  begun unless a stretch is too deep (`RoomIs`), and by `StepAdmits` again no
  limit is told.  For programs split more often `RefusedIsPiled` is
  model-checked only: it needs a count of the cells that wait at one time.
* `BuffersProofs` — `BuffersAreTyped`, `BuffersArePrivate` (the refinement of
  `PrivateValues`) and `JoinMadeOnceAlways`, for any names, elements, lent blocks
  and bounds.  The invariant adds to the types, which say that every window lies
  within what it is over, that a join is no longer than a buffer may be and that
  the joins there are are those names hold.  The argument has three parts.
  Letting go of what has no holder loses nothing a name can reach
  (`BecomeKeeps`), and storage that only grows changes no content (`Grows`,
  `BecomeGives`): with the lemmas on windows of windows and of joins
  (`WindowOfWindow`, `WindowOfJoin`), that is every operation that copies
  nothing or copies all.  A vector written in place has one holder, so no other
  name, part or join made is a view of it (`HoldersCounted`, `InPlace`).  A block
  the host writes again is no live buffer's, since every view of a block holds
  its owner (`ReuseGives`).  They assume that the vectors buffers are made from
  are sequences of elements within `LEN`, that names and joins are finite, and
  that `None` is no buffer.
* `SweepProofs` — `InFlightPerThreadAlways`, for any tears: a thread alone is
  between a record and its newline, a thread past its first line finds nothing
  open but what is being written, and so a result takes its probe out of flight;
  what is in flight and not mangled is in some thread's hands, and hands are no
  more than threads.  `MeasuredIsSettledAlways`, where no newline is lost and no
  character cut (`WholeLines`; without it the property is false, see Findings):
  a line left open while nobody writes is a torn one, so what joins it spoils no
  result; every result written has its line, nobody named has one, and nothing
  left to take has been measured or named.

`AppendOnly` is proved and not run, as `ImplementsInterning` says more of the
same steps.  Only model-checked: the liveness properties (fairness and `ENABLED`
are beyond the prover's reach), and the laws of `arrays` and `language`, whose
modules hold recursive operators, which the prover does not take.

## Findings

Where the code does something else than its comments, its documents or another
road of its own.  Each was met while a model was made to agree with the code.

Names and control:

* `ensure_locale`: assigning in, or returning to, an erased locale of digits
  makes it again as a named one ("A NUMBERED one is never created this way").
* A name given a noun and then a verb is listed by `4!:1` as both; a name given
  a verb is still a noun to `4!:0` where a locale on the path holds one
  (`Env::erase_name`, against the comment on `Expr::VerbDef` in `eval_node`).
* `cocurrent` into a new locale lists the bare verbs of the whole program
  (`locale_of`, against "Only the current locale's own names are listed").
* An adverse answers for a throw and for libjay's own failure
  (`docs/coverage.md` says which errors it takes).
* A while loop's test leaves its shyness in `Ctx.shy`, and the body's next round
  takes it for the value it is handed (`run_block`, "`ctx.shy` still describes
  it").
* `return.` in a loop's test drops the loop's value (`Control::While`, against
  "leaves with the value in hand", `docs/coverage.md`).
* Dfn ids are counted per thread (`NEXT_DFN_ID`), so a program compiled on one
  thread and a string it executes on another may hold the same id, and a body
  then reads an unrelated caller's local (`Env::get`, "Only a LEXICAL parent
  counts").
* A program run from inside another's output callback draws from the outer
  one's random stream and clears it when it ends (`rng.rs`, "it lives for the
  run that set it and no longer").

Threads and processes:

* A fold's stop counts as pure when its condition is (`FoldStop`), so it may run
  on a worker that has no fold, and is refused there, or has another one, whose
  stop it becomes (`par.rs`, "exactly what the sequential code would").
* A worker that waits for cells begins another cell on top of its own count
  (`Nesting::enter` finds what is there), so the nesting limit depends on the
  schedule (verb.rs:1407-1409, `MAX_NESTING`: "The count is per THREAD, which is
  what a stack belongs to: a cell handed to another worker starts from zero on a
  stack of its own"; `par.rs`, "exactly what the sequential code would").  In
  `MCPool`, whose limit is 6, a program of a split layer, a fold, its stop and a
  split layer has no stretch deeper than 3 and, on one thread, stands 5 deep; an
  outer cell begun on top of the other, and an inner one on top of both, are 7,
  and it is refused.  And a program too deep for one thread
  passes when it is split into stretches that are not.  `LimitAsDeep` says how far
  it goes, and no further: a stretch too deep is always refused, and nothing is
  refused that cannot pile up.
* A worker that dies inside a character leaves a journal that is never read
  again, and the sweep starts workers for ever.
* A worker that dies between a record and its newline leaves a line the next
  record is glued to: neither counts, and more probes than threads are in flight
  (`say`, against "at most one per thread").
* So with a result cut inside its last field.  It counts, until the next worker
  appends to it: then its probe is in flight again, beside the next worker's own
  (`read` and `say`, against the same; `InFlightPerThread` sets such probes
  apart).  The supervisor then names it as having killed the runner.
* A result cut inside its last field still has seven fields and counts; one cut
  before it leaves its probe in flight, which is then named as having killed the
  runner and not measured again (`read`, against "is not a record, and the
  sentence they were about is measured again").
* A child that exits and leaves a process with the pipes keeps the runner
  waiting for that process with no limit: the loop has left off, nothing is
  killed, and the two joins wait for the end of the streams (`wait_within`).
  `Answered` makes an exception of this state, which is named `Lingering`.

Arrays:

* `elementwise_layout` labels an answer as lying by columns when an argument
  does, and `pervade_dyad` answers by rows: in APL, `(⊂1 2)+⍉2 3⍴⍳6` has its
  elements at the wrong places ("computes each element from the elements at its
  own index").  `PassesShareOut` leaves boxed arguments by columns out.
* `cmp_items_j` orders an empty list of two-item rows before one item and after
  another that is less than it, so a sort of the three is handed an order that
  is none.
* A fold of integers regrouped by chunk or lane may answer a float where the
  plain one stays whole, or the other way round; so may a window whose block's
  prefix overflows; a scan stays whole where the fold of its last prefix does
  not (`par.rs` promises the same answer but for the rounding of floats).
* `decode_complex` takes a one-element list of radices for one item of a longer
  one, where the real form extends it; `empty_type` names another type than
  promotion; `member_apl` compares complex numbers exactly.

J's frontend:

* `13 : '([ y) + y'`: `join_tacit` sees `[` on one side and `]` on the other and
  answers `+` itself; assignments inside a body are dropped (`translate`).
* A name settled to a value at parse time keeps it past an assignment in one arm
  of an `if.`, or in a definition that is called (`parse_if`, `record`).
* `verb_named` looks for a verb in the current locale and in `z` before it looks
  for a noun: a noun `f` in `base` is shadowed by `f_z_`.
* `rank_ar` writes `(1 2&+)"0` as `1 2&+`, and `+&.:(>"0)` as `+&.:>`, whose
  obverses differ; `(+&.:>)"0` comes out as `+&.>`.
* `under_ar` compares names with the nouns erased: `(-&5)@:(+&:(3&+))` is
  written `+&.:(3&+)`.
* A gerund bound on the right, `,&(+`-)`, is written `,&+`-`; a tine that ends
  in `_` before a digit is not bracketed; the one-element list `(,5) + ]` is
  written `5 + ]`; three boxes or more, one of which holds a box, are written as
  text that reads otherwise (`boxed_text`).
* A nested definition's parse sees the constants of the one around it; a second
  `catch.` block replaces the first.

APL's frontend:

* `push_items` looks at the first token of what it pushes: in `1 2 3[2] x` the
  list's own numbers become items and the index is lost.
* An operator after a function with an axis in brackets sees a value end there:
  `⌽[1]/x` replicates, and `(⌽[1])⍨` is refused.
* `3∘(+/) 5`: the word after the jot is a bracket and no function, so the jot is
  taken for the matrix product of 3 and `+/5`.
* An operator's body that is read with an array for `⍺⍺`, inside another
  operator's body, still finds the outer one's `⍺⍺` among the functions
  (`build_dfn` adds the names and takes none away): in `-{⍺⍺ 3{⍺⍺+⍵}⍵}5` the
  inner `⍺⍺+⍵` is read as a function applied to `+⍵`.

## Not modelled

Numbers (floating point, exact and complex arithmetic), sparse arrays, fusion,
devices, random links, instruction-set levels, most foreigns and system
variables, display, the interfaces to C and Python, the tools and the test kit;
`PROJECT.json` gives the reason for each.  Words and tokens from characters are
left out on both sides: they are conversions tests reach well.

## Plan

1. Tradfns, `:If` and its family, branches and labels in `AplSentences`, under
   `BodiesKeepTheirWords`' counterpart.
2. Sparse arguments beside the dense ones in `VerbsMeanTheirCells`.
3. Fusion: inlining across sentences over the trees both parsers make, against
   plain evaluation.
4. Ids of dfns and the operands of an operator as part of `Env`.
5. Proofs: with the ids of dfns in `Env`, its refinement of `Frames` again.

## Running

    tlc -workers 2 -config frames.cfg MCFrames.tla
    tlapm FramesProofs.tla
