------------------------------- MODULE Control -------------------------------
(***************************************************************************)
(* The evaluator of src/crates/libjay/src/ir.rs as a machine: eval_stmt,   *)
(* eval_control, run_block, run_body and call_explicit, with their host    *)
(* stack made explicit.  Which sentences a program holds, what its tests   *)
(* answer and where its branches go are the program's choice; `Forms`      *)
(* bounds the choice, so that a run can ask its question of a part of the  *)
(* language.                                                               *)
(*                                                                         *)
(* A value is "loud", or "quiet" when the sentence that produced it        *)
(* answered shyly; "none" is a block that has produced nothing.            *)
(***************************************************************************)
EXTENDS Integers, Sequences, FiniteSets

CONSTANTS RECURSION_LIMIT,
          BRANCH_LIMIT,
          LENGTH,      \* how many sentences a body or a block holds
          ITEMS,       \* how many more arms or items than one there may be
          HEIGHT,      \* bound: the most frames the machine holds
          EmptyResult, \* ExplicitDef.empty: "loud" in J, "none" in APL
          Forms        \* the forms the program is written in

ASSUME ControlAssumption ==
  /\ {RECURSION_LIMIT, BRANCH_LIMIT, LENGTH, HEIGHT} \subseteq Nat \ {0}
  /\ ITEMS \in Nat
  /\ EmptyResult \in {"loud", "none"}

VARIABLES stack,   \* the frames of the host stack, innermost last
          depth,   \* Env.depth
          thrown,  \* Env.thrown, or Unthrown
          shy,     \* Ctx.shy
          sig,     \* what the innermost frame is told
          lands    \* history: the frame the last throw or break should stop at

vars == <<stack, depth, thrown, shy, sig, lands>>

Results  == {"loud", "quiet", "none"}
Flows    == {"normal", "return", "break", "continue", "goto", "goto_by"}
Kinds    == {"Domain", "Throw", "NotYet", "Internal"}
Unthrown == -1

(* run: begin your next sentence.  sentence: you are in the midst of one.  *)
(* answered: of one a call of which has just answered.  ok, err: what the  *)
(* sentence came to.                                                       *)
Told(is)      == [is |-> is, value |-> "none", flow |-> "normal", kind |-> "none"]
Run           == Told("run")
InSentence    == Told("sentence")
Answered      == Told("answered")
Finished      == Told("finished")
Ok(v, f)      == [is |-> "ok", value |-> v, flow |-> f, kind |-> "none"]
Err(k)        == [is |-> "err", value |-> "none", flow |-> "normal", kind |-> k]

Signals == [is : {"run", "sentence", "answered", "finished", "ok", "err"},
            value : Results, flow : Flows, kind : Kinds \cup {"none"}]

(* run_block's state: its `last` and `shy`, and how far it has come. *)
Block == [last : Results, shy : BOOLEAN, at : 0 .. LENGTH]
EmptyBlock == [last |-> "none", shy |-> FALSE, at |-> 0]

(* Each kind of frame has a block under way and what else its code keeps:  *)
(* run_body its step count; a choice (If, Guard, Cond), a loop and a       *)
(* select whether a test is what runs, the `last` held meanwhile and how   *)
(* many arms or items are left; a try the depth it began at and which      *)
(* rescues it has.  A "rest" is a last block, whose result is the control  *)
(* sentence's; an "otherwise" is the v of `u :: v`.                        *)
Frame ==
  [kind : {"program", "rest", "adverse", "otherwise", "execute"}, block : Block]
    \cup [kind : {"body"}, block : Block, steps : 0 .. BRANCH_LIMIT]
    \cup [kind : {"choose", "while", "for", "select"}, block : Block, testing : BOOLEAN,
          held : Results, left : 0 .. ITEMS]
    \cup [kind : {"try"}, block : Block, here : 0 .. RECURSION_LIMIT,
          catch : BOOLEAN, catcht : BOOLEAN]

TypeOK ==
  /\ stack \in Seq(Frame) /\ Len(stack) <= HEIGHT
  /\ depth \in 0 .. RECURSION_LIMIT
  /\ thrown \in {Unthrown} \cup 0 .. RECURSION_LIMIT
  /\ shy \in BOOLEAN
  /\ sig \in Signals
  /\ lands \in 0 .. HEIGHT
-----------------------------------------------------------------------------
Top      == stack[Len(stack)]
Under    == SubSeq(stack, 1, Len(stack) - 1)

Push(f)    == Len(stack) < HEIGHT /\ stack' = Append(stack, f)
Replace(f) == stack' = [stack EXCEPT ![Len(stack)] = f]
Pop        == stack' = Under

(* The definitions running in a stack, and the frames of one that stop a   *)
(* throw raised at depth d: an adverse, and a try with a catcht that began *)
(* further out.                                                            *)
Bodies(s) == Cardinality({i \in DOMAIN s : s[i].kind = "body"})
Takers(s, d) ==
  {i \in DOMAIN s : \/ s[i].kind = "adverse"
                    \/ /\ s[i].kind = "try" /\ s[i].catcht
                       /\ Bodies(SubSeq(s, 1, i)) < d}

(* The frames a break can stop at: a loop whose body runs, and what no flow*)
(* leaves.                                                                 *)
Loops(s) ==
  {i \in DOMAIN s : \/ s[i].kind \in {"while", "for"} /\ ~s[i].testing
                    \/ s[i].kind \in {"body", "execute", "program"}}

Innermost(S) == IF S = {} THEN 0 ELSE CHOOSE i \in S : \A j \in S : j <= i

(* The end of eval_stmt for a control sentence that came to v, with Ctx.shy*)
(* as q: one that produced nothing yields the running definition's empty   *)
(* value if it ran to its end, and nothing if it left early.               *)
Yield(v, f, q) ==
  /\ sig' = Ok(IF v = "none" /\ f = "normal" /\ depth > 0 THEN EmptyResult ELSE v, f)
  /\ shy' = (v # "none" /\ q)

Init ==
  /\ stack = <<[kind |-> "program", block |-> EmptyBlock]>>
  /\ depth = 0
  /\ thrown = Unthrown
  /\ shy = FALSE
  /\ sig = Run
  /\ lands = 0
-----------------------------------------------------------------------------
(* Beginning a sentence.  `more` is whether the block has one left; the    *)
(* sentences of a body are counted against BRANCH_LIMIT.                   *)
RunsBlocks == {"program", "body", "choose", "rest", "while", "for", "select", "try", "execute"}
more       == Top.block.at < LENGTH
spent      == Top.kind = "body" /\ Top.steps = BRANCH_LIMIT
Ready      == sig = Run /\ Top.kind \in RunsBlocks /\ more /\ ~spent

CountedNever == Top \* mutant of Counted

Counted == IF Top.kind = "body" THEN [Top EXCEPT !.steps = @ + 1] ELSE Top
Begin(f)  == Len(stack) < HEIGHT /\ stack' = Append([stack EXCEPT ![Len(stack)] = Counted], f)

TooManySteps ==
  /\ sig = Run /\ more /\ spent
  /\ sig' = Err("Domain")
  /\ UNCHANGED <<stack, depth, thrown, shy, lands>>

Sentence ==
  /\ Ready
  /\ Replace(Counted)
  /\ sig' = InSentence
  /\ UNCHANGED <<depth, thrown, shy, lands>>

(* Expr::VerbDef and Expr::ModDef, and Control::Label. *)
SilentSentence ==
  /\ Ready /\ "silent" \in Forms
  /\ Replace(Counted)
  /\ shy' = FALSE
  /\ sig' = Ok("none", "normal")
  /\ UNCHANGED <<depth, thrown, lands>>

(* Control::Return, Break, Continue and Goto. *)
Leave(f) ==
  /\ Ready /\ f \in Forms
  /\ Replace(Counted)
  /\ Yield("none", f, FALSE)
  /\ lands' = IF f \in {"break", "continue"} THEN Innermost(Loops(stack)) ELSE lands
  /\ UNCHANGED <<depth, thrown>>

Throw ==
  /\ Ready /\ "throw" \in Forms
  /\ Replace(Counted)
  /\ thrown' = depth
  /\ shy' = FALSE
  /\ sig' = Err("Throw")
  /\ lands' = Innermost(Takers(stack, Bodies(stack)))
  /\ UNCHANGED depth

(* A choice, whose first arm's test runs first, and a while loop, whose    *)
(* body comes first in `whilst.`                                           *)
BeginTested(kind, testing, n) ==
  /\ Ready /\ kind \in Forms
  /\ Begin([kind |-> kind, block |-> EmptyBlock, testing |-> testing,
            held |-> "none", left |-> n])
  /\ shy' = FALSE /\ sig' = Run
  /\ UNCHANGED <<depth, thrown, lands>>

BeginTry(catch, catcht) ==
  /\ Ready /\ "try" \in Forms
  /\ Begin([kind |-> "try", block |-> EmptyBlock, here |-> depth,
            catch |-> catch, catcht |-> catcht])
  /\ shy' = FALSE /\ sig' = Run
  /\ UNCHANGED <<depth, thrown, lands>>
-----------------------------------------------------------------------------
(* In the midst of a sentence. *)
Evaluating == sig \in {InSentence, Answered}
Calls      == sig = InSentence \/ (sig = Answered /\ "again" \in Forms)

(* A control sentence that begins by evaluating one: `for.` and its items, *)
(* `select.` and its subject (an arm without a test runs at once), and the *)
(* branches `->`, which go to a sentence, a number of sentences on, out of *)
(* the definition, or nowhere.  A `for.` over no items goes nowhere too.   *)
BeginOver(kind, testing, n) ==
  /\ Evaluating /\ kind \in Forms /\ Top.kind \in RunsBlocks
  /\ Push([kind |-> kind, block |-> EmptyBlock, testing |-> testing,
           held |-> "none", left |-> n])
  /\ sig' = Run
  /\ UNCHANGED <<depth, thrown, shy, lands>>

Branch(f) ==
  /\ Evaluating /\ f \in Forms \cup {"normal"} /\ Top.kind \in RunsBlocks
  /\ Yield("none", f, FALSE)
  /\ UNCHANGED <<stack, depth, thrown, lands>>

(* call_explicit: the refusals before `enter` and the one inside it, or a  *)
(* level deeper.                                                           *)
Call ==
  /\ Calls /\ depth < RECURSION_LIMIT
  /\ Push([kind |-> "body", block |-> EmptyBlock, steps |-> 0])
  /\ depth' = depth + 1
  /\ shy' = FALSE
  /\ sig' = Run
  /\ UNCHANGED <<thrown, lands>>

CallTooDeep ==
  /\ Calls /\ depth = RECURSION_LIMIT
  /\ sig' = Err("Domain")
  /\ UNCHANGED <<stack, depth, thrown, shy, lands>>

(* A sentence libjay refuses, does not support, or fails itself. *)
Refuse(k) ==
  /\ Evaluating /\ k \in Forms
  /\ sig' = Err(k)
  /\ UNCHANGED <<stack, depth, thrown, shy, lands>>

(* `u :: v`, and execute (run_block over the compiled string). *)
BeginAdverse ==
  /\ sig = InSentence /\ "adverse" \in Forms
  /\ Push([kind |-> "adverse", block |-> EmptyBlock])
  /\ UNCHANGED <<depth, thrown, shy, sig, lands>>

BeginExecute ==
  /\ Calls /\ "execute" \in Forms
  /\ Push([kind |-> "execute", block |-> EmptyBlock])
  /\ shy' = FALSE /\ sig' = Run
  /\ UNCHANGED <<depth, thrown, lands>>

(* J: an executed string that is nothing but an unbound name is no error.  *)
ExecuteUnbound ==
  /\ sig = InSentence /\ "unbound" \in Forms /\ EmptyResult = "loud"
  /\ Top.kind = "execute" /\ Top.block = EmptyBlock
  /\ Pop
  /\ sig' = Answered
  /\ UNCHANGED <<depth, thrown, shy, lands>>

(* The sentence ends.  Its shyness is the last application's, or that of   *)
(* its own form.  The two verbs of an adverse end in the sentence it is    *)
(* written in.                                                             *)
EndSentence(quiet) ==
  /\ Evaluating /\ (quiet => "quiet" \in Forms)
  /\ IF Top.kind \in {"adverse", "otherwise"}
     THEN /\ Pop
          /\ sig' = Answered
     ELSE /\ UNCHANGED stack
          /\ sig' = Ok(IF quiet THEN "quiet" ELSE "loud", "normal")
  /\ shy' = quiet
  /\ UNCHANGED <<depth, thrown, lands>>
-----------------------------------------------------------------------------
(* What a sentence came to, in run_block and in run_body. *)
Took(b) ==
  [last |-> IF sig.value = "none" THEN b.last ELSE sig.value,
   shy  |-> IF sig.value = "none" THEN b.shy ELSE shy,
   at   |-> b.at + 1]

(* The sentence of a block, or of the program, ran to its end. *)
NextSentence ==
  /\ sig.is = "ok" /\ sig.flow = "normal"
  /\ Replace([Top EXCEPT !.block = Took(@)])
  /\ sig' = Run
  /\ UNCHANGED <<depth, thrown, shy, lands>>

(* run_body: a branch moves `at`; a relative one that lands outside, and   *)
(* every other flow, ends the definition.                                  *)
BranchInBody(to) ==
  /\ sig.is = "ok" /\ sig.flow \in {"goto", "goto_by"} /\ Top.kind = "body"
  /\ Replace([Top EXCEPT !.block = [Took(@) EXCEPT !.at = to]])
  /\ sig' = Run
  /\ UNCHANGED <<depth, thrown, shy, lands>>

LeaveBody ==
  /\ sig.is = "ok" /\ sig.flow \notin {"normal", "goto"} /\ Top.kind = "body"
  /\ Replace([Top EXCEPT !.block = [Took(@) EXCEPT !.at = LENGTH]])
  /\ sig' = Run
  /\ UNCHANGED <<depth, thrown, shy, lands>>

(* The end of run_body and of call_explicit: the value the body came to    *)
(* and its shyness, the result a header names, the definition's empty, or  *)
(* an error where there is neither.                                        *)
EndCall ==
  /\ sig = Run /\ Top.kind = "body" /\ ~more
  /\ Pop
  /\ depth' = depth - 1
  /\ \/ /\ Top.block.last # "none" \/ EmptyResult # "none"
        /\ sig' = Answered
        /\ shy' = (Top.block.last # "none" /\ Top.block.shy)
     \/ /\ "named" \in Forms
        /\ sig' \in {Answered, Err("Domain")} /\ shy' = FALSE
     \/ /\ Top.block.last = "none"
        /\ sig' = Err("Domain") /\ shy' = FALSE
  /\ UNCHANGED <<thrown, lands>>

(* The top level refuses a flow that leaves a definition. *)
LeaveProgram ==
  /\ sig.is = "ok" /\ sig.flow # "normal" /\ Top.kind = "program"
  /\ sig' = Err("Domain")
  /\ UNCHANGED <<stack, depth, thrown, shy, lands>>

EndProgram ==
  /\ sig = Run /\ Top.kind = "program" /\ ~more
  /\ Pop
  /\ sig' = Finished
  /\ UNCHANGED <<depth, thrown, shy, lands>>
-----------------------------------------------------------------------------
(* A block that has come to its end, or whose last sentence left it, hands *)
(* `last` and the flow to the control sentence it is part of.              *)
Blocked(kind) == Top.kind = kind /\ \/ sig = Run /\ ~more
                                    \/ sig.is = "ok" /\ sig.flow # "normal"
came == IF sig = Run THEN Top.block ELSE Took(Top.block)

(* run_block leaves the block's shyness in Ctx.shy; where the control      *)
(* sentence goes on, so does this, and g is its frame from here on.        *)
EndWith(v, f) == Pop /\ Yield(v, f, came.shy)
GoOn(g)       == Replace(g) /\ sig' = Run /\ shy' = came.shy
Fail          == "Domain" \in Forms /\ Pop /\ sig' = Err("Domain") /\ shy' = came.shy

(* The test of a choice holds, or another arm's test runs, or no arm is    *)
(* taken; a conditional with no clause to run answers shyly.               *)
EndTest ==
  /\ Blocked("choose") /\ sig = Run
  /\ \/ GoOn([kind |-> "rest", block |-> EmptyBlock])
     \/ Top.left > 0 /\ GoOn([Top EXCEPT !.left = @ - 1, !.block = EmptyBlock])
     \/ Pop /\ Yield("none", "normal", FALSE)
     \/ Pop /\ Yield("quiet", "normal", TRUE)
     \/ Fail
  /\ UNCHANGED <<depth, thrown, lands>>

EndRest ==
  /\ Blocked("rest") \/ Blocked("try") \/ (Blocked("choose") /\ sig # Run)
  /\ EndWith(came.last, sig.flow)
  /\ UNCHANGED <<depth, thrown, lands>>

(* execute drops the flow, and where there is no value refuses (APL) or    *)
(* answers the empty (J).                                                  *)
EndExecute ==
  /\ Blocked("execute")
  /\ Pop
  /\ sig' = IF came.last = "none" /\ EmptyResult = "none" THEN Err("Domain") ELSE Answered
  /\ shy' = came.shy
  /\ UNCHANGED <<depth, thrown, lands>>

(* A while loop's test holds or does not; one that leaves the loop takes   *)
(* its own value along.                                                    *)
EndWhileTest ==
  /\ Blocked("while") /\ Top.testing
  /\ \/ sig # Run /\ EndWith(came.last, sig.flow)
     \/ /\ sig = Run
        /\ GoOn([Top EXCEPT !.testing = FALSE,
                            !.block = [last |-> Top.held, at |-> 0,
                                       shy |-> Top.held # "none" /\ came.shy]])
     \/ sig = Run /\ EndWith(Top.held, "normal")
     \/ sig = Run /\ Fail
  /\ UNCHANGED <<depth, thrown, lands>>

(* The body of a loop: Break ends it, Continue does not, and any other     *)
(* flow leaves it too and goes on.                                         *)
Further(kind) == sig.flow \in {"normal", "continue"} /\ (kind = "while" \/ Top.left > 0)
OutwardsAll == sig.flow \* mutant of Outwards: a break goes on

Outwards      == IF sig.flow \in {"break", "continue"} THEN "normal" ELSE sig.flow

EndLoopBody(kind) ==
  /\ Blocked(kind) /\ ~Top.testing
  /\ IF ~Further(kind) THEN EndWith(came.last, Outwards)
     ELSE IF kind = "while"
     THEN GoOn([Top EXCEPT !.testing = TRUE, !.held = came.last, !.block = EmptyBlock])
     ELSE GoOn([Top EXCEPT !.left = @ - 1, !.block = [came EXCEPT !.at = 0]])
  /\ UNCHANGED <<depth, thrown, lands>>

(* A select's arms: one whose test holds is run, or one with no test; or   *)
(* another is tested; or there are no more.                                *)
EndSelectTest ==
  /\ Blocked("select") /\ Top.testing
  /\ \/ sig # Run /\ EndWith(came.last, sig.flow)
     \/ sig = Run /\ GoOn([Top EXCEPT !.testing = FALSE, !.block = EmptyBlock])
     \/ sig = Run /\ Top.left > 0 /\ GoOn([Top EXCEPT !.left = @ - 1, !.block = EmptyBlock])
     \/ sig = Run /\ EndWith("none", "normal")
  /\ UNCHANGED <<depth, thrown, lands>>

(* An `fcase.` body is followed by the next arm's. *)
EndSelectBody ==
  /\ Blocked("select") /\ ~Top.testing
  /\ \/ EndWith(came.last, sig.flow)
     \/ /\ sig = Run /\ Top.left > 0
        /\ GoOn([Top EXCEPT !.left = @ - 1, !.block = [came EXCEPT !.at = 0]])
  /\ UNCHANGED <<depth, thrown, lands>>
-----------------------------------------------------------------------------
(* Errors.  call_explicit leaves its level on the way out, as it does when *)
(* its body answers; a control sentence and execute pass the error on.     *)
UnwindEarly == \* mutant of Unwind: an error skips `leave`
  /\ sig.is = "err" /\ Top.kind \notin {"try", "adverse"}
  /\ Pop
  /\ sig' = IF Top.kind = "program" THEN Finished ELSE sig
  /\ UNCHANGED <<depth, thrown, shy, lands>>

Unwind ==
  /\ sig.is = "err" /\ Top.kind \notin {"try", "adverse"}
  /\ Pop
  /\ depth' = IF Top.kind = "body" THEN depth - 1 ELSE depth
  /\ sig' = IF Top.kind = "program" THEN Finished ELSE sig
  /\ UNCHANGED <<thrown, shy, lands>>

(* Control::Try: what it does not rescue goes on outwards. *)
RescuesItsOwn(k) == \* mutant of Rescues: a throw of the try's own definition
  IF k = "Throw" THEN Top.catcht /\ thrown >= Top.here
  ELSE k \notin {"NotYet", "Internal"} /\ (Top.catch \/ ~Top.catcht)

RescuesGaps(k) == \* mutant of Rescues: the gaps too
  IF k = "Throw" THEN Top.catcht /\ thrown > Top.here ELSE Top.catch \/ ~Top.catcht

Rescues(k) ==
  IF k = "Throw" THEN Top.catcht /\ thrown > Top.here
  ELSE k \notin {"NotYet", "Internal"} /\ (Top.catch \/ ~Top.catcht)

Rescue ==
  /\ sig.is = "err" /\ Top.kind = "try" /\ Rescues(sig.kind)
  /\ Replace([kind |-> "rest", block |-> EmptyBlock])
  /\ IF sig.kind = "Throw" THEN thrown' = Unthrown /\ lands' = 0
     ELSE UNCHANGED <<thrown, lands>>
  /\ sig' = Run
  /\ UNCHANGED <<depth, shy>>

PassOn ==
  /\ sig.is = "err"
  /\ \/ Top.kind = "try" /\ ~Rescues(sig.kind)
     \/ Top.kind = "adverse" /\ sig.kind = "NotYet"
  /\ Pop
  /\ UNCHANGED <<depth, thrown, shy, sig, lands>>

(* Verb::Adverse: v is applied in place of u. *)
Otherwise ==
  /\ sig.is = "err" /\ Top.kind = "adverse" /\ sig.kind # "NotYet"
  /\ Replace([kind |-> "otherwise", block |-> EmptyBlock])
  /\ sig' = InSentence
  /\ shy' = FALSE
  /\ lands' = 0
  /\ UNCHANGED <<depth, thrown>>

Step ==
  \/ TooManySteps \/ Sentence \/ SilentSentence \/ Throw
  \/ \E f \in {"return", "break", "continue", "goto"} : Leave(f)
  \/ \E n \in 0 .. ITEMS : BeginTested("choose", TRUE, n)
  \/ \E testing \in BOOLEAN : BeginTested("while", testing, 0)
  \/ \E catch, catcht \in BOOLEAN : BeginTry(catch, catcht)
  \/ \E n \in 0 .. ITEMS : BeginOver("for", FALSE, n)
  \/ \E testing \in BOOLEAN, n \in 0 .. ITEMS : BeginOver("select", testing, n)
  \/ \E f \in {"normal", "return", "goto", "goto_by"} : Branch(f)
  \/ Call \/ CallTooDeep \/ BeginAdverse \/ BeginExecute \/ ExecuteUnbound
  \/ \E k \in {"Domain", "NotYet", "Internal"} : Refuse(k)
  \/ \E quiet \in BOOLEAN : EndSentence(quiet)
  \/ NextSentence \/ LeaveBody \/ EndCall \/ LeaveProgram \/ EndProgram
  \/ \E to \in 0 .. LENGTH - 1 : BranchInBody(to)
  \/ EndTest \/ EndRest \/ EndExecute \/ EndWhileTest
  \/ \E kind \in {"while", "for"} : EndLoopBody(kind)
  \/ EndSelectTest \/ EndSelectBody
  \/ Unwind \/ Rescue \/ PassOn \/ Otherwise

Ended == stack = <<>>

Next == (~Ended /\ Step) \/ (Ended /\ UNCHANGED vars)

Spec == Init /\ [][Next]_vars

(* The evaluator is one thread and waits for nothing: it always takes its  *)
(* next step.                                                              *)
FairSpec == Spec /\ WF_vars(Next)
-----------------------------------------------------------------------------
(* Every way out of a definition, an answer, an error or a throw, leaves   *)
(* its level and no more: Env.depth counts the calls under way, and a try  *)
(* compares a throw with the level it is really at.                        *)
DepthBalanced ==
  /\ depth = Bodies(stack)
  /\ \A i \in DOMAIN stack :
       stack[i].kind = "try" => stack[i].here = Bodies(SubSeq(stack, 1, i))

(* A throw stops at the innermost catcht of a caller of the definition it  *)
(* is raised in, or at an adverse that comes first, and otherwise ends the *)
(* program: nothing in between takes it, and none that should is passed by *)
(* (Control::Throw and Control::Try).                                      *)
ThrowStopsWhereItShould ==
  [][sig.kind = "Throw" /\ sig'.kind # "Throw" => Len(stack') = lands]_vars

(* A break or a continue stops at the innermost loop whose body it is      *)
(* written in, through every choice, select and try in between, and never  *)
(* leaves its definition (Control::Break, and each control sentence's flow *)
(* on the way).                                                            *)
BreakStopsAtItsLoop ==
  [][sig.flow \in {"break", "continue"} /\ sig'.flow # sig.flow => Len(stack) = lands]_vars

(* A gap in libjay reaches the host: no try and no adverse answers for it  *)
(* ("swallowing a promise would turn it into a wrong answer").             *)
GapsGetThrough == [][sig.kind = "NotYet" => sig' \in {sig, Finished}]_vars

(* A program of branches, for loops and recursion ends: BRANCH_LIMIT and   *)
(* RECURSION_LIMIT are the only bounds those have ("an unbounded one would *)
(* hang").  Only a while loop, which has none, can keep one from its end.  *)
Looping == \E i \in DOMAIN stack : stack[i].kind = "while"
Ends    == []<>(Ended \/ Looping)
=============================================================================
