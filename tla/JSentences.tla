----------------------------- MODULE JSentences -----------------------------
(***************************************************************************)
(* J's parser (frontend/j.rs): a sentence is read from the right onto a    *)
(* stack whose first four places the parse table looks at; what names      *)
(* stand for is what the sentences read so far said of them.  And the      *)
(* translation of a body of x and y into a verb that names neither.        *)
(***************************************************************************)
EXTENDS JModifiers

Mark   == Word("mark")
Local  == Word("local")
Global == Word("global")
VerbDef(n, v) == [k |-> "verbdef", name |-> n, v |-> v]
ModDef(n, m)  == [k |-> "moddef", name |-> n, m |-> m]
MonadE(v, y)   == [e |-> "monad", v |-> v, y |-> y]
DyadE(v, x, y) == [e |-> "dyad", v |-> v, x |-> x, y |-> y]
AssignE(n, value, global) == [e |-> "assign", name |-> n, value |-> value, global |-> global]
AssignManyE(ns, value, global) == [e |-> "assign_many", names |-> ns, value |-> value, global |-> global]
Operands(e) ==
  CASE e.e \in {"assign", "assign_many"} -> <<e.value>>
    [] e.e = "monad" -> <<e.y>>
    [] e.e = "dyad" -> <<e.x, e.y>>
    [] OTHER -> <<>>

(***************************************************************************)
(* What a sentence does to the names.                                      *)
(***************************************************************************)
Unbound(f, k) == Restrict(f, DOMAIN f \ {k})
Bound(f, k, a) == (k :> a) @@ f
ForgetVerbs(scope, n) == \* mutant of Forget: what the name was worth stays
  LET k == KeyOf(scope, n) IN [scope EXCEPT !.verbs = Unbound(@, k), !.mods = Unbound(@, k), !.nouns = @ \ {k}]
Forget(scope, n) ==
  LET k == KeyOf(scope, n)
  IN  [scope EXCEPT !.verbs = Unbound(@, k), !.mods = Unbound(@, k), !.nouns = @ \ {k}, !.consts = Unbound(@, k)]
IsAssignTo(ws, i) == i < Len(ws) /\ IsAssign(ws[i + 1])
SubstituteNames(ws, scope) ==
  LET word(f) ==
        LET v == VerbNamed(scope, f.name) m == ModNamed(scope, f.name)
            placed == IF f.name \notin scope.locals /\ scope.current # "base" /\ f.name[2] = "" THEN KeyOf(scope, f.name) ELSE f.name
        IN  IF Known(v) THEN VerbFrag(v) ELSE IF ~Refused(m) THEN m ELSE NameFrag(placed)
  IN  [i \in DOMAIN ws |-> IF ws[i].k # "name" \/ IsAssignTo(ws, i) THEN ws[i] ELSE word(ws[i])]
TextNames(f) == \* the names a text lists
  IF f.k = "name" THEN {f.name}
  ELSE LET a == Const(f) IN IF Refused(a) THEN {} ELSE IF a.type = "names" THEN Range(a.data) ELSE {}
NamesThisSentenceAssigns(ws) == UNION {TextNames(ws[i]) : i \in {j \in DOMAIN ws : IsAssignTo(ws, j)}}
RECURSIVE AssignedNames(_)
AssignedNames(e) ==
  LET here == CASE e.e = "assign" -> <<e.name>> [] e.e = "assign_many" -> e.names [] OTHER -> <<>>
      of == Operands(e)
  IN  FoldLeft(LAMBDA acc, i : acc \o AssignedNames(of[i]), here, [i \in DOMAIN of |-> i])
RECURSIVE AssignsLocally(_, _)
AssignsLocally(e, n) ==
  \/ e.e = "assign" /\ ~e.global /\ e.name = n
  \/ e.e = "assign_many" /\ ~e.global /\ n \in Range(e.names)
  \/ \E i \in DOMAIN Operands(e) : AssignsLocally(Operands(e)[i], n)
LiteralAssigned(e, n) ==
  IF e.e # "assign" THEN Declined
  ELSE IF e.name # n \/ e.value.e # "const" THEN Declined ELSE e.value.a
LocaleSwitch(e) == \* the locale a sentence moves to, as a set of none or one
  IF e.e # "monad" THEN {}
  ELSE IF e.v.form # "Prim" \/ e.y.e # "const" THEN {}
  ELSE IF e.v.monad = "CoCurrent" /\ e.y.a.type = "names" THEN {e.y.a.data[1][1]} ELSE {}
RecordNoun(scope, e, n) ==
  LET forgot == Forget(scope, n) a == LiteralAssigned(e, n) k == KeyOf(forgot, n)
      noun == [forgot EXCEPT !.nouns = @ \cup {k}]
  IN  IF scope.inner /\ AssignsLocally(e, n) /\ n[2] = ""
      THEN LET own == [forgot EXCEPT !.locals = @ \cup {n}] ownForgot == Forget(own, n) ownKey == KeyOf(own, n)
               ownNoun == [ownForgot EXCEPT !.nouns = @ \cup {ownKey}]
           IN  IF Refused(a) THEN ownNoun ELSE [ownNoun EXCEPT !.consts = Bound(@, ownKey, a)]
      ELSE IF Refused(a) THEN noun ELSE [noun EXCEPT !.consts = Bound(@, k, a)]
Record(scope, s) ==
  IF s.e = "verbdef" THEN LET f == Forget(scope, s.name) IN [f EXCEPT !.verbs = Bound(@, KeyOf(f, s.name), s.v)]
  ELSE IF s.e = "moddef" THEN LET f == Forget(scope, s.name) IN [f EXCEPT !.mods = Bound(@, KeyOf(f, s.name), s.m)]
  ELSE LET moved == [scope EXCEPT !.current = IF LocaleSwitch(s) = {} THEN @ ELSE CHOOSE l \in LocaleSwitch(s) : TRUE]
       IN  FoldLeft(LAMBDA acc, n : RecordNoun(acc, s, n), moved, AssignedNames(s))

(***************************************************************************)
(* The parse table.  A name nothing is known of is a verb where a verb is  *)
(* what belongs in its place.                                              *)
(***************************************************************************)
Is(s, i, P(_)) == i <= Len(s) /\ P(s[i])
Around(f) == IsEdge(f) \/ IsAvn(f)
VerbOrNoun(f) == IsRealVerb(f) \/ IsNoun(f)
AnyVerbOrNoun(f) == IsVerb(f) \/ IsNoun(f)
IsAdverb(f) == f.k = "adverb"
IsConj(f) == f.k = "conj"
IsLeft(f) == f.k = "lparen"
IsRight(f) == f.k = "rparen"
AfterMonad(s) == \* the rules below the first, in their order
  LET at1(P(_)) == Is(s, 1, P) at2(P(_)) == Is(s, 2, P) at3(P(_)) == Is(s, 3, P) at4(P(_)) == Is(s, 4, P)
  IN  IF at1(Around) /\ at2(IsVerb) /\ at3(IsRealVerb) /\ at4(IsNoun) THEN "monad2"
      ELSE IF at1(Around) /\ at2(IsNoun) /\ at3(IsRealVerb) /\ at4(IsNoun) THEN "dyad3"
      ELSE IF at1(Around) /\ at2(VerbOrNoun) /\ at3(IsAdverb) THEN "adverb4"
      ELSE IF at1(Around) /\ at2(VerbOrNoun) /\ at3(IsConj) /\ at4(VerbOrNoun) THEN "conj5"
      ELSE IF at1(Around) /\ at2(AnyVerbOrNoun) /\ at3(IsRealVerb) /\ at4(IsRealVerb) THEN "fork6"
      ELSE IF at1(IsEdge) /\ at2(IsCavn) /\ at3(IsCavn) THEN "bident7"
      ELSE IF at1(IsNoun) /\ at2(IsAssign) /\ at3(IsCavn) THEN "assign8"
      ELSE IF at1(IsLeft) /\ at2(IsCavn) /\ at3(IsRight) THEN "paren9" ELSE "none"
MatchRuleHungry(s) == \* mutant of MatchRule: a verb takes its right argument whatever stands to its left
  IF Is(s, 1, Around) /\ Is(s, 2, IsRealVerb) /\ Is(s, 3, IsNoun) THEN "monad1" ELSE AfterMonad(s)
MatchRule(s) ==
  IF Is(s, 1, IsEdge) /\ Is(s, 2, IsRealVerb) /\ Is(s, 3, IsNoun) THEN "monad1" ELSE AfterMonad(s)
NameAsVerbSlot(rule, s, scope) ==
  LET unknown(i) == i <= Len(s) /\ s[i].k = "name" /\ MayBeAVerb(scope, s[i].name)
      slots == CASE rule = "monad1" -> <<3>>
                 [] rule \in {"monad2", "dyad3"} -> <<4>>
                 [] rule = "adverb4" -> <<2>>
                 [] rule = "bident7" -> IF IsVerb(s[2]) \/ unknown(2) THEN <<3>> ELSE <<>>
                 [] rule = "conj5" -> IF "m" \in DOMAIN s[3] /\ s[3].m = "\"" THEN <<2>> ELSE <<2, 4>>
                 [] OTHER -> <<>>
      hits == SelectSeq(slots, unknown)
  IN  IF hits = <<>> THEN 0 ELSE hits[1]

ApplyAssign(target, value, global) ==
  LET many == IF target.k # "noun" THEN Declined ELSE Const(target)
      names == IF Refused(many) THEN <<>> ELSE IF many.type = "names" THEN many.data ELSE <<>>
  IN  IF target.k = "noun" /\ ~Refused(many) /\ many.type = "names"
      THEN IF names = <<>> THEN Refusal("parse")
           ELSE IF ~IsNoun(value) THEN Refusal("domain")
           ELSE NounFrag(IF Len(names) = 1 THEN AssignE(names[1], NounExpr(value), global)
                         ELSE AssignManyE(names, NounExpr(value), global))
      ELSE IF target.k = "noun" THEN Refusal("notyet")
      ELSE CASE value.k = "verb" -> VerbDef(target.name, value.v)
             [] value.k = "cap" -> Refusal("notyet")
             [] value.k \in {"adverb", "conj"} -> ModDef(target.name, value)
             [] IsNoun(value) -> NounFrag(AssignE(target.name, NounExpr(value), global))
             [] OTHER -> Refusal("internal")

(* A stack, or the error that ended it.                                     *)
Stacked(s) == [stack |-> s]
Put(s, from, to, f) == Then(f, LAMBDA g : Stacked(SubSeq(s, 1, from - 1) \o <<g>> \o SubSeq(s, to + 1, Len(s))))
OneVerb(f) == IF f.k = "verb" THEN f.v ELSE Refusal("internal")
MonadFrag(f, y) == Then(OneVerb(f), LAMBDA v : NounFrag(MonadE(v, NounExpr(y))))
DyadFrag(x, f, y) == Then(OneVerb(f), LAMBDA v : NounFrag(DyadE(v, NounExpr(x), NounExpr(y))))
RECURSIVE ReduceStack(_, _), DeriveExplicit(_, _, _, _), BuildDefinition(_, _, _, _)
(* A number before a colon and boxed lines after it are a definition too.   *)
BoxedBodyDefinition(u, v, scope) ==
  LET n == NounValue(u) a == NounValue(v)
      lines == [i \in DOMAIN a.data |-> a.data[i].data[1]]
  IN  IF Refused(n) THEN Refusal("parse")
      ELSE IF Rank(n) # 0 \/ ~Numeric(n) THEN Refusal("parse")
      ELSE IF n.data[1] \in {1, 2, 13} THEN Refusal("notyet")
      ELSE IF n.data[1] \notin {3, 4} THEN Refusal("domain")
      ELSE IF Refused(a) THEN Refusal("notyet")
      ELSE IF a.type # "box" THEN Refusal("parse")
      ELSE IF \E i \in DOMAIN a.data : a.data[i].type # "source" THEN Refusal("parse")
      ELSE Then(BuildDefinition(lines, n.data[1] = 4, scope, {}), LAMBDA d : VerbFrag(d))
Modified(u, a, scope) ==
  IF "src" \in DOMAIN a THEN DeriveExplicit(a.src, u, Mark, scope) ELSE Adverb(u, a.m, scope)
Conjoined(u, c, v, scope) ==
  IF "src" \in DOMAIN c THEN DeriveExplicit(c.src, u, v, scope)
  ELSE IF c.m = ":" /\ IsNoun(u) /\ IsNoun(v) THEN BoxedBodyDefinition(u, v, scope) ELSE Conj(u, c.m, v, scope)
Apply(s, rule, scope) ==
  LET slot == NameAsVerbSlot(rule, s, scope)
  IN  IF slot > 0 THEN Put(s, slot, slot, AsTrainPart(s[slot], scope))
      ELSE CASE rule = "monad1"  -> Put(s, 2, 3, MonadFrag(s[2], s[3]))
             [] rule = "monad2"  -> Put(s, 3, 4, MonadFrag(s[3], s[4]))
             [] rule = "dyad3"   -> Put(s, 2, 4, DyadFrag(s[2], s[3], s[4]))
             [] rule = "adverb4" -> Put(s, 2, 3, Modified(s[2], s[3], scope))
             [] rule = "conj5"   -> Put(s, 2, 4, Conjoined(s[2], s[3], s[4], scope))
             [] rule = "fork6"   -> Put(s, 2, 4, ForkOf(s[2], s[3], s[4], scope))
             [] rule = "bident7" -> Put(s, 2, 3, Bident(s[2], s[3], scope))
             [] rule = "assign8" -> Put(s, 1, 3, ApplyAssign(s[1], s[3], s[2].k = "global"))
             [] rule = "paren9"  -> Put(s, 1, 3, s[2])
ReduceStack(st, scope) ==
  IF Refused(st) THEN st
  ELSE LET rule == MatchRule(st.stack)
       IN  IF rule = "none" THEN st ELSE ReduceStack(Apply(st.stack, rule, scope), scope)
CheckParens(ws) ==
  LET depth[i \in 0 .. Len(ws)] ==
        IF i = 0 THEN 0
        ELSE depth[i - 1] + (CASE IsLeft(ws[i]) -> 1 [] IsRight(ws[i]) -> -1 [] OTHER -> 0)
  IN  depth[Len(ws)] = 0 /\ \A i \in DOMAIN ws : depth[i] >= 0
NoFragment == Word("nothing")
ReduceToFragment(ws, scope) ==
  LET read == FoldRight(LAMBDA w, st : IF Refused(st) THEN st ELSE ReduceStack(Stacked(<<w>> \o st.stack), scope), ws, Stacked(<<>>))
      held(st) == Len(st.stack) > 1 /\ \E i \in DOMAIN st.stack : st.stack[i].k \in {"verbdef", "moddef"}
      closed == Then(read, LAMBDA st : IF held(st) THEN Refusal("notyet") ELSE ReduceStack(Stacked(<<Mark>> \o st.stack), scope))
  IN  IF ~CheckParens(ws) THEN Refusal("parse")
      ELSE Then(closed, LAMBDA st : IF Len(st.stack) = 2 THEN st.stack[2] ELSE NoFragment)
Lower(f) ==
  CASE IsNoun(f) -> NounExpr(f)
    [] f.k = "verbdef" -> [e |-> "verbdef", name |-> f.name, v |-> f.v]
    [] f.k = "verb" -> IF f.v.form = "Explicit" THEN [e |-> "entity", words |-> <<f>>]
                       ELSE IF Linear(f.v).shape = "none" THEN Refusal("notyet") ELSE [e |-> "entity", words |-> Linear(f.v).words]
    [] f.k \in {"adverb", "conj", "cap"} -> [e |-> "entity", words |-> <<f>>]
    [] OTHER -> Refusal("parse")
(* One sentence: the statement it is, and the names after it.              *)
ParseSentence(ws, scope) ==
  LET words == SubstituteNames(ws, scope)
      here == [scope EXCEPT !.assigned = NamesThisSentenceAssigns(words)]
      said(f) == IF f.k = "moddef" THEN [e |-> "moddef", name |-> f.name, m |-> f.m] ELSE Lower(f)
  IN  Then(ReduceToFragment(words, here), LAMBDA f :
        Then(said(f), LAMBDA s : [statement |-> s, scope |-> Record(here, s)]))

(***************************************************************************)
(* Explicit definitions.  A body is the lines up to a closing bracket, a   *)
(* text, or what stands between braces; definitions inside it are taken    *)
(* out of its lines first, and what is left is sentences and control words.*)
(***************************************************************************)
Source(words) == Arr("source", <<1>>, <<words>>)  \* a text, as the words it holds
ControlFrag(w, suffix) == [k |-> "control", word |-> w, suffix |-> suffix]
DdOpen(marker) == [k |-> "ddopen", marker |-> marker]
DdClose == Word("ddclose")
Mentions(body, heads) == \E i \in DOMAIN body : \E j \in DOMAIN body[i] :
  body[i][j].k = "name" /\ \E h \in heads : body[i][j].name = Bare(h)
ModSource(conjunction, body, self) ==
  [conjunction |-> conjunction, lines |-> body, dyadic |-> Mentions(body, {"x"}), deferred |-> Mentions(body, {"x", "y"}),
   self |-> self]
ModFrag(src) == [k |-> IF src.conjunction THEN "conj" ELSE "adverb", src |-> src]
SelfName(ws) == IF Len(ws) > 1 /\ ws[1].k = "name" /\ IsAssign(ws[2]) THEN {ws[1].name} ELSE {}
FirstAt(ws, P(_)) == LET hits == {i \in DOMAIN ws : P(i)} IN IF hits = {} THEN 0 ELSE Min(hits)
IsColon(f) == IF f.k # "conj" \/ "m" \notin DOMAIN f THEN FALSE ELSE f.m = ":"
FindColon(ws) == FirstAt(ws, LAMBDA i :
  /\ i > 1 /\ i < Len(ws)
  /\ IsColon(ws[i])
  /\ ~Refused(Const(ws[i - 1])) /\ Rank(Const(ws[i - 1])) = 0
  /\ ~Refused(Const(ws[i + 1])))
Taken(body, rest) == [body |-> body, rest |-> rest]
TakeLinesUntilParen(lines) ==
  LET at == FirstAt(lines, LAMBDA i : lines[i] = <<RParen>>)
  IN  IF at = 0 THEN Refusal("parse") ELSE Taken(First(at - 1, lines), After(at, lines))
Spliced(ws, from, to, f, rest) == [sentence |-> First(from - 1, ws) \o <<f>> \o After(to, ws), rest |-> rest]
RECURSIVE TacitDefinition(_, _)
TakeColon(ws, at, rest, scope, self) ==
  LET n == Const(ws[at - 1]) a == Const(ws[at + 1])
      valence == IF Numeric(n) THEN n.data[1] ELSE -1
      lines == CASE Numeric(a) -> IF a.data = <<0>> THEN TakeLinesUntilParen(rest) ELSE Refusal("parse")
                 [] a.type = "source" -> Taken(a.data, rest)
                 [] OTHER -> Refusal("parse")
      put(f, left) == Spliced(ws, at - 1, at + 1, f, left)
  IN  IF ~Numeric(n) THEN Refusal("parse")
      ELSE IF valence = 0 THEN (IF a.type # "source" THEN Refusal("parse") ELSE put(Quoted(a), rest))
      ELSE IF valence \notin {1, 2, 3, 4, 13} THEN Refusal("domain")
      ELSE Then(lines, LAMBDA t :
        CASE valence = 13 -> Then(TacitDefinition(t.body, scope), LAMBDA v : put(VerbFrag(v), t.rest))
          [] valence \in {1, 2} -> put(ModFrag(ModSource(valence = 2, t.body, self)), t.rest)
          [] OTHER -> Then(BuildDefinition(t.body, valence = 4, scope, self), LAMBDA v : put(VerbFrag(v), t.rest)))
RECURSIVE TakeBraces(_, _, _, _)
TakeBraces(line, rest, depth, body) ==
  LET level[i \in 0 .. Len(line)] ==
        IF i = 0 THEN depth
        ELSE level[i - 1] + (CASE line[i].k = "ddopen" -> 1 [] line[i].k = "ddclose" -> -1 [] OTHER -> 0)
      close == FirstAt(line, LAMBDA i : level[i] = 0)
      kept(ws) == IF ws = <<>> THEN body ELSE Append(body, ws)
  IN  IF close > 0 THEN [body |-> kept(First(close - 1, line)), tail |-> After(close, line), rest |-> rest]
      ELSE IF rest = <<>> THEN Refusal("parse")
      ELSE TakeBraces(Head(rest), Tail(rest), level[Len(line)], kept(line))
TakeDirect(ws, open, rest, scope, self) ==
  LET marker == ws[open].marker
      part(body) == CASE marker = "" -> IF Mentions(body, {"v", "n"}) THEN "conj"
                                        ELSE IF Mentions(body, {"u", "m"}) THEN "adverb" ELSE "verb"
                      [] marker = "a" -> "adverb" [] marker = "c" -> "conj"
                      [] marker \in {"v", "m", "d"} -> "verb" [] OTHER -> "none"
      frag(body) == LET p == part(body) dyadic == IF marker \in {"m", "d"} THEN marker = "d" ELSE Mentions(body, {"x"})
                    IN  CASE p = "none" -> Refusal("notyet")
                          [] p = "verb" -> Then(BuildDefinition(body, dyadic, scope, self), LAMBDA v : VerbFrag(v))
                          [] OTHER -> ModFrag(ModSource(p = "conj", body, self))
  IN  Then(TakeBraces(After(open, ws), rest, 1, <<>>), LAMBDA t :
        Then(frag(t.body), LAMBDA f : [sentence |-> First(open - 1, ws) \o <<f>> \o t.tail, rest |-> t.rest]))
RECURSIVE Collected(_, _, _, _)
Collected(ws, rest, scope, self) ==
  LET open == FirstAt(ws, LAMBDA i : ws[i].k = "ddopen") colon == FindColon(ws)
      again(r) == Collected(r.sentence, r.rest, scope, self)
  IN  IF open > 0 THEN Then(TakeDirect(ws, open, rest, scope, self), again)
      ELSE IF colon > 0 THEN Then(TakeColon(ws, colon, rest, scope, self), again)
      ELSE [sentence |-> ws, rest |-> rest]
CollectDefinitions(lines, scope) == Collected(Head(lines), Tail(lines), scope, SelfName(Head(lines)))
RECURSIVE CollectLines(_, _)
CollectLines(lines, scope) == \* a body's lines, its own definitions made
  IF lines = <<>> THEN [lines |-> <<>>]
  ELSE Then(CollectDefinitions(lines, scope), LAMBDA c :
         Then(CollectLines(c.rest, scope), LAMBDA more :
           [lines |-> (IF c.sentence = <<>> THEN <<>> ELSE <<c.sentence>>) \o more.lines]))

(***************************************************************************)
(* Control words.                                                          *)
(***************************************************************************)
Sentence(ws) == [sentence |-> ws]
IsWord(item) == "word" \in DOMAIN item
LineItems(line) ==
  FoldLeft(LAMBDA acc, f :
    IF f.k = "control" THEN Append(acc, [word |-> f.word, suffix |-> f.suffix])
    ELSE IF acc # <<>> /\ ~IsWord(acc[Len(acc)]) THEN [acc EXCEPT ![Len(acc)] = Sentence(Append(@.sentence, f))]
    ELSE Append(acc, Sentence(<<f>>)), <<>>, line)
SplitItems(lines) == FoldLeft(LAMBDA acc, line : acc \o LineItems(line), <<>>, lines)
ControlE(c, blocks) == [e |-> "control", c |-> c, blocks |-> blocks]
Jump(c, to)         == [e |-> "control", c |-> c, to |-> to, blocks |-> <<>>]
Block(out, items, scope) == [out |-> out, items |-> items, scope |-> scope]
PeekWord(items) == IF items = <<>> THEN "" ELSE IF IsWord(items[1]) THEN items[1].word ELSE ""
(* F of what follows the word, when it is there. *)
Expect(b, word, F(_)) == Then(b, LAMBDA r : IF PeekWord(r.items) = word THEN F([r EXCEPT !.items = Tail(@)]) ELSE Refusal("parse"))
OneExprAny(b) == Then(b, LAMBDA r : IF r.out = <<>> THEN Refusal("parse") ELSE r) \* mutant of OneExpr: several sentences pass for one
OneExpr(b) == Then(b, LAMBDA r : IF r.out = <<>> THEN Refusal("parse") ELSE IF Len(r.out) > 1 THEN Refusal("notyet") ELSE r)
RECURSIVE ParseBlock(_, _, _), ParseArms(_, _, _), ParseCases(_, _, _), ParseCatches(_, _, _)
(* A test, a word, a body: the tests and bodies so far are blocks in turn.  *)
TestAndBody(items, scope, stop, F(_, _, _)) ==
  Expect(ParseBlock(items, scope, {"do."}), "do.", LAMBDA test :
    Then(ParseBlock(test.items, test.scope, stop), LAMBDA body : F(test, body, <<test.out, body.out>>)))
Finished(b, c) == Block(<<c>>, b.items, b.scope)
ParseArms(items, scope, blocks) ==
  TestAndBody(items, scope, {"elseif.", "else.", "end."}, LAMBDA test, body, both :
    CASE PeekWord(body.items) = "elseif." -> ParseArms(Tail(body.items), body.scope, blocks \o both)
      [] PeekWord(body.items) = "else." ->
           Expect(ParseBlock(Tail(body.items), body.scope, {"end."}), "end.", LAMBDA other :
             Finished(other, ControlE("if", blocks \o both \o <<other.out>>)))
      [] OTHER -> Expect(body, "end.", LAMBDA r : Finished(r, ControlE("if", blocks \o both))))
ParseCases(items, scope, blocks) ==
  IF PeekWord(items) \notin {"case.", "fcase."}
  THEN Expect(Block(<<>>, items, scope), "end.", LAMBDA r : Finished(r, ControlE("select", blocks)))
  ELSE TestAndBody(Tail(items), scope, {"case.", "fcase.", "end."}, LAMBDA test, body, both :
         ParseCases(body.items, body.scope, blocks \o <<<<Jump(PeekWord(items), "")>>>> \o both))
ParseCatches(items, scope, blocks) == \* a later block of a kind replaces the one before
  IF PeekWord(items) \notin {"catch.", "catcht."}
  THEN Expect(Block(<<>>, items, scope), "end.", LAMBDA r : Finished(r, ControlE("try", blocks)))
  ELSE Then(ParseBlock(Tail(items), scope, {"catch.", "catcht.", "end."}), LAMBDA b :
         ParseCatches(b.items, b.scope, [blocks EXCEPT ![IF PeekWord(items) = "catch." THEN 2 ELSE 3] = b.out]))
LoopNames(scope, name) ==
  FoldLeft(LAMBDA acc, n : LET f == Forget(acc, n) IN [f EXCEPT !.locals = @ \cup {n}, !.nouns = @ \cup {<<n[1], "base">>}],
           scope, name)
ParseControl(items, scope) ==
  LET w == items[1].word rest == Tail(items)
      name == items[1].suffix
      named == IF name = "" THEN <<>> ELSE <<Bare(name), <<name, "index">>>>
  IN  CASE w = "if." -> ParseArms(rest, scope, <<>>)
        [] w \in {"while.", "whilst."} ->
             TestAndBody(rest, scope, {"end."}, LAMBDA test, body, both :
               Expect(body, "end.", LAMBDA r : Finished(r, ControlE(w, both))))
        [] w = "for." ->
             Expect(ParseBlock(rest, LoopNames(scope, named), {"do."}), "do.", LAMBDA source :
               Expect(ParseBlock(source.items, source.scope, {"end."}), "end.", LAMBDA body :
                 Then(OneExpr(source), LAMBDA one :
                   Finished(body, ControlE("for", <<source.out, body.out>>) @@ [names |-> named]))))
        [] w = "select." ->
             Then(OneExpr(ParseBlock(rest, scope, {"case.", "fcase.", "end."})), LAMBDA subject :
               ParseCases(subject.items, subject.scope, <<subject.out>>))
        [] w = "try." ->
             Then(ParseBlock(rest, scope, {"catch.", "catcht.", "end."}), LAMBDA body :
               ParseCatches(body.items, body.scope, <<body.out, <<>>, <<>>>>))
        [] w \in {"return.", "break.", "continue.", "throw."} -> Block(<<Jump(w, "")>>, rest, scope)
        [] w \in {"goto.", "label."} -> IF name = "" THEN Refusal("parse") ELSE Block(<<Jump(w, name)>>, rest, scope)
        [] OTHER -> Refusal("parse")
ParseBlock(items, scope, stop) ==
  LET more(b) == Then(ParseBlock(b.items, b.scope, stop), LAMBDA r : [r EXCEPT !.out = b.out \o @])
  IN  IF items = <<>> \/ PeekWord(items) \in stop THEN Block(<<>>, items, scope)
      ELSE IF IsWord(items[1]) THEN Then(ParseControl(items, scope), more)
      ELSE Then(ParseSentence(items[1].sentence, scope), LAMBDA p : more(Block(<<p.statement>>, Tail(items), p.scope)))

(* A label is a line of the body itself; a branch may stand anywhere.       *)
RECURSIVE Gotos(_)
Gotos(block) == UNION {IF block[i].e # "control" THEN {}
                       ELSE IF block[i].c = "goto." THEN {block[i].to}
                       ELSE UNION {Gotos(block[i].blocks[j]) : j \in DOMAIN block[i].blocks} : i \in DOMAIN block}
LabelsAt(body) == {i \in DOMAIN body : body[i].e = "control" /\ body[i].c = "label."}
LabelsResolve(body) ==
  /\ \A i, j \in LabelsAt(body) : body[i].to = body[j].to => i = j
  /\ Gotos(body) \subseteq {body[i].to : i \in LabelsAt(body)}
RECURSIVE BlockIsPure(_)
BlockIsPure(e) ==
  CASE e.e \in {"const", "name"} -> TRUE
    [] e.e = "monad" -> IsPure(e.v) /\ BlockIsPure(e.y)
    [] e.e = "dyad" -> IsPure(e.v) /\ BlockIsPure(e.x) /\ BlockIsPure(e.y)
    [] e.e = "assign" -> BlockIsPure(e.value)
    [] e.e = "control" -> \A i \in DOMAIN e.blocks : \A j \in DOMAIN e.blocks[i] : BlockIsPure(e.blocks[i][j])
    [] OTHER -> FALSE
Argument(scope, head) ==
  [scope EXCEPT !.locals = @ \cup {Bare(head)}, !.nouns = @ \cup {<<head, "base">>}, !.verbs = Unbound(@, <<head, "base">>),
                !.consts = Unbound(@, <<head, "base">>)]
BodyScope(scope, dyadic, self) == \* the names as a body starts with them
  LET home == UNION {IF n[2] = "" THEN {} ELSE {n[2]} : n \in self}
      fresh == [scope EXCEPT !.current = IF home = {} THEN @ ELSE CHOOSE l \in home : TRUE, !.inner = TRUE, !.locals = {}]
      with == IF dyadic THEN Argument(Argument(fresh, "y"), "x") ELSE Argument(fresh, "y")
      n == CHOOSE m \in self : TRUE
      forgot == Forget(with, n)
  IN  IF self = {} THEN with ELSE [forgot EXCEPT !.verbs = Bound(@, KeyOf(forgot, n), [form |-> "Named", n |-> n])]
BuildDefinition(body, dyadic, scope, self) ==
  LET cut == FirstAt(body, LAMBDA i : Len(body[i]) = 1 /\ IsColon(body[i][1]))
      inner == BodyScope(scope, dyadic, self)
      made(b) == IF b.items # <<>> \/ ~LabelsResolve(b.out) THEN Refusal("parse")
                 ELSE [form |-> "Explicit", left |-> dyadic, body |-> b.out, home |-> inner.current,
                       pure |-> \A i \in DOMAIN b.out : BlockIsPure(b.out[i])]
  IN  IF cut > 0 THEN Both(BuildDefinition(First(cut - 1, body), FALSE, scope, self),
                           BuildDefinition(After(cut, body), TRUE, scope, self), LAMBDA m, d : Two("Ambivalent", m, d))
      ELSE Then(CollectLines(body, inner), LAMBDA c : Then(ParseBlock(SplitItems(c.lines), inner, {}), made))

(***************************************************************************)
(* Explicit modifiers.  The operands are written into the body where its   *)
(* names stand; a body that names an argument becomes a definition, and    *)
(* any other is one sentence, chosen by what the operands settle, whose    *)
(* verb or noun the modifier is worth.                                     *)
(***************************************************************************)
BindOperand(body, heads, operand) ==
  [i \in DOMAIN body |-> [j \in DOMAIN body[i] |->
     IF body[i][j].k = "name" /\ ~IsAssignTo(body[i], j) /\ (\E h \in heads : body[i][j].name = Bare(h)) THEN operand ELSE body[i][j]]]
BLOCK_OPENERS == {"if.", "while.", "whilst.", "for.", "select.", "try."}
ScanTo(items, stop) == \* the first of the words outside any block between
  LET depth[i \in 0 .. Len(items)] ==
        IF i = 0 THEN 0
        ELSE LET w == PeekWord(After(i - 1, items))
             IN  depth[i - 1] + (CASE w \in BLOCK_OPENERS -> 1 [] w = "end." /\ depth[i - 1] > 0 -> -1 [] OTHER -> 0)
  IN  FirstAt(items, LAMBDA i : depth[i - 1] = 0 /\ PeekWord(After(i - 1, items)) \in stop)
DerivationFragment(ws, scope) == ReduceToFragment(SubstituteNames(ws, scope), scope)
IsTrue(a) == IF a.type = "box" THEN Refusal("domain") ELSE [holds |-> Count(a) = 0 \/ a.data[1] # 0]
RECURSIVE DerivationBlock(_, _), DerivationIf(_, _, _)
Chosen1(sentences, rest) == [sentences |-> sentences, rest |-> rest]
DerivationCondition(items, scope) ==
  Then(DerivationBlock(items, scope), LAMBDA b :
    IF b.sentences = <<>> THEN [holds |-> TRUE]
    ELSE Then(DerivationFragment(b.sentences[Len(b.sentences)], scope), LAMBDA f :
           IF f = NoFragment THEN Refusal("parse")
           ELSE IF Refused(NounValue(f)) THEN Refusal("notyet") ELSE IsTrue(NounValue(f))))
DerivationBlock(items, scope) ==
  LET more(b) == Then(DerivationBlock(b.rest, scope), LAMBDA r : [r EXCEPT !.sentences = b.sentences \o @])
  IN  IF items = <<>> THEN Chosen1(<<>>, <<>>)
      ELSE IF ~IsWord(items[1]) THEN more(Chosen1(<<items[1].sentence>>, Tail(items)))
      ELSE IF items[1].word = "if." THEN Then(DerivationIf(Tail(items), FALSE, scope), more) ELSE Refusal("notyet")
DerivationIf(items, taken, scope) ==
  LET do == ScanTo(items, {"do."})
      body == After(do, items)
      stop == ScanTo(body, {"elseif.", "else.", "end."})
      rest == After(stop, body)
      end == ScanTo(rest, {"end."})
      last == PeekWord(After(stop - 1, body))
      held == IF taken THEN [holds |-> FALSE] ELSE DerivationCondition(First(do - 1, items), scope)
      run(block, wanted) == IF wanted THEN DerivationBlock(block, scope) ELSE Chosen1(<<>>, <<>>)
  IN  IF do = 0 THEN Refusal("parse")
      ELSE Then(held, LAMBDA h :
        IF stop = 0 THEN Refusal("parse")
        ELSE Then(run(First(stop - 1, body), h.holds), LAMBDA b :
          CASE last = "elseif." ->
                 Then(DerivationIf(rest, taken \/ h.holds, scope), LAMBDA r : [r EXCEPT !.sentences = b.sentences \o @])
            [] last = "else." ->
                 IF end = 0 THEN Refusal("parse")
                 ELSE Then(run(First(end - 1, rest), ~(taken \/ h.holds)), LAMBDA c :
                        Chosen1(b.sentences \o c.sentences, After(end, rest)))
            [] OTHER -> Chosen1(b.sentences, rest)))
DERIVATION_LIMIT == 16
DeriveExplicit(src, u, v, scope) ==
  LET operandsIn == BindOperand(src.lines, {"u"} \cup (IF IsRealVerb(u) THEN {} ELSE {"m"}), u)
      body == IF v = Mark THEN operandsIn ELSE BindOperand(operandsIn, {"v"} \cup (IF IsRealVerb(v) THEN {} ELSE {"n"}), v)
      deeper == [scope EXCEPT !.deriving = Append(@, src)]
      of(n) == <<n[1], IF n[2] = "" THEN "base" ELSE n[2]>>
      known == [deeper EXCEPT !.verbs = Restrict(@, DOMAIN @ \ {of(n) : n \in src.self}), !.nouns = @ \ {of(n) : n \in src.self},
                  !.consts = Restrict(@, DOMAIN @ \ {of(n) : n \in src.self}), !.mods = [k \in {of(n) : n \in src.self} |-> ModFrag(src)] @@ @]
      produced(f) == IF f = NoFragment THEN Refusal("parse") ELSE IF IsRealVerb(f) \/ IsNoun(f) THEN f ELSE Refusal("notyet")
  IN  IF src.deferred /\ src \in Range(scope.deriving) THEN Refusal("notyet")
      ELSE IF Len(scope.deriving) >= DERIVATION_LIMIT THEN Refusal("domain")
      ELSE IF src.deferred THEN Then(BuildDefinition(body, src.dyadic, known, {}), LAMBDA w : VerbFrag(w))
      ELSE Then(CollectLines(body, known), LAMBDA c :
             Then(DerivationBlock(SplitItems(c.lines), known), LAMBDA b :
               IF Len(b.sentences) # 1 THEN Refusal("notyet")
               ELSE Then(DerivationFragment(b.sentences[1], known), produced)))

(***************************************************************************)
(* 13 : a verb that names neither x nor y, in place of a sentence that     *)
(* does.  What it cannot translate stays a definition.                     *)
(***************************************************************************)
NoTacit        == [tacit |-> "none"]
TacitConst(a)  == [tacit |-> "const", a |-> a]
TacitVerb(v)   == [tacit |-> "verb", v |-> v]
ReadsX == Bare("x")
ReadsY == Bare("y")
RECURSIVE ReadsArgs(_)
ReadsArgs(e) == IF e.e = "name" THEN e.name \in {ReadsX, ReadsY} ELSE \E i \in DOMAIN Operands(e) : ReadsArgs(Operands(e)[i])
COMMUTATIVE == {"+", "*", "<.", ">.", "=", "~:", "+.", "*.", "+:", "*:", "-:"}
CONVERSE == [w \in {"<", ">", "<:", ">:"} |-> CASE w = "<" -> ">" [] w = ">" -> "<" [] w = "<:" -> ">:" [] OTHER -> "<:"]
FlipAny(f) == \* mutant of Flip: minus is taken for commutative
  IF f.form = "Prim" /\ f.name \in COMMUTATIVE \cup {"-"} THEN f ELSE One("Commute", f)
Flip(f) ==
  IF f.form = "Prim" /\ f.name \in COMMUTATIVE THEN f
  ELSE IF f.form = "Prim" /\ f.name \in DOMAIN CONVERSE THEN Named(CONVERSE[f.name]) ELSE One("Commute", f)
IsPrim(v, word) == v.form = "Prim" /\ v.name = word
IsTrain(v) == VerbAr(v).ar = "train"
JoinTacit(l, f, r, dyadic) ==
  LET made(v) == TacitVerb(v)
      u == l.v v == r.v
  IN  IF l.tacit = "const" THEN (IF r.tacit = "const" THEN NoTacit ELSE made(NounFork(l.a, f, r.v)))
      ELSE IF r.tacit = "const" THEN made(NounFork(r.a, Flip(f), u))
      ELSE IF IsPrim(u, "[") /\ IsPrim(v, "]") THEN made(f)
      ELSE IF IsPrim(u, "]") /\ IsPrim(v, "[") THEN made(Flip(f))
      ELSE IF ~dyadic /\ IsPrim(u, "]") /\ IsPrim(v, "]") THEN made(One("Commute", f))
      ELSE IF IsTrain(u) /\ ~IsTrain(v) THEN made(Fork(v, Flip(f), u)) ELSE made(Fork(u, f, v))
RECURSIVE TranslateTacit(_, _)
TranslateTacit(e, dyadic) ==
  IF ~ReadsArgs(e) THEN (IF Refused(NounValue(NounFrag(e))) THEN NoTacit ELSE TacitConst(NounValue(NounFrag(e))))
  ELSE CASE e.e = "name" -> TacitVerb(Named(IF e.name = ReadsY THEN "]" ELSE "["))
         [] e.e = "assign" -> TranslateTacit(e.value, dyadic)
         [] e.e = "monad" ->
              LET v == TranslateTacit(e.y, dyadic)
              IN  IF v.tacit # "verb" THEN NoTacit
                  ELSE TacitVerb(IF ~dyadic /\ IsPrim(v.v, "]") THEN e.v ELSE AtopCap(e.v, v.v))
         [] e.e = "dyad" ->
              LET l == TranslateTacit(e.x, dyadic) r == TranslateTacit(e.y, dyadic)
              IN  IF "none" \in {l.tacit, r.tacit} THEN NoTacit ELSE JoinTacit(l, e.v, r, dyadic)
         [] OTHER -> NoTacit
ConstantOf(a) ==
  IF Rank(a) = 0 /\ a.type = "int" /\ Abs(a.data[1]) <= 9 THEN ConstantVerb(a) ELSE Ranked(Constant(a), Same3(Inf))
TacitDefinition(body, scope) ==
  LET dyadic == Mentions(body, {"x"})
      clear(sc, head) == LET k == <<head, "base">>
        IN  [sc EXCEPT !.nouns = @ \cup {k}, !.verbs = Unbound(@, k), !.mods = Unbound(@, k), !.consts = Unbound(@, k)]
      inner == clear(clear(scope, "x"), "y")
      words == SubstituteNames(body[1], inner)
      placed == [i \in DOMAIN words |->
        IF words[i].k # "name" THEN words[i]
        ELSE LET k == <<words[i].name[1], IF words[i].name[2] = "" THEN "base" ELSE words[i].name[2]>>
             IN  IF k \in DOMAIN inner.consts THEN Quoted(inner.consts[k]) ELSE words[i]]
      read == ReduceToFragment(placed, inner)
      tacit == IF Len(body) # 1 THEN NoTacit
               ELSE IF Refused(read) THEN NoTacit
               ELSE IF ~IsNoun(read) THEN NoTacit ELSE TranslateTacit(NounExpr(read), dyadic)
  IN  IF \E i \in DOMAIN body : \E j \in DOMAIN body[i] : body[i][j].k = "control" THEN Refusal("parse")
      ELSE CASE tacit.tacit = "verb" -> tacit.v
             [] tacit.tacit = "const" -> ConstantOf(tacit.a)
             [] OTHER -> BuildDefinition(body, dyadic, scope, {})

(* A program: its lines, definitions made first, each said to the names.    *)
RECURSIVE ReadScript(_, _)
ReadScript(lines, scope) ==
  IF lines = <<>> THEN [statements |-> <<>>, scope |-> scope]
  ELSE Then(CollectDefinitions(lines, scope), LAMBDA c :
         IF \E i \in DOMAIN c.sentence : c.sentence[i].k = "control" THEN Refusal("parse")
         ELSE IF c.sentence = <<>> THEN ReadScript(c.rest, scope)
         ELSE Then(ParseSentence(c.sentence, scope), LAMBDA p :
                Then(ReadScript(c.rest, p.scope), LAMBDA r : [r EXCEPT !.statements = <<p.statement>> \o @])))
=============================================================================
