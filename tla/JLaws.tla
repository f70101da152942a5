-------------------------------- MODULE JLaws --------------------------------
(***************************************************************************)
(* What J's parser owes the language: the stack it reads a sentence onto   *)
(* parses as the grammar does, what it believes of the names is what       *)
(* running the sentences leaves, a verb written back is the verb, a tacit  *)
(* translation means its body, and a body's words nest as they are opened. *)
(* What is read is a text of some kind.                                    *)
(***************************************************************************)
EXTENDS JSentences

VARIABLES what, text
reading == <<what, text>>

(***************************************************************************)
(* The grammar.  A bracketed group is one fragment; an assignment is its   *)
(* value; a phrase is a word and the modifiers after it, bound from the    *)
(* left; verbs apply to what stands to their right, from the right; and    *)
(* verbs with nothing to apply to are a train.                             *)
(***************************************************************************)
LastAt(ws, P(_)) == LET hits == {i \in DOMAIN ws : P(i)} IN IF hits = {} THEN 0 ELSE Max(hits)
RECURSIVE Meaning(_, _), Phrase(_, _, _), Phrases(_, _), Applied(_, _), Trained(_, _)
Phrase(u, rest, scope) ==
  LET word(f) == AsTrainPart(f, scope)
      right == IF IsConj(rest[1]) /\ rest[1] = ConjFrag("\"") THEN rest[2] ELSE word(rest[2])
  IN  IF rest # <<>> /\ Is(rest, 1, IsAdverb)
      THEN Then(Modified(word(u), rest[1], scope), LAMBDA f : Phrase(f, Tail(rest), scope))
      ELSE IF Is(rest, 1, IsConj) /\ Is(rest, 2, VerbOrNoun)
      THEN Then(Conjoined(word(u), rest[1], right, scope), LAMBDA f : Phrase(f, After(2, rest), scope))
      ELSE [item |-> u, rest |-> rest]
Phrases(ws, scope) ==
  IF ws = <<>> THEN [items |-> <<>>]
  ELSE Then(IF VerbOrNoun(ws[1]) THEN Phrase(ws[1], Tail(ws), scope) ELSE [item |-> ws[1], rest |-> Tail(ws)], LAMBDA p :
         Then(Phrases(p.rest, scope), LAMBDA more : [items |-> <<p.item>> \o more.items]))
Applied(items, y) ==
  LET n == Len(items)
  IN  IF n = 0 THEN y
      ELSE IF ~IsRealVerb(items[n]) THEN Refusal("parse")
      ELSE IF n > 1 /\ Is(items, n - 1, IsNoun)
      THEN Then(DyadFrag(items[n - 1], items[n], y), LAMBDA r : Applied(First(n - 2, items), r))
      ELSE IF n = 1 \/ Is(items, n - 1, IsVerb)
      THEN Then(MonadFrag(items[n], y), LAMBDA r : Applied(First(n - 1, items), r)) ELSE Refusal("parse")
Trained(items, scope) ==
  LET n == Len(items)
  IN  IF n = 1 THEN items[1]
      ELSE IF n = 2 THEN (IF \A i \in 1 .. 2 : IsCavn(items[i]) THEN Bident(items[1], items[2], scope) ELSE Refusal("parse"))
      ELSE IF IsRealVerb(items[n]) /\ IsRealVerb(items[n - 1]) /\ AnyVerbOrNoun(items[n - 2])
      THEN Then(ForkOf(items[n - 2], items[n - 1], items[n], scope), LAMBDA f : Trained(Append(First(n - 3, items), f), scope))
      ELSE Refusal("parse")
Meaning(ws, scope) ==
  LET open   == LastAt(ws, LAMBDA i : IsLeft(ws[i]))
      inside == After(open, ws)
      close  == FirstAt(inside, LAMBDA i : IsRight(inside[i]))
      gets   == LastAt(ws, LAMBDA i : IsAssign(ws[i]))
      group(f) == IF IsCavn(f) THEN Meaning(First(open - 1, ws) \o <<f>> \o After(close, inside), scope) ELSE Refusal("parse")
      given1(f) == IF ~IsCavn(f) \/ ~IsNoun(ws[gets - 1]) THEN Refusal("parse")
                   ELSE Then(ApplyAssign(ws[gets - 1], f, ws[gets].k = "global"), LAMBDA a :
                          IF IsNoun(a) THEN Meaning(Append(First(gets - 2, ws), a), scope)
                          ELSE IF gets = 2 THEN a ELSE Refusal("notyet"))
      last(items) == LET n == Len(items) verbs == [i \in 1 .. n |-> AsTrainPart(items[i], scope)]
                     IN  IF n = 1 THEN items[1]
                         ELSE IF IsNoun(verbs[n]) THEN Applied(First(n - 1, items), items[n]) ELSE Trained(verbs, scope)
  IN  IF open > 0 THEN (IF close < 2 THEN Refusal("parse") ELSE Then(Meaning(First(close - 1, inside), scope), group))
      ELSE IF ws = <<>> \/ \E i \in DOMAIN ws : IsRight(ws[i]) THEN Refusal("parse")
      ELSE IF gets > 0 THEN (IF gets \in {1, Len(ws)} THEN Refusal("parse") ELSE Then(Meaning(After(gets, ws), scope), given1))
      ELSE Then(Phrases(ws, scope), LAMBDA p : last(p.items))

Understood(f) == ~Refused(f) /\ f.k \in {"noun", "name", "verb", "cap", "adverb", "conj", "verbdef", "moddef"}
ScopeOf(ws) == [BaseScope EXCEPT !.assigned = NamesThisSentenceAssigns(ws)]
(* An unknown name that something stands before and a value after is left   *)
(* out: read as a verb it is only ever an error.                            *)
Nouns(ws) == \E i \in DOMAIN ws : i > 1 /\ i < Len(ws) /\ ws[i].k = "name" /\ ~IsAssign(ws[i + 1])

(* A sentence reads the same off the stack, a word at a time and four       *)
(* places deep, as it does by the grammar's whole phrases: no rule fires    *)
(* before what stands to its left could have claimed its operands           *)
(* (j.rs match_rule, apply).                                                *)
ParseIsGrammar ==
  [][(what = "sentence" /\ ~Nouns(text)) =>
       LET scope == ScopeOf(text) f == ReduceToFragment(text, scope) g == Meaning(text, scope)
       IN  (Understood(f) \/ Understood(g)) => f = g]_reading

(***************************************************************************)
(* Running a script of sentences, each name holding what it was last given.*)
(***************************************************************************)
Held1(class, value) == [class |-> class, value |-> value]
State(store, current, value) == [store |-> store, current |-> current, value |-> value]
Placed(st, n) == <<n[1], IF n[2] = "" THEN st.current ELSE n[2]>>
Reads1(st, n) ==
  LET keys == SelectSeq(<<Placed(st, n), <<n[1], "z">>>>, LAMBDA k : k \in DOMAIN st.store)
  IN  IF keys = <<>> THEN Refusal("value")
      ELSE IF st.store[keys[1]].class # "noun" THEN Refusal("notyet") ELSE st.store[keys[1]].value
Gives(st, n, class, value) == [st EXCEPT !.store = Bound(@, Placed(st, n), Held1(class, value))]
RECURSIVE Obeys(_, _)
Obeys(e, st) ==
  CASE e.e = "const" -> [st EXCEPT !.value = e.a]
    [] e.e = "name" -> Then(Reads1(st, e.name), LAMBDA a : [st EXCEPT !.value = a])
    [] e.e = "assign" -> Then(Obeys(e.value, st), LAMBDA r : Gives(r, e.name, "noun", r.value))
    [] e.e = "assign_many" -> Then(Obeys(e.value, st), LAMBDA r :
         IF Rank(r.value) # 0 THEN Refusal("length")
         ELSE FoldLeft(LAMBDA acc, n : Gives(acc, n, "noun", r.value), r, e.names))
    [] e.e = "verbdef" -> Gives(st, e.name, "verb", e.v)
    [] e.e = "moddef" -> Gives(st, e.name, "mod", e.m)
    [] e.e = "monad" -> Then(Obeys(e.y, st), LAMBDA r :
         IF e.v.form # "Prim" THEN Refusal("notyet")
         ELSE IF e.v.monad = "CoCurrent" THEN [r EXCEPT !.current = r.value.data[1][1]]
         ELSE Then(ScalarMonad(e.v.monad, r.value), LAMBDA a : [r EXCEPT !.value = a]))
    [] e.e = "dyad" -> Then(Obeys(e.y, st), LAMBDA r : Then(Obeys(e.x, r), LAMBDA l :
         IF e.v.form # "Prim" THEN Refusal("notyet") ELSE Then(ScalarDyad(ScalarOf(e.v), FALSE, l.value, r.value), LAMBDA a : [l EXCEPT !.value = a])))
    [] OTHER -> st
RunScript(statements) ==
  FoldLeft(LAMBDA st, s : IF Refused(st) THEN st ELSE Obeys(s, st),
           State([k \in DOMAIN BaseScope.verbs |-> Held1("verb", BaseScope.verbs[k])], "base", Scalar("int", 0)), statements)

(* What the parser believes of every name, its part of speech and the       *)
(* value it takes for settled, is what running the sentences leaves there,  *)
(* through reassignment, locales and assignments inside sentences           *)
(* (j.rs Names::record, forget).                                            *)
NamesAsRun ==
  [][what = "script" =>
       LET read == ReadScript(text, BaseScope)
           run == RunScript(read.statements)
           believed == read.scope
       IN  (~Refused(read) /\ ~Refused(run)) =>
             /\ believed.current = run.current
             /\ DOMAIN run.store = DOMAIN believed.verbs \cup DOMAIN believed.mods \cup believed.nouns
             /\ \A k \in DOMAIN run.store :
                  LET held == run.store[k]
                  IN  /\ held.class = "verb" <=> k \in DOMAIN believed.verbs
                      /\ held.class = "mod" <=> k \in DOMAIN believed.mods
                      /\ held.class = "noun" <=> k \in believed.nouns
                      /\ k \in DOMAIN believed.verbs => held.value = believed.verbs[k]
                      /\ k \in DOMAIN believed.consts => held.class = "noun" /\ held.value = believed.consts[k]]_reading

(***************************************************************************)
(* A verb written back.                                                    *)
(***************************************************************************)
RECURSIVE Spellable(_)
Spellable(ar) == \* not one of the forms the spelling loses
  LET right == ar.ops[Len(ar.ops)]
  IN  CASE ar.ar = "noun" -> ~(Rank(ar.a) = 1 /\ Count(ar.a) = 1) /\ ~(IsGerund(ar.a) /\ Count(ar.a) = 1)
        [] ar.ar = "derived" -> /\ \A i \in DOMAIN ar.ops : Spellable(ar.ops[i])
                                /\ right.ar = "noun" => ~IsGerund(right.a)
        [] ar.ar = "prim" -> ar.word = "[:" \/ Known(Named(ar.word))
        [] ar.ar = "train" -> /\ \A i \in DOMAIN ar.ops : Spellable(ar.ops[i])
        [] OTHER -> ar.ar # "direct"

(* A verb, a rank that is its own anyway left out.                          *)
RECURSIVE Told(_)
Told(v) ==
  IF v.form = "Rank" /\ v.n = VerbRanks(v.f) THEN Told(v.f)
  ELSE [part \in DOMAIN v |->
    CASE part \in {"f", "g", "h"} -> Told(v[part])
      [] part = "vs" -> [i \in DOMAIN v.vs |-> Told(v.vs[i])]
      [] part = "n" -> IF v.form = "PowerN" THEN <<v.form, v.n.by, v.n.n>> ELSE <<v.form, v.n>>
      [] OTHER -> v[part]]
(* Nor one of the verbs a representation takes for another: a bond under a  *)
(* rank, and anything under opening, which is each.                         *)
RECURSIVE Lossless(_)
Lossless(v) ==
  LET opens(g) == Told(g) = Named(">")
  IN  /\ v.form = "Rank" => v.f.form \notin {"BondLeft", "BondRight"}
      /\ v.form = "Atop" => v.g.form # "Compose" \/ ~opens(v.g.g)
      /\ \A p \in DOMAIN v \cap {"f", "g", "h"} : Lossless(v[p])
      /\ "vs" \in DOMAIN v => \A i \in DOMAIN v.vs : Lossless(v.vs[i])
ReadsAs(f, v) == ~Refused(f) /\ f.k = "verb" /\ Told(f.v) = Told(v)

(* A verb turned into its representation and back, or written out in words  *)
(* that are then read, is the same verb: brackets, rows of tines, ranks and *)
(* numbers side by side included (gerund.rs, j.rs ar_frag).                 *)
RepresentationComesBack ==
  [][what = "sentence" =>
       LET f == ReduceToFragment(text, BaseScope)
           words == AsText(Linear(f.v).words)
       IN  (Understood(f) /\ IsRealVerb(f) /\ VerbAr(f.v).ar # "none" /\ Lossless(f.v) /\ Spellable(VerbAr(f.v))) =>
             /\ ReadsAs(ArFrag(VerbAr(f.v), BaseScope), f.v)
             /\ Linear(f.v).shape # "none" => ReadsAs(ReduceToFragment(words, BaseScope), f.v)]_reading

(***************************************************************************)
(* A body of x and y, and the verb in its place.                           *)
(***************************************************************************)
TacitMeans(M(_, _), D(_, _, _)) ==
  what = "tacit" =>
    LET RECURSIVE Worth(_)
        Worth(e) ==
          CASE e.e = "const" -> e.a
            [] e.e = "name" -> IF e.name = ReadsX THEN alpha ELSE omega
            [] e.e = "monad" -> Then(Worth(e.y), LAMBDA a : M(e.v, a))
            [] e.e = "dyad" -> Both(Worth(e.x), Worth(e.y), LAMBDA a, b : D(e.v, a, b))
        v == TacitDefinition(<<text>>, BaseScope)
        read == ReduceToFragment(text, [BaseScope EXCEPT !.nouns = {<<"x", "base">>, <<"y", "base">>}])
        dyadic == Mentions(<<text>>, {"x"})
        said == IF dyadic THEN D(v, alpha, omega) ELSE M(v, omega)
        worth == Worth(NounExpr(read))
    IN  (~Refused(v) /\ Understood(read) /\ IsNoun(read)) =>
          (v.form # "Explicit" => (Refused(said) /\ Refused(worth)) \/ (~Refused(said) /\ ~Refused(worth) /\ said = worth))

(* The verb 13 : makes of a body computes what the body does: arguments in  *)
(* the order their verb takes them, constants where they stand, one         *)
(* argument or two (j.rs translate, join_tacit, flip).                      *)
TacitMeansItsBody == [][TacitMeans(Monad, Dyad)]_reading

(***************************************************************************)
(* The control words of a body.                                            *)
(***************************************************************************)
CW(w) == [word |-> w, suffix |-> ""]
IsCW(item, w) == IsWord(item) /\ item = CW(w)
Simple1(item) == ~IsWord(item) \/ item.word \in {"return.", "break.", "continue.", "throw.", "goto.", "label."}
Shape(items) == \* the words that are not sentences, runs of sentences counted
  FoldLeft(LAMBDA acc, it :
    IF Simple1(it) THEN [acc EXCEPT ![Len(acc)].n = @ + 1] ELSE Append(acc, [word |-> it.word, n |-> 0]),
    <<[word |-> "", n |-> 0]>>, items)
Follows(shape, i) == \* a word's successors in its structure
  LET w == shape[i].word opener == shape[2].word n == shape[i].n
      next == IF i = Len(shape) THEN "" ELSE shape[i + 1].word
  IN  CASE w \in {"if.", "elseif.", "while.", "whilst.", "case.", "fcase."} -> next = "do."
        [] w = "for." -> next = "do." /\ n = 1
        [] w = "select." -> next \in {"case.", "fcase.", "end."} /\ n = 1
        [] w \in {"try.", "catch.", "catcht."} -> next \in {"catch.", "catcht.", "end."}
        [] w = "do." -> next \in (CASE opener = "if." -> IF shape[i - 1].word = "else." THEN {} ELSE {"elseif.", "else.", "end."}
                                    [] opener = "select." -> {"case.", "fcase.", "end."} [] OTHER -> {"end."})
        [] w = "else." -> next = "end."
        [] w = "end." -> i = Len(shape)
        [] OTHER -> FALSE
WellMade(items) == LET shape == Shape(items) IN shape[1].n = 0 /\ \A i \in 2 .. Len(shape) : Follows(shape, i)
(* The first word that ends a structure ends the last one opened.           *)
RECURSIVE Nests(_)
Nests(items) ==
  LET end == FirstAt(items, LAMBDA i : IsCW(items[i], "end."))
      open == LastAt(First(end, items), LAMBDA i : PeekWord(<<items[i]>>) \in BLOCK_OPENERS)
  IN  IF end = 0 THEN \A i \in DOMAIN items : Simple1(items[i])
      ELSE IF open = 0 THEN FALSE
      ELSE /\ WellMade(SubSeq(items, open, end))
           /\ Nests(First(open - 1, items) \o <<Sentence(<<>>)>> \o After(end, items))
RECURSIVE WrittenBack(_)
WrittenBack(block) ==
  LET all(bs) == [i \in DOMAIN bs |-> WrittenBack(bs[i])]
      row(parts) == FoldLeft(LAMBDA acc, p : acc \o p, <<>>, parts)
      tested(first, bs) == row([i \in 1 .. (Len(bs) \div 2) |->
        <<CW(IF i = 1 THEN first ELSE "elseif.")>> \o bs[2 * i - 1] \o <<CW("do.")>> \o bs[2 * i]])
      cased(bs) == row([i \in 1 .. (Len(bs) \div 3) |-> bs[3 * i - 2] \o bs[3 * i - 1] \o <<CW("do.")>> \o bs[3 * i]])
      optional(w, b) == IF b = <<>> THEN <<>> ELSE <<CW(w)>> \o b
      of(e) == LET bs == all(e.blocks) n == Len(bs) IN
        CASE e.c = "if" -> tested("if.", bs) \o (IF n % 2 = 1 THEN <<CW("else.")>> \o bs[n] ELSE <<>>) \o <<CW("end.")>>
          [] e.c \in {"while.", "whilst."} -> tested(e.c, bs) \o <<CW("end.")>>
          [] e.c = "for" -> <<CW("for.")>> \o bs[1] \o <<CW("do.")>> \o bs[2] \o <<CW("end.")>>
          [] e.c = "select" -> <<CW("select.")>> \o bs[1] \o cased(Tail(bs)) \o <<CW("end.")>>
          [] e.c = "try" -> <<CW("try.")>> \o bs[1] \o optional("catch.", bs[2]) \o optional("catcht.", bs[3]) \o <<CW("end.")>>
          [] OTHER -> <<[word |-> e.c, suffix |-> e.to]>>
  IN  row([i \in DOMAIN block |-> IF block[i].e = "control" THEN of(block[i]) ELSE <<Sentence(<<Quoted(block[i].a)>>)>>])
WordsOf(block) == WrittenBack(block)
Times(items, w) == Cardinality({i \in DOMAIN items : IsCW(items[i], w)})
(* Both kinds of catch once, in the order they are written back, holding    *)
(* something.                                                               *)
PlainCatches(items) == /\ Times(items, "catch.") <= 1 /\ Times(items, "catcht.") <= 1
                       /\ \A i \in 1 .. (Len(items) - 1) : PeekWord(<<items[i]>>) \in {"catch.", "catcht."} => Simple1(items[i + 1])
                       /\ \A i, j \in DOMAIN items : IsCW(items[i], "catch.") /\ IsCW(items[j], "catcht.") => i < j

(* A body is taken exactly when its control words nest, and the tree it     *)
(* becomes holds its sentences under the words they stood under: written    *)
(* back, it is the body (j.rs parse_block, parse_control).                  *)
BodiesKeepTheirWords ==
  [][what = "body" =>
       LET read == ParseBlock(text, BaseScope, {})
           taken == ~Refused(read) /\ read.items = <<>>
       IN  /\ taken <=> Nests(text)
           /\ (taken /\ PlainCatches(text)) => WordsOf(read.out) = text]_reading
=============================================================================
