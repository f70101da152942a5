------------------------------- MODULE AplLaws -------------------------------
(***************************************************************************)
(* What APL's parser owes the language: folding operators from the left,   *)
(* then axes, then reading from the right, a text means what the grammar   *)
(* says it means, and nothing that has a meaning is turned away.           *)
(***************************************************************************)
EXTENDS JLaws, AplSentences

(***************************************************************************)
(* The grammar: every tree a row of words can be read as, over every way to *)
(* part the row.                                                           *)
(***************************************************************************)
Over(n, F(_)) == FoldLeft(LAMBDA acc, i : acc \o F(i), <<>>, [i \in 1 .. n |-> i])
Each1(s, F(_)) == SelectSeq([i \in DOMAIN s |-> F(s[i])], LAMBDA r : ~Refused(r))
Joins(s, t, F(_, _)) == Over(Len(s), LAMBDA i : Each1(t, LAMBDA b : F(s[i], b)))
Lists(s, t, F(_, _)) == Over(Len(s), LAMBDA i : [j \in DOMAIN t |-> F(s[i], t[j])])
When(holds, s) == IF holds THEN s ELSE <<>>
Bracketed1(row, opener) == Len(row) > 1 /\ LastTok(row).k = (IF opener = "lparen" THEN "rparen" ELSE "rbracket") /\ MatchOpen(row, Len(row), opener) = 1
Opening(t) == IF t.k \in {"lparen", "lbracket"} THEN 1 ELSE IF t.k \in {"rparen", "rbracket"} THEN -1 ELSE 0
Level(row) == FoldLeft(LAMBDA n, t : IF n < 0 THEN n ELSE n + Opening(t), 0, row)
Ends(row) == row # <<>> /\ LastTok(row).k \notin {"verb", "op", "gets", "semi", "lparen", "lbracket"} /\ Level(row) = 0  \* it may be a value
Stands(row) == row # <<>> /\ LastTok(row).k # "gets" /\ FirstTok(row).k \notin {"rparen", "rbracket", "gets", "semi"} /\ Level(row) = 0
Inner(row) == SubSeq(row, 2, Len(row) - 1)
RECURSIVE Tree(_)
Tree(fs) == IF Len(fs) = 1 THEN fs[1] ELSE IF Len(fs) % 2 = 0 THEN AtopAt(fs[1], Tree(Tail(fs)))
            ELSE IF fs[1].form = "Value" THEN NounFork(fs[1].n, fs[2], Tree(After(2, fs))) ELSE Fork(fs[1], fs[2], Tree(After(2, fs)))
RECURSIVE Fns(_, _, _), VerbRows(_, _, _), TineRows(_, _, _), Applicable(_, _, _), Vals(_, _), Items1(_, _), Sents(_, _)

(* Operands on the right of an operator are one word, or a pair's worth.    *)
RightOperand(op, f, row, d) ==
  LET t == FirstTok(row)
      lone == Len(row) = 1
      value == IF ~lone THEN Each1(When(Bracketed1(row, "lparen"), Sents(Inner(row), d)), Settle)
               ELSE IF IsLiteral(t) THEN <<Now(t.a)>> ELSE IF t.k = "name" THEN <<Later(NameRead(t.name))>> ELSE <<>>
  IN  CASE lone /\ IsRealVerb(t) ->
             CASE op \in {"jot", "over", "before", "dot"} -> <<Composed(op, f, t.v)>>
               [] op = "rank" -> <<AtopAt(f, t.v)>>
               [] op = "power" -> <<Two("PowerUntil", f, t.v)>>
               [] OTHER -> <<>>
        [] op = "power" -> Each1(value, LAMBDA c : Derive(c, f, "power"))
        [] op = "jot" /\ lone /\ IsLiteral(t) -> <<BondRight(f, t.a)>>
        [] op = "rank" /\ lone /\ IsLiteral(t) -> Each1(<<AplRanks(t.a)>>, LAMBDA r : Ranked(f, r.data))
        [] OTHER -> <<>>
FoldAxis(op, f, row, d) ==
  Each1(When(Bracketed1(row, "lbracket"), Sents(Inner(row), d)), LAMBDA e :
    CASE op \in {"slash", "slashbar"} -> Derive(Settle(e), One("NWise", f), "fold axis")
      [] op \in {"backslash", "backslashbar"} -> Derive(Settle(e), Scanned(f), "fold axis")
      [] OTHER -> Refusal("notyet"))
Derivations(op, fs, right, d) ==
  IF right = <<>> THEN Each1(fs, LAMBDA f : Simply(op, f))
  ELSE Over(Len(fs), LAMBDA i : RightOperand(op, fs[i], right, d) \o FoldAxis(op, fs[i], right, d))
(* Functions; `after` is whether a value stands to the left.                *)
Fns(row, after, d) ==
  LET n == Len(row)
      t == FirstTok(row)
      word == IF IsRealVerb(t) THEN <<t.v>> ELSE IF t.k = "op" /\ after THEN When(t.o \in DOMAIN AsFunction, <<AsFunction[t.o]>>) ELSE <<>>
      bound == n = 3 /\ IsLiteral(t) /\ row[2] = OpTok("jot") /\ IsRealVerb(row[3])
      outer == n = 2 /\ t = OpTok("jotdot") /\ IsRealVerb(row[2])
      trains == Each1(TineRows(Inner(row), FALSE, d), Tree)
  IN  IF ~Stands(row) THEN <<>> ELSE When(n = 1, word)
      \o When(Bracketed1(row, "lparen"), Fns(Inner(row), FALSE, d) \o When(d.trains, trains))
      \o When(bound, <<BondLeft(t.a, row[3].v)>>)
      \o When(outer, <<One("Reduce", row[2].v)>>)
      \o Over(n - 1, LAMBDA i : IF row[i + 1].k # "op" THEN <<>>
           ELSE Derivations(row[i + 1].o, Fns(First(i, row), after, d), After(i + 1, row), d))
VerbRows(row, after, d) == \* two functions or more
  IF ~Stands(row) THEN <<>> ELSE
  Over(Len(row) - 1, LAMBDA i :
    LET fs == Fns(First(i, row), after, d)
    IN  Lists(fs, Fns(After(i, row), FALSE, d), LAMBDA f, g : <<f, g>>)
        \o Lists(fs, VerbRows(After(i, row), FALSE, d), LAMBDA f, gs : <<f>> \o gs))
TineRows(row, after, d) == \* or a literal and an even row of them
  IF ~IsLiteral(FirstTok(row)) THEN VerbRows(row, after, d)
  ELSE LET even == SelectSeq(VerbRows(Tail(row), TRUE, d), LAMBDA fs : Len(fs) % 2 = 0)
       IN  [i \in DOMAIN even |-> <<ArrayOperand(FirstTok(row).a)>> \o even[i]]
(* What may be applied: a function, or one with an axis in brackets after.  *)
Applicable(row, after, d) ==
  Fns(row, after, d)
  \o Over(Len(row) - 1, LAMBDA i :
       Joins(When(Bracketed1(After(i, row), "lbracket"), Fns(First(i, row), after, d)), Sents(Inner(After(i, row)), d),
             LAMBDA f, e : IF row[i].k = "op" /\ ~(after /\ i = 1) THEN Refusal("parse") ELSE Derive(Settle(e), f, "axis")))

SlotReadings(rows, d) == \* the ways to read every slot
  FoldLeft(LAMBDA acc, row :
    LET slot == IF row = <<>> THEN <<<<>>>> ELSE LET es == Sents(row, d) IN [i \in DOMAIN es |-> <<es[i]>>]
    IN  Lists(acc, slot, LAMBDA a, e : Append(a, e)), <<<<>>>>, rows)
SlotsOf(row, d) == LET rows == Slots(Inner(row)) IN When(Bracketed1(row, "lbracket") /\ rows # <<<<>>>>, SlotReadings(rows, d))
Vals(row, d) ==
  LET t == FirstTok(row)
      word == CASE IsLiteral(t) -> <<Literal(t.a)>> [] t.k = "name" -> <<NameRead(t.name)>> [] t.k = "quad" -> <<[e |-> "input"]>> [] OTHER -> <<>>
  IN  IF ~Ends(row) THEN <<>> ELSE When(Len(row) = 1, word)
      \o When(Bracketed1(row, "lparen"), Sents(Inner(row), d))
      \o Over(Len(row) - 1, LAMBDA i : Joins(When(LastTok(row).k = "rbracket", Vals(First(i, row), d)), SlotsOf(After(i, row), d), Indexed1))
(* Values side by side, the items of the last first.                        *)
Items1(row, d) ==
  IF ~Ends(row) THEN <<>> ELSE
  LET one == Vals(row, d)
      list == Len(row) = 1 /\ FirstTok(row).k = "nums"
  IN  [i \in DOMAIN one |-> IF list THEN Pushed(one[i], row[1]) ELSE <<one[i]>>]
      \o Over(Len(row) - 1, LAMBDA i : Lists(Items1(First(i, row), d), Vals(After(i, row), d), LAMBDA s, e :
           (IF i = Len(row) - 1 THEN Pushed(e, row[i + 1]) ELSE <<e>>) \o s))
Opds(row, d) ==
  IF ~Ends(row) THEN <<>> ELSE
  Vals(row, d)
  \o Over(Len(row) - 1, LAMBDA i : Joins(Items1(First(i, row), d), Vals(After(i, row), d), LAMBDA s, e :
       StrandOf((IF i = Len(row) - 1 THEN Pushed(e, row[i + 1]) ELSE <<e>>) \o s)))
Targets(row, value, d) ==
  LET t == FirstTok(row)
      names == Inner(row)
      all == Bracketed1(row, "lparen") /\ names # <<>> /\ \A i \in DOMAIN names : names[i].k = "name"
  IN  When(Len(row) = 1 /\ t.k = "name", <<AssignE(t.name, value, FALSE)>>)
      \o When(Len(row) = 1 /\ t.k = "quad", <<PrintE(value)>>)
      \o When(all, <<AssignManyE([i \in DOMAIN names |-> names[i].name], value, FALSE)>>)
      \o When(Len(row) > 1 /\ t.k = "name", Each1(SlotsOf(Tail(row), d), LAMBDA s : AmendE(t.name, s, value)))
Assigned1(row, value, d) == \* to the whole row, or to its end and one item more of a list
  Targets(row, value, d)
  \o Over(Len(row) - 1, LAMBDA i : Joins(Items1(First(i, row), d), Targets(After(i, row), value, d), LAMBDA s, e : StrandOf(<<e>> \o s)))
Applying(row, e, d) == \* what row makes of the value e to its right
  IF ~Stands(row) THEN <<>> ELSE
  Each1(Applicable(row, FALSE, d), LAMBDA f : MonadE(f, e))
  \o Over(Len(row) - 1, LAMBDA i : Joins(Opds(First(i, row), d), Applicable(After(i, row), TRUE, d), LAMBDA x, f : DyadE(f, x, e)))
Sents(row, d) ==
  IF ~Ends(row) THEN <<>> ELSE
  Opds(row, d)
  \o Over(Len(row) - 1, LAMBDA i : LET values == Sents(After(i, row), d) IN
       Over(Len(values), LAMBDA k :
         Applying(First(i, row), values[k], d) \o When(i > 1 /\ row[i].k = "gets", Assigned1(First(i - 1, row), values[k], d))))
Says(row, d) ==
  LET names == Len(row) > 2 /\ row[1].k = "name" /\ row[2].k = "gets"
      rest == After(2, row)
      fs == IF d.trains THEN Fns(rest, FALSE, d) \o Each1(TineRows(rest, FALSE, d), Tree) ELSE When(Len(rest) = 1, Fns(rest, FALSE, d))
  IN  Sents(row, d) \o When(names, Each1(fs, LAMBDA f : VerbDefE(row[1].name, f)))

RECURSIVE ToldE(_)
ToldE(e) ==
  [part \in DOMAIN e |->
    CASE part \in {"x", "y", "value"} -> ToldE(e[part])
      [] part = "v" -> Told(e.v)
      [] part = "slots" -> [i \in DOMAIN e.slots |-> [j \in DOMAIN e.slots[i] |-> ToldE(e.slots[i][j])]]
      [] OTHER -> e[part]]
(* Left out: a function's own axis and an operator after it, a pair around  *)
(* an operator, a jot beside no function, and a list of numbers with an     *)
(* index in a longer list.                                                  *)
Regular(ts) ==
  /\ \A i \in DOMAIN ts : ts[i] = OpTok("jot") => (i > 1 /\ ts[i - 1].k = "verb") \/ FirstTok(After(i, ts)).k = "verb"
  /\ \A i \in 2 .. Len(ts) - 1 : ~(ts[i].k = "op" /\ ts[i - 1].k = "lparen" /\ ts[i + 1].k = "rparen")
  /\ \A i \in 2 .. Len(ts) : ts[i].k = "lbracket" => ts[i - 1].k \notin {"nums", "verb"}
Rules(kind) == [trains |-> kind # "plain", first |-> kind = "dyalog"]

(* A text has one meaning at most, and is read as that, and is refused only *)
(* when it has none or needs what is not implemented: operators bind to     *)
(* what is beside them before functions do, from the left, and functions    *)
(* take what is to their right, whatever is in brackets and wherever an     *)
(* operator is a function after a value (apl.rs fold_operators, fold_axes,  *)
(* parse_range).                                                            *)
AplIsGrammar ==
  [][(what \in {"apl", "plain"} /\ Regular(text)) =>
       LET d == Rules(what)
           read == ParseStatement(text, d, NoNames)
           says == Says(text, d)
       IN  /\ Len(says) <= 1
           /\ IF Refused(read) THEN read.kind = "notyet" \/ says = <<>>
              ELSE says # <<>> /\ ToldE(says[1]) = ToldE(read.e)]_reading

(***************************************************************************)
(* Names for functions.                                                    *)
(***************************************************************************)
Called == Bare("f")
Plus2 == VerbFrag(VerbFor("plus"))
Definitions == <<
  <<Plus2>>, <<Plus2, OpTok("slash")>>, <<VerbFrag(VerbFor("circle_stile")), Plus2>>,
  <<LBrace, NameFrag(AlphaName), Plus2, NameFrag(OmegaName), RBrace>>,
  <<LBrace, NameFrag(OmegaName), Colon, ValueTok(Scalar("int", 1)), Separator, NameFrag(Bare("a")), Gets, ValueTok(Scalar("int", 1)), Separator, Del, NameFrag(OmegaName), RBrace>>,
  <<LBrace, NameFrag(AlphaAlpha), NameFrag(OmegaName), RBrace>>,
  <<LBrace, NameFrag(AlphaAlpha), Plus2, NameFrag(OmegaOmega), NameFrag(OmegaName), RBrace>>>>
Calls(t) == t.k = "name" /\ t.name = Called
InFull(ts, def) == \* the text with its definition wherever the name is
  LET one == Len(def) = 1 \/ def[1] = LBrace
      said == IF one THEN def ELSE <<LParen>> \o def \o <<RParen>>
  IN  FoldLeft(LAMBDA acc, t : acc \o (IF Calls(t) THEN said ELSE <<t>>), <<>>, ts)
(* Left out: a name given a new meaning, and, where it stands for more than *)
(* a word, an operator's right operand, which is one word.                  *)
MayBeInFull(ts, def) ==
  \A i \in DOMAIN ts : Calls(ts[i]) =>
    /\ FirstTok(After(i, ts)).k # "gets"
    /\ i > 1 /\ Len(def) > 1 /\ def[1] # LBrace => ts[i - 1].k # "op"

(* A function or an operator that was given a name is read, wherever the    *)
(* name stands, as its definition in its place would be: in and out of      *)
(* braces, under operators, with an axis, as an operand (apl.rs             *)
(* substitute_verbs, fold_dfns, build_dfn).                                 *)
NameStandsForItsDefinition ==
  [][(what \in {"called", "dyalog"}) =>
       LET d == Rules(what) IN
       \A i \in DOMAIN Definitions :
         MayBeInFull(text, Definitions[i]) =>
           LET verbs == ParseStatement(<<NameFrag(Called), Gets>> \o Definitions[i], d, NoNames).verbs
               byName == ParseStatement(text, d, verbs)
               inFull == ParseStatement(InFull(text, Definitions[i]), d, NoNames)
           IN  IF Refused(byName) \/ Refused(inFull) THEN Refused(byName) /\ Refused(inFull)
               ELSE ToldE(byName.e) = ToldE(inFull.e)]_reading
=============================================================================
