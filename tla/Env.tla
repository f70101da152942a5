--------------------------------- MODULE Env ---------------------------------
(***************************************************************************)
(* The names a running J program can reach: struct Env of src/crates/      *)
(* libjay/src/verb.rs with the sentences of ir.rs and the locale foreigns  *)
(* that drive it.  The call stack is Frames, used here as it stands; this  *)
(* module adds the locales, the tables of verbs and modifiers, and what    *)
(* call_explicit keeps on the machine stack across a call.                 *)
(*                                                                         *)
(* A locale whose name is all digits is one of Numeral's; `handed` is a    *)
(* history variable: the numerals 18!:3 has handed out so far.             *)
(***************************************************************************)
EXTENDS Integers, Sequences, FiniteSets

CONSTANTS Names, Values, NoValue, Defs, Enclosing, RECURSION_LIMIT, MAX_KEPT_SLOTS,
          LocNames,   \* every name of a locale
          BASE_LOCALE, Z_LOCALE,
          Numeral,    \* the locale name each number is written as
          Bare,       \* the locale part of a name that is no locative
          Spellings,  \* the spellings the program writes, [head, loc] records
          Home,       \* the locale each definition's name puts it in, or Bare
          Paths,      \* the search paths the program sets
          NoLocale    \* a locale that does not exist

ASSUME EnvAssumption ==
  /\ {BASE_LOCALE, Z_LOCALE} \subseteq LocNames
  /\ Numeral \in [DOMAIN Numeral -> LocNames \ {BASE_LOCALE, Z_LOCALE}]
  /\ DOMAIN Numeral = 0 .. Cardinality(DOMAIN Numeral) - 1
  /\ \A i, j \in DOMAIN Numeral : Numeral[i] = Numeral[j] => i = j
  /\ Bare \notin LocNames
  /\ Spellings \subseteq [head : Names, loc : LocNames \cup {Bare}]
  /\ Home \in [Defs -> LocNames \cup {Bare}]
  /\ Paths \subseteq Seq(LocNames)

VARIABLES frames, running, depth, bodies, seen,
          locales,        \* Env.locales
          current,        \* Env.current
          next_numbered,  \* Env.next_numbered
          verbs,          \* the keys of Env.verbs
          mods,           \* Env.mods: a conjunction, an adverb, or neither
          saved,          \* per running call, what enter_locale handed back
          handed

F == INSTANCE Frames

ASSUME CallsAssumption == F!FramesAssumption

callVars == <<frames, running, depth, bodies, seen>>
nameVars == <<verbs, mods>>
vars == <<callVars, locales, current, next_numbered, nameVars, saved, handed>>

Digits == {Numeral[i] : i \in DOMAIN Numeral}
Maybe  == Values \cup {NoValue}
Locale == [values : [Names -> Maybe], path : Seq(LocNames), numbered : BOOLEAN]
Classes == {"none", "adverb", "conjunction"}

ASSUME NoLocaleAssumption == NoLocale \notin Locale

TypeOK ==
  /\ F!TypeOK
  /\ locales \in [LocNames -> Locale \cup {NoLocale}]
  /\ current \in LocNames
  /\ next_numbered \in Nat
  /\ verbs \subseteq Spellings
  /\ mods \in [Spellings -> Classes]
  /\ saved \in Seq([outer : LocNames, moved : BOOLEAN])
  /\ handed \subseteq Digits
-----------------------------------------------------------------------------
(* Locales. *)
Exists(l) == locales[l] # NoLocale

NewLocale(numbered) ==
  [values |-> [n \in Names |-> NoValue], path |-> <<Z_LOCALE>>, numbered |-> numbered]

(* Env::ensure_locale. *)
Ensure(locs, l) ==
  IF locs[l] = NoLocale THEN [locs EXCEPT ![l] = NewLocale(FALSE)] ELSE locs

(* ensure_locale and an insert: set_in_locale, set_global, assign's tail. *)
Write(locs, l, n, v) == [Ensure(locs, l) EXCEPT ![l].values[n] = v]

(* Env::in_locale: the locale's own names, then one step down its path. *)
Holding(l, n) ==
  {i \in DOMAIN locales[l].path :
      LET m == locales[l].path[i]
      IN  Exists(m) /\ locales[m].values[n] # NoValue}

InLocale(l, n) ==
  IF ~Exists(l) THEN NoValue
  ELSE IF locales[l].values[n] # NoValue \/ Holding(l, n) = {}
       THEN locales[l].values[n]
       ELSE LET first == CHOOSE i \in Holding(l, n) : \A j \in Holding(l, n) : i <= j
            IN  locales[locales[l].path[first]].values[n]
-----------------------------------------------------------------------------
(* Names.  A locative is never a local (split_locative). *)
IsLocal(s) == s.loc = Bare
Place(s)   == IF IsLocal(s) THEN current ELSE s.loc

(* Env::get. *)
Get(s) ==
  IF IsLocal(s) /\ F!LocalGet(s.head) # NoValue
  THEN F!LocalGet(s.head)
  ELSE InLocale(Place(s), s.head)

(* Env::missing_numbered. *)
MissingNumbered(s) == ~IsLocal(s) /\ s.loc \in Digits /\ ~Exists(s.loc)

(* Env::names_of_class.  The values come from the current locale's table;  *)
(* the verbs and the modifiers are filtered by locale_of, which takes the  *)
(* locale a spelling names and otherwise the current one.                  *)
NamesOfClass(c) ==
  IF c = "noun"
  THEN IF Exists(current) THEN {n \in Names : locales[current].values[n] # NoValue} ELSE {}
  ELSE {s.head : s \in {t \in Spellings : /\ Place(t) = current
                                          /\ IF c = "verb" THEN t \in verbs ELSE mods[t] = c}}
-----------------------------------------------------------------------------
Init ==
  /\ F!Init
  /\ locales = [l \in LocNames |->
                  IF l = BASE_LOCALE THEN NewLocale(FALSE)
                  ELSE IF l = Z_LOCALE THEN [NewLocale(FALSE) EXCEPT !.path = <<>>]
                  ELSE NoLocale]
  /\ current = BASE_LOCALE
  /\ next_numbered = 0
  /\ verbs = {}
  /\ mods = [s \in Spellings |-> "none"]
  /\ saved = <<>>
  /\ handed = {}
-----------------------------------------------------------------------------
(* call_explicit up to its body.  enter_locale moves to the definition's   *)
(* home when it has one that is not already current; `moved` is whether    *)
(* the Arc in `current` is another than the one handed back, which is what *)
(* leave_locale's ptr_eq asks.                                             *)
Call(d, b) ==
  /\ F!Enter(d, b)
  /\ LET moves == Home[d] # Bare /\ Home[d] # current
     IN  /\ saved' = Append(saved, [outer |-> current, moved |-> moves])
         /\ locales' = IF moves THEN Ensure(locales, Home[d]) ELSE locales
         /\ current' = IF moves THEN Home[d] ELSE current
  /\ UNCHANGED <<next_numbered, nameVars, handed>>

(* The rest of call_explicit, whatever the body came to: leave, then       *)
(* leave_locale.                                                           *)
ReturnIgnoringCocurrent == \* mutant of Return: only a home is undone
  /\ F!Leave
  /\ LET s == saved[Len(saved)]
     IN  current' = IF Home[running[depth]] # Bare THEN s.outer ELSE current
  /\ saved' = SubSeq(saved, 1, Len(saved) - 1)
  /\ UNCHANGED <<locales, next_numbered, nameVars, handed>>

Return ==
  /\ F!Leave
  /\ LET s == saved[Len(saved)]
     IN  /\ locales' = IF s.moved THEN Ensure(locales, s.outer) ELSE locales
         /\ current' = IF s.moved THEN s.outer ELSE current
  /\ saved' = SubSeq(saved, 1, Len(saved) - 1)
  /\ UNCHANGED <<next_numbered, nameVars, handed>>

(* Env::assign, without the test of the default scope. *)
Assign(s, v, local) ==
  IF local /\ IsLocal(s) /\ depth > 0
  THEN F!Insert([n \in {s.head} |-> v]) /\ UNCHANGED locales
  ELSE locales' = Write(locales, Place(s), s.head, v) /\ UNCHANGED callVars

(* ir.rs assign_one, of a name that is no indirect locative.  A locative   *)
(* of a numbered locale nobody handed out is refused.                      *)
AssignOne(s, v, scope) ==
  /\ ~MissingNumbered(s)
  /\ IF scope = "default" /\ Get(s) # NoValue
     THEN UNCHANGED <<callVars, locales>>
     ELSE Assign(s, v, scope # "global")
  /\ UNCHANGED <<current, next_numbered, nameVars, saved, handed>>

(* ir.rs assign_many: every name of the list in turn, and no test of the   *)
(* locales they name.  A list of two.                                      *)
AssignMany(s, t, v, local) ==
  /\ LET inFrame == {r \in {s, t} : local /\ depth > 0 /\ IsLocal(r)}
         toFirst == IF s \in inFrame THEN locales ELSE Write(locales, Place(s), s.head, v)
     IN  /\ IF inFrame = {} THEN UNCHANGED callVars
            ELSE F!Insert([n \in {r.head : r \in inFrame} |-> v])
         /\ locales' = IF t \in inFrame THEN toFirst
                       ELSE Write(toFirst, Place(t), t.head, v)
  /\ UNCHANGED <<current, next_numbered, nameVars, saved, handed>>

(* ir.rs assign_one, of `n__var` where var holds the locale's name. *)
AssignIndirect(n, l, v) ==
  /\ locales' = Write(locales, l, n, v)
  /\ UNCHANGED <<callVars, current, next_numbered, nameVars, saved, handed>>

(* Expr::Name.  Reading a locative makes the named locale it mentions.     *)
(* `seen` records the part of the answer that Frames gives.                *)
ReadName(s) ==
  /\ ~MissingNumbered(s)
  /\ locales' = IF ~IsLocal(s) /\ s.loc \notin Digits THEN Ensure(locales, s.loc)
                ELSE locales
  /\ IF IsLocal(s) THEN F!Read(s.head) ELSE UNCHANGED callVars
  /\ UNCHANGED <<current, next_numbered, nameVars, saved, handed>>

(* Env::erase_name: the global, the verb, the modifier and the local. *)
EraseOutermost(s) == \* mutant of EraseLocal: the frame of another call
  IF IsLocal(s) /\ depth > 0
  THEN /\ frames' = [frames EXCEPT ![1] = F!FrameRemove(@, s.head)]
       /\ UNCHANGED <<running, depth, bodies, seen>>
  ELSE UNCHANGED callVars

EraseLocal(s) ==
  IF IsLocal(s) /\ depth > 0 THEN F!Remove(s.head) ELSE UNCHANGED callVars

Erase(s) ==
  /\ locales' = IF Exists(Place(s)) THEN [locales EXCEPT ![Place(s)].values[s.head] = NoValue]
                ELSE locales
  /\ EraseLocal(s)
  /\ mods' = [mods EXCEPT ![s] = "none"]

(* 4!:55 *)
EraseNames(s) ==
  /\ Erase(s)
  /\ verbs' = verbs \ {s}
  /\ UNCHANGED <<current, next_numbered, saved, handed>>

(* Expr::VerbDef and Expr::ModDef. *)
NameVerb(s) ==
  /\ Erase(s)
  /\ verbs' = verbs \cup {s}
  /\ UNCHANGED <<current, next_numbered, saved, handed>>

NameModifier(s, class) ==
  /\ locales' = IF Exists(Place(s)) THEN [locales EXCEPT ![Place(s)].values[s.head] = NoValue]
                ELSE locales
  /\ EraseLocal(s)
  /\ verbs' = verbs \ {s}
  /\ mods' = [mods EXCEPT ![s] = class]
  /\ UNCHANGED <<current, next_numbered, saved, handed>>
-----------------------------------------------------------------------------
(* cocurrent: set_current_locale puts a new Arc in `current`. *)
CoCurrent(l) ==
  /\ locales' = Ensure(locales, l)
  /\ current' = l
  /\ saved' = IF saved = <<>> THEN saved ELSE [saved EXCEPT ![Len(saved)].moved = TRUE]
  /\ UNCHANGED <<callVars, next_numbered, nameVars, handed>>

(* 18!:3 of an empty name: the next number no locale is named by.  The     *)
(* model stops where Numeral does.                                         *)
CreateReusing == \* mutant of CreateNumbered: the next number, taken or not
  /\ next_numbered \in DOMAIN Numeral
  /\ locales' = [locales EXCEPT ![Numeral[next_numbered]] = NewLocale(TRUE)]
  /\ next_numbered' = next_numbered + 1
  /\ handed' = handed \cup {Numeral[next_numbered]}
  /\ UNCHANGED <<callVars, current, nameVars, saved>>

CreateNumbered ==
  \E k \in DOMAIN Numeral :
    /\ next_numbered <= k
    /\ ~Exists(Numeral[k])
    /\ \A i \in next_numbered .. k - 1 : Exists(Numeral[i])
    /\ locales' = [locales EXCEPT ![Numeral[k]] = NewLocale(TRUE)]
    /\ next_numbered' = k + 1
    /\ handed' = handed \cup {Numeral[k]}
    /\ UNCHANGED <<callVars, current, nameVars, saved>>

(* 18!:3 of a name, which it refuses where the name is all digits. *)
CreateNamed(l) ==
  /\ l \notin Digits
  /\ locales' = Ensure(locales, l)
  /\ UNCHANGED <<callVars, current, next_numbered, nameVars, saved, handed>>

(* 18!:55 *)
EraseAnyLocale(l) == \* mutant of EraseLocale: a named one goes too
  /\ locales' = [locales EXCEPT ![l] = NoLocale]
  /\ UNCHANGED <<callVars, current, next_numbered, nameVars, saved, handed>>

EraseLocale(l) ==
  /\ locales' = IF Exists(l) /\ locales[l].numbered
                THEN [locales EXCEPT ![l] = NoLocale]
                ELSE locales
  /\ UNCHANGED <<callVars, current, next_numbered, nameVars, saved, handed>>

(* x 18!:2 y *)
SetLocalePath(l, p) ==
  /\ locales' = [Ensure(locales, l) EXCEPT ![l].path = p]
  /\ UNCHANGED <<callVars, current, next_numbered, nameVars, saved, handed>>

Next ==
  \/ \E d \in Defs, b \in F!Bindings : Call(d, b)
  \/ Return
  \/ \E s \in Spellings, v \in Values, scope \in {"local", "global", "default"} :
        AssignOne(s, v, scope)
  \/ \E s, t \in Spellings, v \in Values, local \in BOOLEAN : AssignMany(s, t, v, local)
  \/ \E n \in Names, l \in LocNames, v \in Values : AssignIndirect(n, l, v)
  \/ \E s \in Spellings : ReadName(s)
  \/ \E s \in Spellings : EraseNames(s)
  \/ \E s \in Spellings : NameVerb(s)
  \/ \E s \in Spellings, class \in Classes \ {"none"} : NameModifier(s, class)
  \/ \E l \in LocNames : CoCurrent(l)
  \/ CreateNumbered
  \/ \E l \in LocNames : CreateNamed(l)
  \/ \E l \in LocNames : EraseLocale(l)
  \/ \E l \in LocNames, p \in Paths : SetLocalePath(l, p)

Spec == Init /\ [][Next]_vars
-----------------------------------------------------------------------------
(* Composed with the locales and the tables, the call stack still does     *)
(* nothing but what Frames allows, and so what CallStack promises: a       *)
(* sentence reaches the locals of the running call and no others.          *)
ImplementsFrames == F!Spec

(* When a call ends the program is back in the locale it was called from,  *)
(* whatever home the definition has and whatever cocurrent its body or the *)
(* definitions it called ran ("the locale is put back", call_explicit).    *)
LocalePutBack ==
  [][Len(saved') < Len(saved) => current' = saved[Len(saved)].outer]_vars

(* 18!:3 '' never hands out a locale that exists, nor a number it has      *)
(* handed out before, even where a program has made a locale of digits by  *)
(* another road ("never reused while one is alive", Env.next_numbered).    *)
HandedOutOnce ==
  [][next_numbered' # next_numbered =>
       \E l \in LocNames : l \in handed' \ handed /\ ~Exists(l)]_vars

(* Nothing a program does removes a named locale, makes it numbered, or    *)
(* takes more than one name's value from it in one step ("A NAMED one      *)
(* survives", Env::erase_locale).                                          *)
NamedLocalesSurvive ==
  [][\A l \in LocNames : Exists(l) /\ ~locales[l].numbered =>
       /\ locales'[l] # NoLocale /\ ~locales'[l].numbered
       /\ Cardinality({n \in Names : /\ locales[l].values[n] # NoValue
                                     /\ locales'[l].values[n] = NoValue}) <= 1]_vars
=============================================================================
