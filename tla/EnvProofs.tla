------------------------------ MODULE EnvProofs ------------------------------
(***************************************************************************)
(* For every set of names, definitions and locales: a call puts back the   *)
(* locale it found, and every sentence uses the call stack as Frames does. *)
(***************************************************************************)
EXTENDS Env, FiniteSetTheorems, TLAPS

SavedTyped ==
  /\ saved \in Seq([outer : LocNames, moved : BOOLEAN])
  /\ current \in LocNames
  /\ depth \in Nat
  /\ Len(saved) = depth

(* What level k runs in: `current` for the innermost, and for a level that *)
(* has called another, what that call handed back to be restored.  A level *)
(* that has not moved runs in the locale it will put back.                 *)
Chain ==
  \A k \in 1 .. Len(saved) :
    ~saved[k].moved =>
      saved[k].outer = (IF k = Len(saved) THEN current ELSE saved[k + 1].outer)

LocaleInv == SavedTyped /\ Chain

LEMMA InitLocale == Init => LocaleInv
<1> SUFFICES ASSUME Init
             PROVE  LocaleInv
  OBVIOUS
<1>1. saved = <<>> /\ current = BASE_LOCALE /\ depth = 0
  BY DEF Init, F!Init
<1>2. BASE_LOCALE \in LocNames
  BY EnvAssumption
<1> QED
  BY <1>1, <1>2 DEF LocaleInv, SavedTyped, Chain

(* Every action but three leaves all of this alone. *)
LEMMA LocaleAlone ==
  ASSUME LocaleInv, saved' = saved, current' = current, depth' = depth
  PROVE  LocaleInv'
BY DEF LocaleInv, SavedTyped, Chain

Saved == [outer : LocNames, moved : BOOLEAN]

LEMMA CallLocale ==
  ASSUME LocaleInv, NEW d \in Defs, NEW b, Call(d, b)
  PROVE  /\ LocaleInv'
         /\ Len(saved') = Len(saved) + 1
<1> DEFINE moves == Home[d] # Bare /\ Home[d] # current
           new   == [outer |-> current, moved |-> moves]
<1>1. /\ saved' = Append(saved, new)
      /\ current' = IF moves THEN Home[d] ELSE current
      /\ depth' = depth + 1
  BY DEF Call, F!Enter
<1>2. /\ saved \in Seq(Saved)
      /\ current \in LocNames
      /\ depth \in Nat
      /\ Len(saved) = depth
  BY DEF LocaleInv, SavedTyped, Saved
<1>3. new \in Saved /\ new.outer = current /\ new.moved = moves
  BY <1>2 DEF Saved
<1>4. moves => Home[d] \in LocNames
  BY EnvAssumption
<1>5. \A k \in 1 .. Len(saved) :
        ~saved[k].moved =>
          saved[k].outer = (IF k = Len(saved) THEN current ELSE saved[k + 1].outer)
  BY DEF LocaleInv, Chain
<1>6. ~moves => current' = current
  BY <1>1
<1>7. current' \in LocNames
  BY <1>1, <1>2, <1>4
<1> HIDE DEF moves, new
<1>8. /\ Len(saved') = Len(saved) + 1
      /\ \A k \in 1 .. Len(saved) : saved'[k] = saved[k]
      /\ saved'[Len(saved) + 1] = new
      /\ saved' \in Seq(Saved)
  BY <1>1, <1>2, <1>3
<1>9. SavedTyped'
  BY <1>1, <1>2, <1>7, <1>8 DEF SavedTyped, Saved
<1>10. Chain'
  <2> SUFFICES ASSUME NEW k \in 1 .. Len(saved) + 1, ~saved'[k].moved
               PROVE  saved'[k].outer
                        = (IF k = Len(saved) + 1 THEN current' ELSE saved'[k + 1].outer)
    BY <1>8 DEF Chain
  <2>1. CASE k = Len(saved) + 1
    BY <2>1, <1>3, <1>6, <1>8
  <2>2. CASE k = Len(saved)
    <3>1. saved'[k] = saved[k] /\ saved'[k + 1] = new /\ k \in 1 .. Len(saved)
      BY <2>2, <1>2, <1>8
    <3> QED
      BY <3>1, <2>2, <1>2, <1>3, <1>5
  <2>3. CASE k < Len(saved)
    <3>1. /\ saved'[k] = saved[k] /\ saved'[k + 1] = saved[k + 1]
          /\ k \in 1 .. Len(saved) /\ k # Len(saved) /\ k # Len(saved) + 1
      BY <2>3, <1>2, <1>8
    <3> QED
      BY <3>1, <1>5
  <2> QED
    BY <2>1, <2>2, <2>3, <1>2
<1> QED
  BY <1>8, <1>9, <1>10 DEF LocaleInv

LEMMA ReturnLocale ==
  ASSUME LocaleInv, Return
  PROVE  /\ LocaleInv'
         /\ current' = saved[Len(saved)].outer
         /\ Len(saved') = Len(saved) - 1
<1>1. /\ Len(saved) > 0
      /\ saved' = SubSeq(saved, 1, Len(saved) - 1)
      /\ depth' = depth - 1
  BY DEF Return, F!Leave, LocaleInv, SavedTyped
<1>2. current' = saved[Len(saved)].outer
  BY <1>1 DEF Return, LocaleInv, SavedTyped, Chain
<1>3. saved \in Seq(Saved) /\ depth \in Nat /\ Len(saved) = depth
  BY DEF LocaleInv, SavedTyped, Saved
<1>4. /\ Len(saved') = Len(saved) - 1
      /\ \A k \in 1 .. Len(saved) - 1 : saved'[k] = saved[k]
      /\ saved' \in Seq(Saved)
  BY <1>1, <1>3
<1>5. SavedTyped'
  <2>1. saved[Len(saved)] \in Saved
    BY <1>1, <1>3
  <2>2. current' \in LocNames
    BY <2>1, <1>2 DEF Saved
  <2> QED
    BY <2>2, <1>1, <1>3, <1>4 DEF SavedTyped, Saved
<1>6. Chain'
  <2> SUFFICES ASSUME NEW k \in 1 .. Len(saved) - 1, ~saved'[k].moved
               PROVE  saved'[k].outer
                        = (IF k = Len(saved) - 1 THEN current' ELSE saved'[k + 1].outer)
    BY <1>4 DEF Chain
  <2>1. saved'[k] = saved[k] /\ saved[k].outer = saved[k + 1].outer
    BY <1>3, <1>4 DEF LocaleInv, Chain
  <2>2. CASE k = Len(saved) - 1
    BY <2>1, <2>2, <1>2, <1>3
  <2>3. CASE k # Len(saved) - 1
    BY <2>1, <2>3, <1>3, <1>4
  <2> QED
    BY <2>2, <2>3
<1> QED
  BY <1>2, <1>4, <1>5, <1>6 DEF LocaleInv

LEMMA CoCurrentLocale ==
  ASSUME LocaleInv, NEW l \in LocNames, CoCurrent(l)
  PROVE  /\ LocaleInv'
         /\ Len(saved') = Len(saved)
<1>1. CASE saved = <<>>
  <2>1. saved' = <<>> /\ current' = l /\ depth' = depth
    BY <1>1 DEF CoCurrent, callVars
  <2> QED
    BY <1>1, <2>1 DEF LocaleInv, SavedTyped, Chain
<1>2. CASE saved # <<>>
  <2>1. /\ saved' = [saved EXCEPT ![Len(saved)].moved = TRUE]
        /\ current' = l /\ depth' = depth
    BY <1>2 DEF CoCurrent, callVars
  <2>2. /\ saved \in Seq(Saved)
        /\ depth \in Nat
        /\ Len(saved) = depth
        /\ Len(saved) > 0
    BY <1>2 DEF LocaleInv, SavedTyped, Saved
  <2>3. /\ Len(saved') = Len(saved)
        /\ \A k \in 1 .. Len(saved) :
             saved'[k] = IF k = Len(saved) THEN [saved[k] EXCEPT !.moved = TRUE] ELSE saved[k]
    <3> DEFINE m == [saved[Len(saved)] EXCEPT !.moved = TRUE]
    <3>1. saved' = [saved EXCEPT ![Len(saved)] = m]
      BY <2>1
    <3>2. m = [saved[Len(saved)] EXCEPT !.moved = TRUE]
      OBVIOUS
    <3> HIDE DEF m
    <3>3. /\ Len(saved') = Len(saved)
          /\ \A k \in 1 .. Len(saved) : saved'[k] = IF k = Len(saved) THEN m ELSE saved[k]
      BY <3>1, <2>2
    <3> QED
      BY <3>2, <3>3
  <2>4. \A s \in Saved : /\ [s EXCEPT !.moved = TRUE] \in Saved
                         /\ [s EXCEPT !.moved = TRUE].outer = s.outer
                         /\ [s EXCEPT !.moved = TRUE].moved = TRUE
    BY DEF Saved
  <2>5. \A k \in 1 .. Len(saved) : saved[k] \in Saved
    BY <2>2
  <2>6. \A k \in 1 .. Len(saved) : saved'[k] \in Saved /\ saved'[k].outer = saved[k].outer
    BY <2>3, <2>4, <2>5
  <2>7. saved'[Len(saved)].moved = TRUE
    <3>1. Len(saved) \in 1 .. Len(saved)
      BY <2>2
    <3>2. saved'[Len(saved)] = [saved[Len(saved)] EXCEPT !.moved = TRUE]
      BY <3>1, <2>3
    <3> QED
      BY <3>1, <3>2, <2>4, <2>5
  <2>8. saved' \in Seq(Saved)
    BY <2>1, <2>2, <2>3, <2>6
  <2>9. SavedTyped'
    BY <2>1, <2>2, <2>3, <2>8 DEF SavedTyped, Saved
  <2>10. Chain'
    <3> SUFFICES ASSUME NEW k \in 1 .. Len(saved), ~saved'[k].moved
                 PROVE  saved'[k].outer
                          = (IF k = Len(saved) THEN current' ELSE saved'[k + 1].outer)
      BY <2>3 DEF Chain
    <3>1. k # Len(saved)
      BY <2>7
    <3>2. saved'[k] = saved[k] /\ k + 1 \in 1 .. Len(saved)
      BY <3>1, <2>2, <2>3
    <3>3. saved[k].outer = saved[k + 1].outer
      BY <3>1, <3>2 DEF LocaleInv, Chain
    <3> QED
      BY <3>1, <3>2, <3>3, <2>6
  <2> QED
    BY <2>3, <2>9, <2>10 DEF LocaleInv
<1> QED
  BY <1>1, <1>2

-----------------------------------------------------------------------------
(* What each of the other actions does to the call stack. *)
LEMMA BindingTyped ==
  ASSUME NEW S \in SUBSET Names, NEW v \in Values
  PROVE  [n \in S |-> v] \in F!Bindings
BY DEF F!Bindings

LEMMA HeadTyped == \A s \in Spellings : s.head \in Names
BY EnvAssumption

LEMMA AssignFrames ==
  ASSUME NEW s \in Spellings, NEW v \in Values, NEW local, Assign(s, v, local)
  PROVE  [F!Next]_(F!vars) /\ depth' = depth
<1>1. [n \in {s.head} |-> v] \in F!Bindings
  BY BindingTyped, HeadTyped
<1>2. CASE local /\ IsLocal(s) /\ depth > 0
  BY <1>1, <1>2 DEF Assign, F!Next, F!Insert
<1>3. CASE ~(local /\ IsLocal(s) /\ depth > 0)
  BY <1>3 DEF Assign, callVars, F!vars
<1> QED
  BY <1>2, <1>3

LEMMA EraseFrames ==
  ASSUME NEW s \in Spellings, EraseLocal(s)
  PROVE  [F!Next]_(F!vars) /\ depth' = depth
<1>1. CASE IsLocal(s) /\ depth > 0
  BY <1>1, HeadTyped DEF EraseLocal, F!Next, F!Remove
<1>2. CASE ~(IsLocal(s) /\ depth > 0)
  BY <1>2 DEF EraseLocal, callVars, F!vars
<1> QED
  BY <1>1, <1>2

LEMMA AssignManyFrames ==
  ASSUME NEW s \in Spellings, NEW t \in Spellings, NEW v \in Values, NEW local,
         AssignMany(s, t, v, local)
  PROVE  [F!Next]_(F!vars) /\ depth' = depth
<1> DEFINE inFrame == {r \in {s, t} : local /\ depth > 0 /\ IsLocal(r)}
           heads   == {r.head : r \in inFrame}
<1>1. [n \in heads |-> v] \in F!Bindings
  <2>1. heads \in SUBSET Names
    BY HeadTyped
  <2> QED
    BY <2>1, BindingTyped
<1>2. IF inFrame = {} THEN UNCHANGED callVars ELSE F!Insert([n \in heads |-> v])
  BY DEF AssignMany
<1> HIDE DEF inFrame, heads
<1> QED
  BY <1>1, <1>2 DEF callVars, F!vars, F!Next, F!Insert

(* Every sentence is a step of Frames, or none; and but for a call, a      *)
(* return and cocurrent it leaves the locale and what is saved alone.      *)
LEMMA StepFrames ==
  ASSUME [Next]_vars
  PROVE  [F!Next]_(F!vars)
<1>1. ASSUME NEW d \in Defs, NEW b \in F!Bindings, Call(d, b)
      PROVE  F!Next
  BY <1>1 DEF Call, F!Next
<1>2. ASSUME Return
      PROVE  F!Next
  BY <1>2 DEF Return, F!Next
<1>3. ASSUME NEW s \in Spellings, NEW v \in Values, NEW scope, AssignOne(s, v, scope)
      PROVE  [F!Next]_(F!vars)
  <2>1. CASE UNCHANGED callVars
    BY <2>1 DEF callVars, F!vars
  <2>2. CASE Assign(s, v, scope # "global")
    BY <2>2, AssignFrames
  <2> QED
    BY <1>3, <2>1, <2>2 DEF AssignOne
<1>4. ASSUME NEW s \in Spellings, ReadName(s)
      PROVE  [F!Next]_(F!vars)
  BY <1>4, HeadTyped DEF ReadName, F!Next, callVars, F!vars
<1>5. ASSUME NEW s \in Spellings, EraseLocal(s)
      PROVE  [F!Next]_(F!vars)
  BY <1>5, EraseFrames
<1>6. ASSUME UNCHANGED callVars
      PROVE  [F!Next]_(F!vars)
  BY <1>6 DEF callVars, F!vars
<1>7. CASE UNCHANGED vars
  BY <1>6, <1>7 DEF vars, callVars
<1>8. CASE Next
  BY <1>1, <1>2, <1>3, <1>4, <1>5, <1>6, <1>8, AssignManyFrames
     DEF Next, AssignIndirect, EraseNames, NameVerb, NameModifier, Erase,
         CoCurrent, CreateNumbered, CreateNamed, EraseLocale, SetLocalePath
<1> QED
  BY <1>7, <1>8

(* Every step of a J program uses the call stack as Frames allows, so what *)
(* is proved of Frames holds of the program.                               *)
THEOREM EnvImplementsFrames == Spec => ImplementsFrames
<1>1. Init => F!Init
  BY DEF Init
<1>2. [Next]_vars => [F!Next]_(F!vars)
  BY StepFrames
<1> QED
  BY <1>1, <1>2, PTL DEF Spec, ImplementsFrames, F!Spec

(* The locale is what the chain says it is, however a step was taken. *)
LEMMA NextLocale ==
  ASSUME LocaleInv, [Next]_vars
  PROVE  /\ LocaleInv'
         /\ Len(saved') < Len(saved) => current' = saved[Len(saved)].outer
<1> DEFINE Held == LocaleInv' /\ Len(saved') \in Nat /\ Len(saved') >= Len(saved)
<1>0. Len(saved) \in Nat
  BY DEF LocaleInv, SavedTyped
<1>1. ASSUME saved' = saved, current' = current, depth' = depth
      PROVE  Held
  BY <1>0, <1>1, LocaleAlone
<1>2. ASSUME NEW d \in Defs, NEW b \in F!Bindings, Call(d, b)
      PROVE  Held
  BY <1>0, <1>2, CallLocale
<1>3. ASSUME NEW s \in Spellings, NEW v \in Values, NEW scope, AssignOne(s, v, scope)
      PROVE  Held
  BY <1>1, <1>3, AssignFrames DEF AssignOne, callVars
<1>4. ASSUME NEW s \in Spellings, NEW t \in Spellings, NEW v \in Values, NEW local,
             AssignMany(s, t, v, local)
      PROVE  Held
  BY <1>1, <1>4, AssignManyFrames DEF AssignMany
<1>5. ASSUME NEW s \in Spellings, ReadName(s)
      PROVE  Held
  BY <1>1, <1>5 DEF ReadName, F!Read, callVars
<1>6. ASSUME NEW s \in Spellings,
             EraseNames(s) \/ NameVerb(s) \/ \E c \in Classes : NameModifier(s, c)
      PROVE  Held
  BY <1>1, <1>6, EraseFrames DEF EraseNames, NameVerb, NameModifier, Erase
<1>7. ASSUME NEW l \in LocNames, CoCurrent(l)
      PROVE  Held
  BY <1>0, <1>7, CoCurrentLocale
<1>8. ASSUME UNCHANGED callVars, UNCHANGED <<current, saved>>
      PROVE  Held
  BY <1>1, <1>8 DEF callVars
<1>9. CASE Return
  BY <1>9, ReturnLocale
<1>10. CASE UNCHANGED vars
  BY <1>8, <1>10 DEF vars
<1>11. CASE Next /\ ~Return
  <2>1. Held
    <3> HIDE DEF Held
    <3> QED
      BY <1>2, <1>3, <1>4, <1>5, <1>6, <1>7, <1>8, <1>11
         DEF Next, AssignIndirect, CreateNumbered, CreateNamed, EraseLocale, SetLocalePath
  <2> QED
    BY <1>0, <2>1
<1> QED
  BY <1>9, <1>10, <1>0, <1>11

(* A call always ends in the locale it was made from, for any number of    *)
(* definitions, homes and locales, and any depth of calls.                 *)
THEOREM LocalePutBackAlways == Spec => LocalePutBack
<1>1. Init => LocaleInv
  BY InitLocale
<1>2. LocaleInv /\ [Next]_vars => LocaleInv'
  BY NextLocale
<1>3. LocaleInv /\ [Next]_vars
        => [Len(saved') < Len(saved) => current' = saved[Len(saved)].outer]_vars
  BY NextLocale
<1> QED
  BY <1>1, <1>2, <1>3, PTL DEF Spec, LocalePutBack

-----------------------------------------------------------------------------
(* 18!:3 counts up past whatever it hands out. *)
HandedInv ==
  /\ next_numbered \in Nat
  /\ \A l \in handed : \E i \in DOMAIN Numeral : i < next_numbered /\ l = Numeral[i]

(* The two counters move together, in one action. *)
LEMMA HandedStep ==
  ASSUME HandedInv, [Next]_vars
  PROVE  /\ HandedInv'
         /\ next_numbered' # next_numbered =>
              \E l \in LocNames : l \in handed' \ handed /\ ~Exists(l)
<1>1. CASE UNCHANGED <<next_numbered, handed>>
  BY <1>1 DEF HandedInv
<1>2. CASE CreateNumbered
  <2>1. PICK k \in DOMAIN Numeral : /\ next_numbered <= k
                                    /\ ~Exists(Numeral[k])
                                    /\ next_numbered' = k + 1
                                    /\ handed' = handed \cup {Numeral[k]}
    BY <1>2 DEF CreateNumbered
  <2>2. /\ k \in Nat /\ DOMAIN Numeral \subseteq Int /\ Numeral[k] \in LocNames
        /\ \A i, j \in DOMAIN Numeral : Numeral[i] = Numeral[j] => i = j
    BY <2>1, EnvAssumption DEF HandedInv
  <2>3. Numeral[k] \notin handed
    BY <2>1, <2>2 DEF HandedInv
  <2>4. HandedInv'
    BY <2>1, <2>2 DEF HandedInv
  <2> QED
    BY <2>1, <2>2, <2>3, <2>4
<1> QED
  BY <1>1, <1>2 DEF Next, vars, Call, Return, AssignOne, AssignMany, AssignIndirect, ReadName,
       EraseNames, NameVerb, NameModifier, CoCurrent, CreateNamed, EraseLocale, SetLocalePath

(* 18!:3 '' hands out a locale that does not exist and that it has never   *)
(* handed out, however many numbers there are and however many of them a   *)
(* program has taken by another road.                                      *)
THEOREM HandedOutOnceAlways == Spec => HandedOutOnce
<1>1. Init => HandedInv
  BY DEF Init, HandedInv
<1>2. HandedInv /\ [Next]_vars => HandedInv'
  BY HandedStep
<1>3. HandedInv /\ [Next]_vars
        => [next_numbered' # next_numbered =>
              \E l \in LocNames : l \in handed' \ handed /\ ~Exists(l)]_vars
  BY HandedStep
<1> QED
  BY <1>1, <1>2, <1>3, PTL DEF Spec, HandedOutOnce

-----------------------------------------------------------------------------
(* Tables of locales, and what may happen to one of them in a step: every  *)
(* locale stays, numbered or named as it is, with every name it had; or    *)
(* with every name but n.                                                  *)
Tables == [LocNames -> Locale \cup {NoLocale}]

KeepsBut(a, b, N) ==
  \A l \in LocNames :
    a[l] # NoLocale =>
      /\ b[l] # NoLocale
      /\ b[l].numbered = a[l].numbered
      /\ \A k \in Names \ N : a[l].values[k] # NoValue => b[l].values[k] # NoValue

LEMMA NewLocaleTyped ==
  ASSUME NEW numbered \in BOOLEAN
  PROVE  NewLocale(numbered) \in Locale
<1>1. <<Z_LOCALE>> \in Seq(LocNames)
  BY EnvAssumption
<1>2. [n \in Names |-> NoValue] \in [Names -> Maybe]
  BY DEF Maybe
<1> QED
  BY <1>1, <1>2 DEF NewLocale, Locale

(* ensure_locale changes no locale there is. *)
LEMMA EnsureKeeps ==
  ASSUME NEW a \in Tables, NEW l \in LocNames
  PROVE  /\ Ensure(a, l) \in Tables
         /\ Ensure(a, l)[l] \in Locale
         /\ KeepsBut(a, Ensure(a, l), {})
BY NewLocaleTyped DEF Ensure, Tables, KeepsBut

(* An insert in a locale there is. *)
LEMMA InsertKeeps ==
  ASSUME NEW a \in Tables, NEW l \in LocNames, a[l] \in Locale, NEW n \in Names, NEW v \in Maybe
  PROVE  /\ [a EXCEPT ![l].values[n] = v] \in Tables
         /\ KeepsBut(a, [a EXCEPT ![l].values[n] = v], {n})
         /\ v # NoValue => KeepsBut(a, [a EXCEPT ![l].values[n] = v], {})
<1> DEFINE new == [a[l] EXCEPT !.values[n] = v]
           b   == [a EXCEPT ![l] = new]
<1>1. [a EXCEPT ![l].values[n] = v] = b
  OBVIOUS
<1>2. a[l].values \in [Names -> Maybe]
  BY DEF Locale
<1>3. /\ new \in Locale
      /\ new.numbered = a[l].numbered
      /\ new.values = [a[l].values EXCEPT ![n] = v]
  BY <1>2 DEF Locale
<1>4. /\ \A k \in Names \ {n} : new.values[k] = a[l].values[k]
      /\ new.values[n] = v
  BY <1>2, <1>3
<1>5. new # NoLocale
  BY <1>3, NoLocaleAssumption
<1> HIDE DEF new
<1>6. b \in Tables /\ b[l] = new /\ \A m \in LocNames \ {l} : b[m] = a[m]
  BY <1>3 DEF Tables
<1>7. KeepsBut(a, b, {n})
  BY <1>3, <1>4, <1>5, <1>6 DEF KeepsBut
<1>8. ASSUME v # NoValue
      PROVE  KeepsBut(a, b, {})
  <2>1. \A k \in Names : a[l].values[k] # NoValue => b[l].values[k] # NoValue
    BY <1>4, <1>6, <1>8
  <2> QED
    BY <2>1, <1>3, <1>5, <1>6 DEF KeepsBut
<1> QED
  BY <1>1, <1>6, <1>7, <1>8

LEMMA KeepsTransitive ==
  ASSUME NEW a, NEW b, NEW c, NEW N, KeepsBut(a, b, {}), KeepsBut(b, c, N)
  PROVE  KeepsBut(a, c, N)
BY DEF KeepsBut

LEMMA WriteKeeps ==
  ASSUME NEW a \in Tables, NEW l \in LocNames, NEW n \in Names, NEW v \in Values
  PROVE  /\ Write(a, l, n, v) \in Tables
         /\ KeepsBut(a, Write(a, l, n, v), {})
<1> DEFINE b == Ensure(a, l)
<1>1. b \in Tables /\ b[l] \in Locale /\ KeepsBut(a, b, {})
  BY EnsureKeeps
<1>2. v \in Maybe /\ v # NoValue
  BY CallsAssumption DEF Maybe, F!FramesAssumption
<1> HIDE DEF b
<1>3. /\ [b EXCEPT ![l].values[n] = v] \in Tables
      /\ KeepsBut(b, [b EXCEPT ![l].values[n] = v], {})
  BY <1>1, <1>2, InsertKeeps
<1>4. Write(a, l, n, v) = [b EXCEPT ![l].values[n] = v]
  BY DEF Write, b
<1> QED
  BY <1>1, <1>3, <1>4, KeepsTransitive

(* assign writes a value, in a frame or in a locale. *)
LEMMA AssignKeeps ==
  ASSUME locales \in Tables, current \in LocNames,
         NEW s \in Spellings, NEW v \in Values, NEW local, Assign(s, v, local)
  PROVE  locales' \in Tables /\ KeepsBut(locales, locales', {})
<1>1. Place(s) \in LocNames /\ s.head \in Names
  BY EnvAssumption DEF Place, IsLocal
<1>2. CASE UNCHANGED locales
  BY <1>2 DEF KeepsBut
<1>3. CASE locales' = Write(locales, Place(s), s.head, v)
  BY <1>1, <1>3, WriteKeeps
<1> QED
  BY <1>2, <1>3 DEF Assign

LEMMA AssignManyKeeps ==
  ASSUME locales \in Tables, current \in LocNames,
         NEW s \in Spellings, NEW t \in Spellings, NEW v \in Values, NEW local,
         AssignMany(s, t, v, local)
  PROVE  locales' \in Tables /\ KeepsBut(locales, locales', {})
<1> DEFINE inFrame == {r \in {s, t} : local /\ depth > 0 /\ IsLocal(r)}
           toFirst == IF s \in inFrame THEN locales ELSE Write(locales, Place(s), s.head, v)
<1>1. /\ Place(s) \in LocNames /\ s.head \in Names
      /\ Place(t) \in LocNames /\ t.head \in Names
  BY EnvAssumption DEF Place, IsLocal
<1>2. locales' = IF t \in inFrame THEN toFirst ELSE Write(toFirst, Place(t), t.head, v)
  BY DEF AssignMany
<1>3. toFirst \in Tables /\ KeepsBut(locales, toFirst, {})
  <2> HIDE DEF inFrame
  <2>1. KeepsBut(locales, locales, {})
    BY DEF KeepsBut
  <2> QED
    BY <1>1, <2>1, WriteKeeps
<1> HIDE DEF toFirst, inFrame
<1> QED
  BY <1>1, <1>2, <1>3, WriteKeeps, KeepsTransitive

(* What Erase and NameModifier do to the table. *)
LEMMA EraseKeeps ==
  ASSUME locales \in Tables, current \in LocNames, NEW s \in Spellings,
         locales' = IF Exists(Place(s)) THEN [locales EXCEPT ![Place(s)].values[s.head] = NoValue]
                    ELSE locales
  PROVE  locales' \in Tables /\ KeepsBut(locales, locales', {s.head})
<1>1. Place(s) \in LocNames /\ s.head \in Names
  BY EnvAssumption DEF Place, IsLocal
<1>2. CASE Exists(Place(s))
  <2>1. locales[Place(s)] \in Locale /\ NoValue \in Maybe
    BY <1>1, <1>2 DEF Exists, Tables, Maybe
  <2> QED
    BY <1>1, <1>2, <2>1, InsertKeeps
<1>3. CASE ~Exists(Place(s))
  BY <1>3 DEF KeepsBut
<1> QED
  BY <1>2, <1>3

(* A locale made by 18!:3 takes the place of none, and 18!:55 takes only   *)
(* one of digits.                                                          *)
Survives(a, b) ==
  \A l \in LocNames :
    a[l] # NoLocale /\ ~a[l].numbered =>
      /\ b[l] # NoLocale /\ ~b[l].numbered
      /\ \E n : {k \in Names : a[l].values[k] # NoValue /\ b[l].values[k] = NoValue} \subseteq {n}

LEMMA KeepsSurvives ==
  ASSUME NEW a, NEW b, NEW n, KeepsBut(a, b, {}) \/ KeepsBut(a, b, {n})
  PROVE  Survives(a, b)
BY DEF KeepsBut, Survives

TableInv == LocaleInv /\ locales \in Tables

LEMMA TableStep ==
  ASSUME TableInv, [Next]_vars
  PROVE  locales' \in Tables /\ Survives(locales, locales')
<1> USE DEF TableInv
<1>0. current \in LocNames /\ locales \in Tables
  BY DEF LocaleInv, SavedTyped
<1> DEFINE Good == locales' \in Tables /\ Survives(locales, locales')
<1> SUFFICES Good
  OBVIOUS
<1>1. ASSUME NEW n, locales' \in Tables,
             KeepsBut(locales, locales', {}) \/ KeepsBut(locales, locales', {n})
      PROVE  Good
  BY <1>1, KeepsSurvives
<1>2. ASSUME UNCHANGED locales
      PROVE  Good
  BY <1>0, <1>1, <1>2 DEF KeepsBut
<1>3. ASSUME NEW l \in LocNames, locales' = Ensure(locales, l)
      PROVE  Good
  BY <1>0, <1>1, <1>3, EnsureKeeps
<1>4. ASSUME NEW d \in Defs, NEW b \in F!Bindings, Call(d, b)
      PROVE  Good
  BY <1>2, <1>3, <1>4, EnvAssumption DEF Call
<1>5. CASE Return
  <2>1. Len(saved) > 0
    BY <1>5 DEF Return, F!Leave, LocaleInv, SavedTyped
  <2>2. saved[Len(saved)].outer \in LocNames
    <3>1. saved \in Seq(Saved)
      BY DEF LocaleInv, SavedTyped, Saved
    <3>2. saved[Len(saved)] \in Saved
      BY <2>1, <3>1
    <3> QED
      BY <3>2 DEF Saved
  <2> QED
    BY <2>2, <1>2, <1>3, <1>5 DEF Return
<1>6. ASSUME NEW s \in Spellings, NEW v \in Values, NEW scope, AssignOne(s, v, scope)
      PROVE  Good
  <2>1. CASE UNCHANGED locales
    BY <1>2, <2>1
  <2>2. CASE Assign(s, v, scope # "global")
    BY <1>0, <1>1, <2>2, AssignKeeps
  <2> QED
    BY <1>6, <2>1, <2>2 DEF AssignOne
<1>7. ASSUME NEW s \in Spellings, NEW t \in Spellings, NEW v \in Values, NEW local,
             AssignMany(s, t, v, local)
      PROVE  Good
  BY <1>0, <1>1, <1>7, AssignManyKeeps
<1>8. ASSUME NEW n \in Names, NEW l \in LocNames, NEW v \in Values, AssignIndirect(n, l, v)
      PROVE  Good
  BY <1>0, <1>1, <1>8, WriteKeeps DEF AssignIndirect
<1>9. ASSUME NEW s \in Spellings, ReadName(s)
      PROVE  Good
  BY <1>2, <1>3, <1>9, EnvAssumption DEF ReadName, IsLocal
<1>10. ASSUME NEW s \in Spellings,
              EraseNames(s) \/ NameVerb(s) \/ \E c \in Classes : NameModifier(s, c)
       PROVE  Good
  BY <1>0, <1>1, <1>10, EraseKeeps DEF EraseNames, NameVerb, NameModifier, Erase
<1>11. ASSUME NEW l \in LocNames, CoCurrent(l) \/ CreateNamed(l)
       PROVE  Good
  BY <1>3, <1>11 DEF CoCurrent, CreateNamed
<1>12. CASE CreateNumbered
  <2>1. PICK k \in DOMAIN Numeral : /\ ~Exists(Numeral[k])
                                    /\ locales' = [locales EXCEPT ![Numeral[k]] = NewLocale(TRUE)]
    BY <1>12 DEF CreateNumbered
  <2>2. NewLocale(TRUE) \in Locale /\ Numeral[k] \in LocNames
    BY NewLocaleTyped, EnvAssumption
  <2> QED
    BY <1>0, <2>1, <2>2 DEF Tables, Survives, Exists
<1>13. ASSUME NEW l \in LocNames, EraseLocale(l)
       PROVE  Good
  BY <1>0, <1>13 DEF EraseLocale, Tables, Survives, Exists
<1>14. ASSUME NEW l \in LocNames, NEW p \in Paths, SetLocalePath(l, p)
       PROVE  Good
  <2> DEFINE b   == Ensure(locales, l)
             new == [b[l] EXCEPT !.path = p]
  <2>1. b \in Tables /\ b[l] \in Locale /\ KeepsBut(locales, b, {})
    BY <1>0, EnsureKeeps
  <2>2. locales' = [b EXCEPT ![l] = new]
    BY <1>14 DEF SetLocalePath
  <2> HIDE DEF b
  <2>3. new \in Locale /\ new.numbered = b[l].numbered /\ new.values = b[l].values
    BY <2>1, EnvAssumption DEF Locale
  <2>4. new # NoLocale
    BY <2>3, NoLocaleAssumption
  <2> HIDE DEF new
  <2>5. locales' \in Tables /\ KeepsBut(b, locales', {})
    BY <2>1, <2>2, <2>3, <2>4 DEF Tables, KeepsBut
  <2> QED
    BY <2>1, <2>5, <1>1, KeepsTransitive
<1>15. CASE UNCHANGED vars
  BY <1>2, <1>15 DEF vars
<1> HIDE DEF Good
<1>16. ASSUME NEW s \in Spellings,
              EraseNames(s) \/ NameVerb(s) \/ \E c \in Classes \ {"none"} : NameModifier(s, c)
       PROVE  Good
  BY <1>10, <1>16
<1> HIDE DEF Good
<1>17. CASE Next
  BY <1>4, <1>5, <1>6, <1>7, <1>8, <1>9, <1>11, <1>12, <1>13, <1>14, <1>16, <1>17 DEF Next
<1> QED
  BY <1>15, <1>17

(* Nothing a program does removes a named locale, makes it numbered, or    *)
(* takes more than one name's value from it, for any number of locales,    *)
(* names and paths and any nesting of calls.                               *)
THEOREM NamedLocalesSurviveAlways == Spec => NamedLocalesSurvive
<1>1. Init => TableInv
  <2> SUFFICES ASSUME Init PROVE TableInv
    OBVIOUS
  <2>1. [NewLocale(FALSE) EXCEPT !.path = <<>>] \in Locale
    <3>1. FALSE \in BOOLEAN /\ <<>> \in Seq(LocNames)
      OBVIOUS
    <3>2. NewLocale(FALSE) \in Locale
      BY <3>1, NewLocaleTyped
    <3> QED
      BY <3>1, <3>2 DEF Locale
  <2>2. locales \in Tables
    BY <2>1, NewLocaleTyped DEF Init, Tables
  <2> QED
    BY <2>2, InitLocale DEF TableInv
<1>2. TableInv /\ [Next]_vars => TableInv'
  BY TableStep, NextLocale DEF TableInv
<1>3. TableInv /\ [Next]_vars => [\A l \in LocNames : Exists(l) /\ ~locales[l].numbered =>
       /\ locales'[l] # NoLocale /\ ~locales'[l].numbered
       /\ Cardinality({n \in Names : /\ locales[l].values[n] # NoValue
                                     /\ locales'[l].values[n] = NoValue}) <= 1]_vars
  <2> SUFFICES ASSUME TableInv, [Next]_vars, NEW l \in LocNames, Exists(l), ~locales[l].numbered
               PROVE  /\ locales'[l] # NoLocale /\ ~locales'[l].numbered
                      /\ Cardinality({n \in Names : /\ locales[l].values[n] # NoValue
                                                    /\ locales'[l].values[n] = NoValue}) <= 1
    OBVIOUS
  <2> DEFINE lost == {n \in Names : /\ locales[l].values[n] # NoValue
                                    /\ locales'[l].values[n] = NoValue}
  <2>1. /\ locales'[l] # NoLocale /\ ~locales'[l].numbered
        /\ \E n : lost \subseteq {n}
    BY TableStep DEF Survives, Exists
  <2> HIDE DEF lost
  <2>2. PICK n : lost \subseteq {n}
    BY <2>1
  <2>3. IsFiniteSet({n}) /\ Cardinality({n}) = 1
    BY FS_Singleton
  <2>4. Cardinality(lost) <= 1
    BY <2>2, <2>3, FS_Subset
  <2> QED
    BY <2>1, <2>4 DEF lost
<1> QED
  BY <1>1, <1>2, <1>3, PTL DEF Spec, NamedLocalesSurvive
=============================================================================
