-------------------------------- MODULE MCEnv --------------------------------
(* Two instances of Env.  "Calls": definitions with and without a home,    *)
(* calling each other two deep, no numbered locale.  "Locales": no         *)
(* definitions, two numbered locales, a search path, a locative.           *)
EXTENDS Env

CallsNumeral   == [k \in {} |-> "0"]
CallsLocNames  == {"base", "z", "aa"}
CallsHome      == [d \in Defs |-> IF d = "atHome" THEN "aa" ELSE "bare"]
CallsSpellings == {[head |-> n, loc |-> "bare"] : n \in Names}

LocalesNumeral   == [k \in 0 .. 1 |-> IF k = 0 THEN "0" ELSE "1"]
LocalesLocNames  == {"base", "z", "0", "1"}
LocalesSpellings == {[head |-> n, loc |-> l] : n \in Names, l \in {"bare", "0"}}
LocalesPaths     == {<<"0">>}

NoEnclosing == [d \in Defs |-> {}]
=============================================================================
