------------------------------ MODULE SweepProofs ------------------------------
(***************************************************************************)
(* For any probes, threads and deaths: what the supervisor reads after a   *)
(* worker's death, and that what was measured stays measured.              *)
(***************************************************************************)
EXTENDS SweepJournal, SequenceTheorems, FiniteSetTheorems, TLAPS

(* The probes a journal has lines of a kind for, read or not. *)
Of(j, kinds) == {j[i].probe : i \in {k \in DOMAIN j : j[k].is \in kinds}}
Kinds        == {"announce", "result", "died", "piece", "cut", "split"}
Answers      == {"result", "died", "cut"}

Typed ==
  /\ journal \in Seq(Lines)
  /\ cur \in [Threads -> Probes] /\ DOMAIN pc = Threads
  /\ left \subseteq Probes /\ recorded \subseteq Probes

(* What holds of the threads: one at most is between a record and its      *)
(* newline; a thread past its first line finds nothing left open but what  *)
(* is being written; and, of the probes in flight, those with no piece of  *)
(* a line are in a thread's hands.                                         *)
Writing(t) == pc[t] \in {"announced", "recorded"}
Lock       == phase = "running" => \A t, u \in Threads : Writing(t) /\ Writing(u) => t = u
LeftOpen   == phase = "running" /\ ~Unreadable(journal)
              /\ (\E t \in Threads : pc[t] \notin {"idle", "announce"})
                => (Open(journal) <=> ~Unlocked)
Measuring(t) == pc[t] \in {"announced", "measure", "record"}
Flight     == /\ phase = "running" =>
                   InFlight \ Mangled \subseteq {cur[t] : t \in {u \in Threads : Measuring(u)}}
              /\ phase = "died" =>
                   InFlight \ Mangled \subseteq {cur[t] : t \in Threads}

FlightInv == Typed /\ Lock /\ LeftOpen /\ Flight
-----------------------------------------------------------------------------
(* The file. *)
LEMMA LineFields ==
  ASSUME NEW is \in Kinds,
         NEW p \in Probes, NEW e \in BOOLEAN
  PROVE  /\ Line(is, p, e) \in Lines
         /\ Line(is, p, e).is = is /\ Line(is, p, e).probe = p /\ Line(is, p, e).ended = e
BY DEF Line, Lines, Kinds

(* What is written is a line of its own, or makes a piece of the last. *)
LEMMA Written ==
  ASSUME NEW j \in Seq(Lines), NEW is \in Kinds,
         NEW p \in Probes, NEW e \in BOOLEAN
  PROVE  LET w == Write(j, is, p, e) IN
         /\ w \in Seq(Lines)
         /\ Unreadable(j) => w = j
         /\ ~Unreadable(j) /\ Open(j) =>
              /\ Len(j) \in Nat /\ Len(j) > 0 /\ Len(w) = Len(j)
              /\ \A i \in 1 .. Len(j) - 1 : w[i] = j[i]
              /\ w[Len(j)].is = "piece" /\ w[Len(j)].probe = j[Len(j)].probe
              /\ w[Len(j)].ended = e
         /\ ~Unreadable(j) /\ ~Open(j) =>
              /\ Len(j) \in Nat /\ Len(w) = Len(j) + 1
              /\ \A i \in 1 .. Len(j) : w[i] = j[i]
              /\ w[Len(j) + 1] = Line(is, p, e)
<1> DEFINE w == Write(j, is, p, e)
<1>0. Len(j) \in Nat
  OBVIOUS
<1>1. CASE Unreadable(j)
  BY <1>1 DEF Write
<1>2. CASE ~Unreadable(j) /\ Open(j)
  <2> DEFINE l == Line("piece", j[Len(j)].probe, e)
  <2>1. Len(j) > 0 /\ Len(j) \in 1 .. Len(j) /\ j[Len(j)] \in Lines
    BY <1>2 DEF Open
  <2>2. w = [j EXCEPT ![Len(j)] = l]
    BY <1>2 DEF Write
  <2>3. l \in Lines /\ l.is = "piece" /\ l.probe = j[Len(j)].probe /\ l.ended = e
    BY <2>1, LineFields DEF Lines, Kinds
  <2> HIDE DEF l
  <2>4. /\ w \in Seq(Lines) /\ Len(w) = Len(j)
        /\ \A i \in 1 .. Len(j) : w[i] = IF i = Len(j) THEN l ELSE j[i]
    BY <2>1, <2>2, <2>3, ExceptSeq
  <2> HIDE DEF w
  <2> QED
    BY <1>2, <2>1, <2>3, <2>4 DEF w
<1>3. CASE ~Unreadable(j) /\ ~Open(j)
  <2>1. w = Append(j, Line(is, p, e))
    BY <1>3 DEF Write
  <2>2. Line(is, p, e) \in Lines
    BY LineFields
  <2> QED
    BY <1>3, <2>1, <2>2
<1> QED
  BY <1>1, <1>2, <1>3

(* A line that is ended keeps what it says. *)
LEMMA EndedLine ==
  ASSUME NEW j \in Seq(Lines), j # <<>>
  PROVE  /\ EndLine(j) \in Seq(Lines)
         /\ Len(EndLine(j)) = Len(j)
         /\ \A i \in 1 .. Len(j) : EndLine(j)[i].is = j[i].is /\ EndLine(j)[i].probe = j[i].probe
         /\ \A i \in 1 .. Len(j) - 1 : EndLine(j)[i] = j[i]
         /\ ~Unreadable(j) => EndLine(j)[Len(j)].ended = TRUE
<1>1. CASE Unreadable(j)
  BY <1>1 DEF EndLine
<1>2. CASE ~Unreadable(j)
  <2> DEFINE l == [j[Len(j)] EXCEPT !.ended = TRUE]
  <2>1. EndLine(j) = [j EXCEPT ![Len(j)] = l]
    BY <1>2 DEF EndLine
  <2>2. Len(j) \in 1 .. Len(j) /\ j[Len(j)] \in Lines
    OBVIOUS
  <2>3. l \in Lines /\ l.is = j[Len(j)].is /\ l.probe = j[Len(j)].probe /\ l.ended = TRUE
    BY <2>2 DEF Lines
  <2> HIDE DEF l
  <2>4. /\ EndLine(j) \in Seq(Lines) /\ Len(EndLine(j)) = Len(j)
        /\ \A i \in 1 .. Len(j) : EndLine(j)[i] = IF i = Len(j) THEN l ELSE j[i]
    BY <2>1, <2>2, <2>3, ExceptSeq
  <2> QED
    BY <2>2, <2>3, <2>4
<1> QED
  BY <1>1, <1>2

(* The same of what the lines say.  A line that is joined loses what it    *)
(* said, and shows whose it was.                                           *)
LEMMA WrittenSays ==
  ASSUME NEW j \in Seq(Lines), ~Unreadable(j), NEW is \in Kinds, NEW p \in Probes, NEW e \in BOOLEAN
  PROVE  LET w == Write(j, is, p, e) IN
         /\ w \in Seq(Lines) /\ w # <<>> /\ w[Len(w)].ended = e
         /\ Open(j) =>
              /\ ~Unreadable(w)
              /\ w[Len(w)].is = "piece"
              /\ j[Len(j)].probe \in Of(w, {"piece"})
              /\ Of(j, {"piece"}) \subseteq Of(w, {"piece"})
              /\ \A K \in SUBSET (Kinds \ {"piece"}) :
                   /\ Of(w, K) \subseteq Of(j, K)
                   /\ Of(j, K) \subseteq Of(w, K) \cup {j[Len(j)].probe}
                   /\ j[Len(j)].is \notin K => Of(w, K) = Of(j, K)
         /\ ~Open(j) =>
              /\ Unreadable(w) <=> is = "split"
              /\ w[Len(w)].is = is
              /\ \A K \in SUBSET Kinds : Of(w, K) = Of(j, K) \cup (IF is \in K THEN {p} ELSE {})
<1> DEFINE w == Write(j, is, p, e)
<1>1. w \in Seq(Lines) /\ Len(j) \in Nat /\ Len(w) \in Nat
  <2>1. w \in Seq(Lines)
    BY Written
  <2> HIDE DEF w
  <2> QED
    BY <2>1
<1>2. CASE Open(j)
  <2>1. /\ Len(j) > 0 /\ Len(w) = Len(j)
        /\ \A i \in 1 .. Len(j) - 1 : w[i] = j[i]
        /\ w[Len(j)].is = "piece" /\ w[Len(j)].probe = j[Len(j)].probe
        /\ w[Len(j)].ended = e
    BY <1>2, Written
  <2> HIDE DEF w
  <2>2. ~Unreadable(w)
    BY <1>1, <2>1 DEF Unreadable
  <2>3. j[Len(j)].probe \in Of(w, {"piece"})
    <3>1. Len(j) \in {k \in DOMAIN w : w[k].is \in {"piece"}}
      BY <1>1, <2>1
    <3> QED
      BY <2>1, <3>1 DEF Of
  <2>4. Of(j, {"piece"}) \subseteq Of(w, {"piece"})
    <3> SUFFICES ASSUME NEW i \in DOMAIN j, j[i].is = "piece"
                 PROVE  j[i].probe \in Of(w, {"piece"})
      BY DEF Of
    <3>1. i \in DOMAIN w /\ w[i].is = "piece" /\ w[i].probe = j[i].probe
      BY <1>1, <2>1
    <3> QED
      BY <3>1 DEF Of
  <2>5. ASSUME NEW K \in SUBSET (Kinds \ {"piece"})
        PROVE  /\ Of(w, K) \subseteq Of(j, K)
               /\ Of(j, K) \subseteq Of(w, K) \cup {j[Len(j)].probe}
               /\ j[Len(j)].is \notin K => Of(w, K) = Of(j, K)
    <3>1. \A i \in DOMAIN w : w[i].is \in K => i \in DOMAIN j /\ j[i].is \in K /\ j[i].probe = w[i].probe
      BY <1>1, <2>1
    <3>2. \A i \in DOMAIN j : j[i].is \in K /\ i # Len(j)
                               => i \in DOMAIN w /\ w[i].is \in K /\ w[i].probe = j[i].probe
      BY <1>1, <2>1
    <3> QED
      BY <3>1, <3>2 DEF Of
  <2>6. w # <<>> /\ w[Len(w)].is = "piece" /\ w[Len(w)].ended = e
    BY <1>1, <2>1
  <2> QED
    BY <1>1, <1>2, <2>2, <2>3, <2>4, <2>5, <2>6 DEF w
<1>3. CASE ~Open(j)
  <2> DEFINE l == Line(is, p, e)
  <2>1. /\ Len(w) = Len(j) + 1
        /\ \A i \in 1 .. Len(j) : w[i] = j[i]
        /\ w[Len(j) + 1] = l
    BY <1>3, Written
  <2>2. l.is = is /\ l.probe = p /\ l.ended = e
    BY LineFields
  <2> HIDE DEF w, l
  <2>3. Unreadable(w) <=> is = "split"
    BY <1>1, <2>1, <2>2 DEF Unreadable
  <2>4. ASSUME NEW K \in SUBSET Kinds
        PROVE  Of(w, K) = Of(j, K) \cup (IF is \in K THEN {p} ELSE {})
    <3>1. DOMAIN w = DOMAIN j \cup {Len(j) + 1} /\ Len(j) + 1 \notin DOMAIN j
      BY <1>1, <2>1
    <3>2. \A i \in DOMAIN j : w[i] = j[i]
      BY <1>1, <2>1
    <3> QED
      BY <2>1, <2>2, <3>1, <3>2 DEF Of
  <2>5. w # <<>> /\ w[Len(w)].is = is /\ w[Len(w)].ended = e
    BY <1>1, <2>1, <2>2
  <2> QED
    BY <1>1, <1>3, <2>3, <2>4, <2>5 DEF w
<1> QED
  BY <1>2, <1>3

LEMMA EndedSays ==
  ASSUME NEW j \in Seq(Lines), j # <<>>
  PROVE  /\ EndLine(j) \in Seq(Lines) /\ EndLine(j) # <<>>
         /\ \A K \in SUBSET Kinds : Of(EndLine(j), K) = Of(j, K)
         /\ Unreadable(EndLine(j)) <=> Unreadable(j)
         /\ ~Unreadable(j) => ~Open(EndLine(j))
<1> DEFINE w == EndLine(j)
<1>1. /\ w \in Seq(Lines) /\ Len(w) = Len(j) /\ Len(j) \in Nat /\ Len(j) > 0
      /\ \A i \in 1 .. Len(j) : w[i].is = j[i].is /\ w[i].probe = j[i].probe
      /\ ~Unreadable(j) => w[Len(j)].ended = TRUE
  <2>1. Len(j) \in Nat /\ Len(j) > 0
    OBVIOUS
  <2> QED
    BY <2>1, EndedLine
<1> HIDE DEF w
<1>2. DOMAIN w = DOMAIN j /\ \A i \in DOMAIN j : w[i].is = j[i].is /\ w[i].probe = j[i].probe
  BY <1>1
<1>3. Unreadable(w) <=> Unreadable(j)
  BY <1>2 DEF Unreadable
<1>4. \A K \in SUBSET Kinds : Of(w, K) = Of(j, K)
  BY <1>2 DEF Of
<1> QED
  BY <1>1, <1>3, <1>4 DEF w, Open
-----------------------------------------------------------------------------
(* The probes in flight put in an order: each of them, and nothing else.   *)
LEMMA OrderLists ==
  ASSUME NEW S \in SUBSET Probes, S # {}
  PROVE  /\ Order(S) \in Seq(S) /\ Len(Order(S)) \in Nat \ {0}
         /\ \A i \in 1 .. Len(Order(S)) : Order(S)[i] \in S
<1>1. IsFiniteSet(S)
  BY SweepAssumption, FS_Subset
<1>2. Cardinality(S) \in Nat /\ Cardinality(S) # 0 /\ ExistsBijection(1 .. Cardinality(S), S)
  BY <1>1, FS_CardinalityType, FS_EmptySet
<1> DEFINE n == Cardinality(S)
<1>3. \E s \in [1 .. n -> S] : \A p \in S : \E i \in DOMAIN s : s[i] = p
  BY <1>2 DEF ExistsBijection, Bijection, Injection, Surjection
<1>4. Order(S) \in [1 .. n -> S]
  BY <1>3 DEF Order
<1> HIDE DEF n
<1>5. n \in Nat /\ n # 0
  BY <1>2 DEF n
<1> QED
  BY <1>4, <1>5

(* What the supervisor names: nothing but what was in flight, on lines     *)
(* that are ended; what the journal said of results it says still, unless  *)
(* it was on the line that was left open.                                  *)
LEMMA Named ==
  ASSUME journal \in Seq(Lines), ~Unreadable(journal), NameInFlight
  PROVE  /\ journal' \in Seq(Lines)
         /\ ~Unreadable(journal') /\ ~Open(journal')
         /\ Of(journal', {"died"}) \subseteq Of(journal, {"died"}) \cup InFlight
         /\ (Open(journal) => journal[Len(journal)].is # "result")
              => Of(journal, {"result"}) \subseteq Of(journal', {"result"})
<1>1. InFlight \in SUBSET Probes /\ InFlight # {}
  <2>1. \A i \in DOMAIN journal : journal[i].probe \in Probes
    <3>1. \A i \in DOMAIN journal : journal[i] \in Lines
      OBVIOUS
    <3> QED
      BY <3>1 DEF Lines
  <2>2. InFlight \subseteq Of(journal, {"announce"})
    BY DEF InFlight, ReadableKind, Of
  <2>3. Of(journal, {"announce"}) \subseteq Probes
    BY <2>1 DEF Of
  <2> QED
    BY <2>2, <2>3 DEF NameInFlight
<1>0. PICK e \in BOOLEAN : e = TRUE
  OBVIOUS
<1> DEFINE names == Order(InFlight)
           w     == Write(journal, "died", names[1], e)
           rest  == [i \in 1 .. Len(names) - 1 |-> Line("died", names[i + 1], e)]
<1>2. /\ Len(names) \in Nat \ {0}
      /\ \A i \in 1 .. Len(names) : names[i] \in InFlight /\ names[i] \in Probes
  BY <1>1, OrderLists
<1>3. journal' = w \o rest
  BY <1>0 DEF NameInFlight
<1> HIDE DEF names
<1>K. "died" \in Kinds /\ {"died"} \in SUBSET (Kinds \ {"piece"}) /\ {"result"} \in SUBSET (Kinds \ {"piece"})
      /\ {"died"} \in SUBSET Kinds /\ {"result"} \in SUBSET Kinds
  BY DEF Kinds
<1>4. /\ w \in Seq(Lines) /\ w # <<>> /\ w[Len(w)].ended = e /\ ~Unreadable(w)
      /\ Of(w, {"died"}) \subseteq Of(journal, {"died"}) \cup InFlight
      /\ (Open(journal) => journal[Len(journal)].is # "result")
            => Of(journal, {"result"}) \subseteq Of(w, {"result"})
  <2>1. names[1] \in InFlight /\ names[1] \in Probes
    BY <1>2
  <2>3. w \in Seq(Lines) /\ w # <<>> /\ w[Len(w)].ended = e
    BY <1>K, <2>1, WrittenSays
  <2> HIDE DEF w
  <2>4. CASE Open(journal)
    <3>1. /\ ~Unreadable(w)
          /\ \A K \in SUBSET (Kinds \ {"piece"}) :
               /\ Of(w, K) \subseteq Of(journal, K)
               /\ journal[Len(journal)].is \notin K => Of(w, K) = Of(journal, K)
      BY <1>K, <2>1, <2>4, WrittenSays DEF w
    <3>2. /\ Of(w, {"died"}) \subseteq Of(journal, {"died"})
          /\ journal[Len(journal)].is \notin {"result"} => Of(w, {"result"}) = Of(journal, {"result"})
      BY <1>K, <3>1
    <3> QED
      BY <2>3, <2>4, <3>1, <3>2
  <2>5. CASE ~Open(journal)
    <3>1. /\ ~Unreadable(w)
          /\ \A K \in SUBSET Kinds : Of(w, K) = Of(journal, K) \cup (IF "died" \in K THEN {names[1]} ELSE {})
      BY <1>K, <2>1, <2>5, WrittenSays DEF w
    <3>2. Of(w, {"died"}) = Of(journal, {"died"}) \cup {names[1]} /\ Of(w, {"result"}) = Of(journal, {"result"})
      BY <1>K, <3>1
    <3> QED
      BY <2>1, <2>3, <3>1, <3>2
  <2> QED
    BY <2>4, <2>5
<1> HIDE DEF w
<1>5. /\ rest \in Seq(Lines) /\ Len(rest) = Len(names) - 1
      /\ \A i \in 1 .. Len(rest) : rest[i].is = "died" /\ rest[i].probe \in InFlight /\ rest[i].ended = e
  <2>1. \A i \in 1 .. Len(names) - 1 : names[i + 1] \in InFlight /\ names[i + 1] \in Probes
    BY <1>2
  <2>2. \A i \in 1 .. Len(names) - 1 :
          /\ Line("died", names[i + 1], e) \in Lines
          /\ Line("died", names[i + 1], e).is = "died"
          /\ Line("died", names[i + 1], e).probe = names[i + 1]
          /\ Line("died", names[i + 1], e).ended = e
    BY <1>K, <2>1, LineFields
  <2>3. Len(names) - 1 \in Nat
    BY <1>2
  <2>4. rest \in [1 .. Len(names) - 1 -> Lines]
    BY <2>2
  <2>5. rest \in Seq(Lines) /\ Len(rest) = Len(names) - 1
    <3> DEFINE n == Len(names) - 1
    <3> HIDE DEF rest, n
    <3>1. n \in Nat /\ rest \in [1 .. n -> Lines]
      BY <2>3, <2>4 DEF n
    <3>2. rest \in Seq(Lines) /\ Len(rest) = n
      BY <3>1
    <3> QED
      BY <3>2 DEF n
  <2> QED
    BY <2>1, <2>2, <2>5
<1> HIDE DEF rest
<1>6. /\ journal' \in Seq(Lines) /\ Len(journal') = Len(w) + Len(rest)
      /\ Len(w) \in Nat /\ Len(w) > 0 /\ Len(rest) \in Nat
      /\ \A i \in 1 .. Len(w) : journal'[i] = w[i]
      /\ \A i \in 1 .. Len(rest) : journal'[Len(w) + i] = rest[i]
  BY <1>3, <1>4, <1>5, ConcatProperties
<1>7. \A i \in DOMAIN journal' :
        \/ i \in DOMAIN w /\ journal'[i] = w[i]
        \/ /\ journal'[i].is = "died" /\ journal'[i].probe \in InFlight /\ journal'[i].ended = e
  <2> SUFFICES ASSUME NEW i \in 1 .. Len(w) + Len(rest), i > Len(w)
               PROVE  /\ journal'[i].is = "died" /\ journal'[i].probe \in InFlight
                      /\ journal'[i].ended = e
    BY <1>4, <1>6
  <2>1. i - Len(w) \in 1 .. Len(rest) /\ i = Len(w) + (i - Len(w))
    BY <1>6
  <2>2. journal'[i] = rest[i - Len(w)]
    BY <1>6, <2>1
  <2> QED
    BY <1>5, <2>1, <2>2
<1>8. ~Unreadable(journal')
  BY <1>4, <1>7 DEF Unreadable
<1>9. ~Open(journal')
  <2>1. Len(journal') \in DOMAIN journal' /\ (Len(journal') \in DOMAIN w => Len(journal') = Len(w))
    BY <1>4, <1>6
  <2> QED
    BY <1>0, <1>4, <1>7, <2>1 DEF Open
<1>10. Of(journal', {"died"}) \subseteq Of(w, {"died"}) \cup InFlight
  BY <1>7 DEF Of
<1>11. Of(w, {"result"}) \subseteq Of(journal', {"result"})
  <2>1. \A i \in DOMAIN w : i \in DOMAIN journal' /\ journal'[i] = w[i]
    BY <1>4, <1>6
  <2> QED
    BY <2>1 DEF Of
<1> QED
  BY <1>4, <1>6, <1>8, <1>9, <1>10, <1>11
-----------------------------------------------------------------------------
(* The sets the supervisor reads, of any journal. *)
Alive(j) == IF Unreadable(j) THEN {} ELSE (Of(j, {"announce"}) \ Of(j, Answers)) \ Of(j, {"piece"})

LEMMA AliveIs ==
  InFlight \ Mangled = Alive(journal)
BY DEF Alive, InFlight, Mangled, Results, ReadableKind, Of, Answers

(* A record puts no probe in flight but the one announced, and a result    *)
(* takes its own out, unless it joins a line.                              *)
LEMMA AliveWritten ==
  ASSUME NEW j \in Seq(Lines), NEW is \in Kinds, NEW p \in Probes, NEW e \in BOOLEAN
  PROVE  /\ is = "announce" => Alive(Write(j, is, p, e)) \subseteq Alive(j) \cup {p}
         /\ is # "announce" => Alive(Write(j, is, p, e)) \subseteq Alive(j)
         /\ is \in Answers /\ ~Open(j) => p \notin Alive(Write(j, is, p, e))
<1> DEFINE w == Write(j, is, p, e)
<1>K. /\ {"announce"} \in SUBSET (Kinds \ {"piece"}) /\ Answers \in SUBSET (Kinds \ {"piece"})
      /\ {"announce"} \in SUBSET Kinds /\ Answers \in SUBSET Kinds /\ {"piece"} \in SUBSET Kinds
      /\ "announce" \notin Answers
  BY DEF Kinds, Answers
<1>1. CASE Unreadable(j)
  BY <1>1 DEF Write, Alive
<1>2. CASE ~Unreadable(j) /\ Open(j)
  <2>1. /\ ~Unreadable(w)
        /\ j[Len(j)].probe \in Of(w, {"piece"})
        /\ Of(j, {"piece"}) \subseteq Of(w, {"piece"})
        /\ \A K \in SUBSET (Kinds \ {"piece"}) :
             /\ Of(w, K) \subseteq Of(j, K)
             /\ Of(j, K) \subseteq Of(w, K) \cup {j[Len(j)].probe}
    BY <1>2, WrittenSays
  <2> HIDE DEF w
  <2>2. /\ Of(w, {"announce"}) \subseteq Of(j, {"announce"})
        /\ Of(j, Answers) \subseteq Of(w, Answers) \cup {j[Len(j)].probe}
    BY <1>K, <2>1
  <2>3. Alive(w) \subseteq Alive(j)
    BY <1>2, <2>1, <2>2 DEF Alive
  <2> QED
    BY <1>2, <2>3 DEF w
<1>3. CASE ~Unreadable(j) /\ ~Open(j)
  <2>1. \A K \in SUBSET Kinds : Of(w, K) = Of(j, K) \cup (IF is \in K THEN {p} ELSE {})
    BY <1>3, WrittenSays
  <2> HIDE DEF w
  <2>2. /\ Of(w, {"announce"}) = Of(j, {"announce"}) \cup (IF is = "announce" THEN {p} ELSE {})
        /\ Of(w, Answers) = Of(j, Answers) \cup (IF is \in Answers THEN {p} ELSE {})
        /\ Of(j, {"piece"}) \subseteq Of(w, {"piece"})
    BY <1>K, <2>1
  <2> QED
    BY <1>3, <2>2 DEF Alive, w
<1> QED
  BY <1>1, <1>2, <1>3

LEMMA AliveEnded ==
  ASSUME NEW j \in Seq(Lines), j # <<>>
  PROVE  Alive(EndLine(j)) = Alive(j)
<1>1. {"announce"} \in SUBSET Kinds /\ Answers \in SUBSET Kinds /\ {"piece"} \in SUBSET Kinds
  BY DEF Kinds, Answers
<1> QED
  BY <1>1, EndedSays DEF Alive
-----------------------------------------------------------------------------
(* A dying worker leaves the journal, or one torn record more. *)
LEMMA DyingWrites ==
  ASSUME Die
  PROVE  /\ phase' = "died" /\ cur' = cur /\ recorded' = recorded
         /\ left' = {} /\ pc' = Nobody
         /\ "newline" \in Tears \/ Unlocked
         /\ \/ journal' = journal
            \/ \E t \in Threads, is \in {"piece", "cut", "split"} :
                 /\ Unlocked /\ (is = "split" => "char" \in Tears)
                 /\ journal' = Write(journal, is, cur[t], FALSE)
<1>1. \/ journal' = journal
      \/ \E t \in Threads, is \in {"piece", "cut", "split"} :
           /\ Unlocked /\ (is = "split" => "char" \in Tears)
           /\ journal' = Write(journal, is, cur[t], FALSE)
  <2> DEFINE begun == {t \in Threads : Unlocked /\ pc[t] \in {"announce", "record"}}
             leaves(t) == (IF "short" \in Tears THEN {"piece"} ELSE {})
                   \cup (IF "last" \in Tears /\ pc[t] = "record" THEN {"cut"} ELSE {})
                   \cup (IF "char" \in Tears THEN {"split"} ELSE {})
  <2>1. journal' \in {journal} \cup UNION {{Write(journal, is, cur[t], FALSE) : is \in leaves(t)} : t \in begun}
    BY DEF Die, Torn
  <2>2. \A t \in begun : \A is \in leaves(t) :
          /\ t \in Threads /\ is \in {"piece", "cut", "split"}
          /\ Unlocked /\ (is = "split" => "char" \in Tears)
    OBVIOUS
  <2> HIDE DEF begun, leaves
  <2>3. CASE journal' # journal
    <3>1. PICK t \in begun : journal' \in {Write(journal, is, cur[t], FALSE) : is \in leaves(t)}
      BY <2>1, <2>3
    <3>2. PICK is \in leaves(t) : journal' = Write(journal, is, cur[t], FALSE)
      BY <3>1
    <3> QED
      BY <2>2, <3>2
  <2> QED
    BY <2>3
<1> QED
  BY <1>1 DEF Die

(* Every step is of one of these kinds. *)
LEMMA Steps ==
  ASSUME Next
  PROVE  \/ Finish \/ NameInFlight \/ StartWorker \/ Judge \/ EndWorker
         \/ phase = "running" /\ Die
         \/ \E t \in Threads : \/ \E p \in Probes : Take(t, p)
                               \/ SayRecord(t) \/ SayNewline(t) \/ Measure(t)
BY DEF Next, Supervisor, Thread, StallKill, CapKill, Killed, FatalSignal

LEMMA TypedInit == Init => Typed
BY DEF Init, Typed, Nobody, Lines

(* There is a line to end. *)
LEMMA NewlineEnds ==
  ASSUME Typed, LeftOpen, NEW t \in Threads, SayNewline(t)
  PROVE  journal \in Seq(Lines) /\ journal # <<>> /\ journal' = EndLine(journal)
<1>1. phase = "running" /\ Writing(t) /\ ~Unlocked /\ pc[t] \notin {"idle", "announce"}
  BY DEF SayNewline, Unlocked, Writing
<1>2. journal # <<>>
  BY <1>1 DEF LeftOpen, Open, Unreadable
<1> QED
  BY <1>2 DEF Typed, SayNewline

LEMMA TypedStep ==
  ASSUME Typed, LeftOpen, Next
  PROVE  Typed'
<1>1. CASE Finish \/ StartWorker \/ Judge \/ EndWorker
  BY <1>1 DEF Typed, Finish, StartWorker, Judge, EndWorker, workerVars, Nobody
<1>2. CASE NameInFlight
  <2>1. journal' \in Seq(Lines)
    <3>1. CASE Unreadable(journal)
      BY <1>2, <3>1 DEF NameInFlight, InFlight, ReadableKind
    <3> QED
      BY <1>2, <3>1, Named DEF Typed
  <2> QED
    BY <1>2, <2>1 DEF Typed, NameInFlight, workerVars
<1>3. CASE Die
  <2>1. journal' \in Seq(Lines)
    <3>1. CASE journal' # journal
      <4>1. PICK t \in Threads, is \in {"piece", "cut", "split"} : journal' = Write(journal, is, cur[t], FALSE)
        BY <1>3, <3>1, DyingWrites
      <4>2. PICK e \in BOOLEAN : e = FALSE
        OBVIOUS
      <4>3. journal' = Write(journal, is, cur[t], e) /\ cur[t] \in Probes /\ is \in Kinds
        BY <4>1, <4>2 DEF Typed, Kinds
      <4> QED
        BY <4>3, Written DEF Typed
    <3> QED
      BY <3>1 DEF Typed
  <2> QED
    BY <1>3, <2>1, DyingWrites DEF Typed, Nobody
<1>4. ASSUME NEW t \in Threads, NEW p \in Probes, Take(t, p)
      PROVE  Typed'
  BY <1>4 DEF Typed, Take, Go
<1>5. ASSUME NEW t \in Threads, SayRecord(t)
      PROVE  Typed'
  <2>1. PICK is \in {"announce", "result"} : journal' = Write(journal, is, cur[t], FALSE)
    BY <1>5 DEF SayRecord
  <2>2. PICK e \in BOOLEAN : e = FALSE
    OBVIOUS
  <2>3. journal' = Write(journal, is, cur[t], e) /\ cur[t] \in Probes /\ is \in Kinds
    BY <2>1, <2>2 DEF Typed, Kinds
  <2>4. journal' \in Seq(Lines)
    BY <2>3, Written DEF Typed
  <2>5. recorded' \subseteq Probes
    BY <1>5, <2>3 DEF Typed, SayRecord
  <2> QED
    BY <1>5, <2>4, <2>5 DEF Typed, SayRecord, Go
<1>6. ASSUME NEW t \in Threads, SayNewline(t)
      PROVE  Typed'
  <2>1. journal' \in Seq(Lines)
    BY <1>6, NewlineEnds, EndedLine
  <2> QED
    BY <1>6, <2>1 DEF Typed, SayNewline, Go
<1>7. ASSUME NEW t \in Threads, Measure(t)
      PROVE  Typed'
  BY <1>7 DEF Typed, Measure, Go
<1> QED
  BY <1>1, <1>2, <1>3, <1>4, <1>5, <1>6, <1>7, Steps
-----------------------------------------------------------------------------
LEMMA FlightInit == Init => FlightInv
BY TypedInit DEF Init, FlightInv, Lock, LeftOpen, Flight

LEMMA LockStep ==
  ASSUME FlightInv, Next
  PROVE  Lock'
<1> USE DEF FlightInv
<1>1. CASE Finish \/ NameInFlight \/ StartWorker \/ Judge \/ EndWorker
  BY <1>1 DEF Finish, NameInFlight, StartWorker, Judge, EndWorker, workerVars, Nobody, Lock, Writing
<1>2. CASE Die
  BY <1>2, DyingWrites DEF Lock
<1>3. ASSUME NEW t \in Threads, NEW p \in Probes, Take(t, p)
      PROVE  Lock'
  BY <1>3 DEF Take, Go, Lock, Writing, Typed
<1>4. ASSUME NEW t \in Threads, SayRecord(t)
      PROVE  Lock'
  BY <1>4 DEF SayRecord, Go, Lock, Writing, Unlocked, Typed
<1>5. ASSUME NEW t \in Threads, SayNewline(t) \/ Measure(t)
      PROVE  Lock'
  BY <1>5 DEF SayNewline, Measure, Go, Lock, Writing, Typed
<1> QED
  BY <1>1, <1>2, <1>3, <1>4, <1>5, Steps

(* What a record leaves open, its newline ends. *)
LEMMA LeftOpenStep ==
  ASSUME FlightInv, Next
  PROVE  LeftOpen'
<1> USE DEF FlightInv
<1>1. CASE Finish \/ NameInFlight \/ StartWorker \/ Judge \/ EndWorker
  BY <1>1 DEF Finish, NameInFlight, StartWorker, Judge, EndWorker, workerVars, Nobody, LeftOpen
<1>2. CASE Die
  BY <1>2, DyingWrites DEF LeftOpen
<1>3. ASSUME NEW t \in Threads, NEW p \in Probes, Take(t, p)
      PROVE  LeftOpen'
  BY <1>3 DEF Take, Go, LeftOpen, Unlocked, Typed
<1>4. ASSUME NEW t \in Threads, SayRecord(t)
      PROVE  LeftOpen'
  <2>1. ~Unlocked'
    BY <1>4 DEF SayRecord, Go, Unlocked, Typed
  <2>2. PICK is \in {"announce", "result"} : journal' = Write(journal, is, cur[t], FALSE)
    BY <1>4 DEF SayRecord
  <2>3. PICK e \in BOOLEAN : e = FALSE
    OBVIOUS
  <2>4. journal' = Write(journal, is, cur[t], e) /\ cur[t] \in Probes /\ is \in Kinds
    BY <2>2, <2>3 DEF Typed, Kinds
  <2>5. CASE Unreadable(journal)
    BY <2>4, <2>5 DEF Write, LeftOpen
  <2>6. CASE ~Unreadable(journal)
    <3>1. journal' # <<>> /\ journal'[Len(journal')].ended = e
      BY <2>4, <2>6, WrittenSays DEF Typed
    <3> QED
      BY <2>1, <2>3, <3>1 DEF Open, LeftOpen
  <2> QED
    BY <2>5, <2>6
<1>5. ASSUME NEW t \in Threads, SayNewline(t)
      PROVE  LeftOpen'
  <2>1. Unlocked'
    BY <1>5 DEF SayNewline, Go, Unlocked, Lock, Writing, Typed
  <2>2. ~Unreadable(journal') => ~Open(journal')
    BY <1>5, NewlineEnds, EndedSays
  <2> QED
    BY <2>1, <2>2 DEF LeftOpen
<1>6. ASSUME NEW t \in Threads, Measure(t)
      PROVE  LeftOpen'
  BY <1>6 DEF Measure, Go, LeftOpen, Unlocked, Typed
<1> QED
  BY <1>1, <1>2, <1>3, <1>4, <1>5, <1>6, Steps

LEMMA FlightStep ==
  ASSUME FlightInv, Next
  PROVE  Flight'
<1> USE DEF FlightInv
<1>0. (InFlight \ Mangled)' = Alive(journal')
  BY DEF Alive, InFlight, Mangled, Results, ReadableKind, Of, Answers
<1> DEFINE hands == {cur[t] : t \in {u \in Threads : Measuring(u)}}
<1>1. CASE Finish \/ Judge \/ EndWorker \/ NameInFlight
  BY <1>1 DEF Finish, Judge, EndWorker, NameInFlight, Flight
<1>2. CASE StartWorker
  BY <1>2 DEF StartWorker, Flight, InFlight, Results, Mangled
<1>3. CASE phase = "running" /\ Die
  <2>1. Alive(journal) \subseteq {cur[t] : t \in Threads}
    BY <1>3, AliveIs DEF Flight
  <2>2. Alive(journal') \subseteq Alive(journal)
    <3>1. CASE journal' # journal
      <4>1. PICK t \in Threads, is \in {"piece", "cut", "split"} : journal' = Write(journal, is, cur[t], FALSE)
        BY <1>3, <3>1, DyingWrites
      <4>2. PICK e \in BOOLEAN : e = FALSE
        OBVIOUS
      <4>3. journal' = Write(journal, is, cur[t], e) /\ cur[t] \in Probes /\ is \in Kinds /\ is # "announce"
        BY <4>1, <4>2 DEF Typed, Kinds
      <4> QED
        BY <4>3, AliveWritten DEF Typed
    <3> QED
      BY <3>1
  <2> QED
    BY <1>0, <1>3, <2>1, <2>2, DyingWrites DEF Flight
<1>4. ASSUME NEW t \in Threads, NEW p \in Probes, Take(t, p)
      PROVE  Flight'
  <2>1. /\ phase = "running" /\ phase' = "running" /\ journal' = journal
        /\ \A u \in Threads : Measuring(u) => Measuring(u)' /\ cur'[u] = cur[u]
    BY <1>4 DEF Take, Go, Measuring, Typed
  <2>2. InFlight \ Mangled \subseteq hands /\ (InFlight \ Mangled)' = InFlight \ Mangled
    BY <1>0, <2>1, AliveIs DEF Flight
  <2>3. hands \subseteq hands'
    BY <2>1
  <2> QED
    BY <2>1, <2>2, <2>3 DEF Flight
<1>5. ASSUME NEW t \in Threads, SayRecord(t)
      PROVE  Flight'
  <2>0. PICK e \in BOOLEAN : e = FALSE
    OBVIOUS
  <2>1. phase = "running" /\ phase' = "running" /\ cur' = cur /\ cur[t] \in Probes /\ Unlocked
    BY <1>5 DEF SayRecord, Typed
  <2>2. Alive(journal) \subseteq hands
    BY <2>1, AliveIs DEF Flight
  <2>3. CASE pc[t] = "announce"
    <3>1. journal' = Write(journal, "announce", cur[t], e) /\ "announce" \in Kinds
      BY <1>5, <2>0, <2>3 DEF SayRecord, Kinds
    <3>2. Alive(journal') \subseteq Alive(journal) \cup {cur[t]}
      BY <2>1, <3>1, AliveWritten DEF Typed
    <3>3. Measuring(t)' /\ \A u \in Threads : Measuring(u) => Measuring(u)'
      BY <1>5, <2>3 DEF SayRecord, Go, Measuring, Typed
    <3>4. hands \cup {cur[t]} \subseteq hands'
      BY <2>1, <3>3
    <3> QED
      BY <1>0, <2>1, <2>2, <3>2, <3>4 DEF Flight
  <2>4. CASE pc[t] = "record"
    <3>1. journal' = Write(journal, "result", cur[t], e) /\ "result" \in Kinds /\ "result" \in Answers
      BY <1>5, <2>0, <2>4 DEF SayRecord, Kinds, Answers
    <3>2. CASE Unreadable(journal)
      BY <1>0, <2>1, <3>1, <3>2 DEF Alive, Write, Flight
    <3>3. CASE ~Unreadable(journal)
      <4>1. ~Open(journal)
        BY <2>1, <2>4, <3>3 DEF LeftOpen
      <4>2. Alive(journal') \subseteq Alive(journal) /\ cur[t] \notin Alive(journal')
        BY <2>1, <3>1, <4>1, AliveWritten DEF Typed
      <4>3. \A u \in Threads : Measuring(u) /\ u # t => Measuring(u)'
        BY <1>5, <2>4 DEF SayRecord, Go, Measuring, Typed
      <4>4. hands \ {cur[t]} \subseteq hands'
        BY <2>1, <4>3
      <4> QED
        BY <1>0, <2>1, <2>2, <4>2, <4>4 DEF Flight
    <3> QED
      BY <3>2, <3>3
  <2> QED
    BY <1>5, <2>3, <2>4 DEF SayRecord
<1>6. ASSUME NEW t \in Threads, SayNewline(t) \/ Measure(t)
      PROVE  Flight'
  <2>1. Alive(journal') = Alive(journal)
    BY <1>6, NewlineEnds, AliveEnded DEF Measure
  <2>2. /\ phase = "running" /\ phase' = "running" /\ cur' = cur
        /\ \A u \in Threads : Measuring(u) => Measuring(u)'
    BY <1>6 DEF SayNewline, Measure, Go, Measuring, Typed
  <2>3. hands \subseteq hands'
    BY <2>2
  <2> QED
    BY <1>0, <2>1, <2>2, <2>3, AliveIs DEF Flight
<1> QED
  BY <1>1, <1>2, <1>3, <1>4, <1>5, <1>6, Steps
-----------------------------------------------------------------------------
LEMMA FlightInvHolds == Spec => []FlightInv
<1>1. FlightInv /\ [Next]_vars => FlightInv'
  <2> SUFFICES ASSUME FlightInv, [Next]_vars PROVE FlightInv'
    OBVIOUS
  <2>1. CASE Next
    BY <2>1, TypedStep, LockStep, LeftOpenStep, FlightStep DEF FlightInv
  <2>2. CASE UNCHANGED vars
    BY <2>2 DEF vars, workerVars, FlightInv, Typed, Lock, Writing, LeftOpen, Unlocked, Flight,
                Measuring, InFlight, Results, Mangled
  <2> QED
    BY <2>1, <2>2
<1> QED
  BY <1>1, FlightInit, PTL DEF Spec

(* When a worker has died, the probes the supervisor finds in flight are   *)
(* no more than the threads, but for those of which a line was cut short   *)
(* or joined (supervise and read).                                         *)
THEOREM InFlightPerThreadAlways == Spec => []InFlightPerThread
<1>1. FlightInv => InFlightPerThread
  <2> SUFFICES ASSUME FlightInv, phase = "died"
               PROVE  Cardinality(InFlight \ Mangled) <= Cardinality(Threads)
    BY DEF InFlightPerThread
  <2> DEFINE S    == {cur[t] : t \in Threads}
             rest == InFlight \ Mangled
  <2>1. rest \subseteq S
    BY DEF FlightInv, Flight
  <2>2. cur \in Surjection(Threads, S)
    BY DEF FlightInv, Typed, Surjection
  <2>3. IsFiniteSet(Threads)
    BY SweepAssumption
  <2>4. Cardinality(Threads) \in Nat
    BY <2>3, FS_CardinalityType
  <2> HIDE DEF S, rest
  <2>5. IsFiniteSet(S) /\ Cardinality(S) <= Cardinality(Threads)
    BY <2>2, <2>3, FS_Surjection
  <2>6. Cardinality(S) \in Nat
    BY <2>5, FS_CardinalityType
  <2>7. IsFiniteSet(rest) /\ Cardinality(rest) <= Cardinality(S)
    BY <2>1, <2>5, FS_Subset
  <2>8. Cardinality(rest) \in Nat
    BY <2>7, FS_CardinalityType
  <2>9. Cardinality(rest) <= Cardinality(Threads)
    BY <2>4, <2>5, <2>6, <2>7, <2>8
  <2> QED
    BY <2>9 DEF rest
<1> QED
  BY <1>1, FlightInvHolds, PTL
-----------------------------------------------------------------------------
(* With no newline lost and no character cut, what was measured stays so:  *)
(* a line left open while nobody writes is a torn one; a whole result has  *)
(* its line; and nobody named, and nothing measured, is handed out.        *)
WholeLines == "newline" \notin Tears /\ "char" \notin Tears

TornTail  == Open(journal) /\ Unlocked => journal[Len(journal)].is \in {"piece", "cut"}
Kept      == recorded \subseteq Of(journal, {"result"})
Blameless == Of(journal, {"died"}) \cap recorded = {}
Untaken   == phase = "running" =>
               /\ left \cap recorded = {} /\ left \cap Of(journal, {"died"}) = {}
               /\ \A t \in Threads : pc[t] # "idle" => cur[t] \notin left \cup Of(journal, {"died"})

SettledInv ==
  /\ FlightInv
  /\ ~Unreadable(journal)
  /\ phase # "running" => pc = Nobody
  /\ TornTail /\ Kept /\ Blameless /\ Untaken

LEMMA RecordWritten ==
  ASSUME SettledInv, Unlocked, NEW is \in Kinds, is \notin {"split", "died"},
         NEW p \in Probes, NEW e \in BOOLEAN, journal' = Write(journal, is, p, e)
  PROVE  /\ ~Unreadable(journal')
         /\ Of(journal, {"result"}) \subseteq Of(journal', {"result"})
         /\ Of(journal', {"died"}) \subseteq Of(journal, {"died"})
         /\ journal'[Len(journal')].is \in {"piece", is}
         /\ is = "result" /\ ~Open(journal) => p \in Of(journal', {"result"})
<1>K. /\ {"died"} \in SUBSET (Kinds \ {"piece"}) /\ {"result"} \in SUBSET (Kinds \ {"piece"})
      /\ {"died"} \in SUBSET Kinds /\ {"result"} \in SUBSET Kinds
  BY DEF Kinds
<1>1. journal \in Seq(Lines) /\ ~Unreadable(journal)
  BY DEF SettledInv, FlightInv, Typed
<1>2. CASE Open(journal)
  <2>1. journal[Len(journal)].is \notin {"result"}
    BY <1>2 DEF SettledInv, TornTail
  <2>2. /\ ~Unreadable(journal') /\ journal'[Len(journal')].is = "piece"
        /\ \A K \in SUBSET (Kinds \ {"piece"}) :
             /\ Of(journal', K) \subseteq Of(journal, K)
             /\ journal[Len(journal)].is \notin K => Of(journal', K) = Of(journal, K)
    BY <1>1, <1>2, WrittenSays
  <2> QED
    BY <1>K, <1>2, <2>1, <2>2
<1>3. CASE ~Open(journal)
  <2>1. /\ Unreadable(journal') <=> is = "split"
        /\ journal'[Len(journal')].is = is
        /\ \A K \in SUBSET Kinds : Of(journal', K) = Of(journal, K) \cup (IF is \in K THEN {p} ELSE {})
    BY <1>1, <1>3, WrittenSays
  <2>2. /\ Of(journal', {"died"}) = Of(journal, {"died"}) \cup (IF is \in {"died"} THEN {p} ELSE {})
        /\ Of(journal', {"result"}) = Of(journal, {"result"}) \cup (IF is \in {"result"} THEN {p} ELSE {})
    BY <1>K, <2>1
  <2> QED
    BY <1>3, <2>1, <2>2
<1> QED
  BY <1>2, <1>3

LEMMA Flags ==
  ASSUME ~Unreadable(journal)
  PROVE  /\ Of(journal, {"result"}) \subseteq Results /\ Of(journal, {"died"}) \subseteq Results
         /\ InFlight \cap Results = {}
BY DEF Results, InFlight, ReadableKind, Of

LEMMA SettledInit == Init => SettledInv
<1> SUFFICES ASSUME Init PROVE SettledInv
  OBVIOUS
<1>1. Of(journal, {"died"}) = {} /\ Of(journal, {"result"}) = {} /\ ~Unreadable(journal) /\ ~Open(journal)
  BY DEF Init, Of, Unreadable, Open
<1> QED
  BY <1>1, FlightInit DEF Init, SettledInv, TornTail, Kept, Blameless, Untaken

LEMMA SettledStep ==
  ASSUME WholeLines, SettledInv, Next
  PROVE  SettledInv'
<1>0. FlightInv' /\ FlightInv
  BY TypedStep, LockStep, LeftOpenStep, FlightStep DEF FlightInv, SettledInv
<1>F. Typed /\ Lock /\ LeftOpen
  BY <1>0 DEF FlightInv
<1> USE DEF SettledInv
<1>1. CASE Finish \/ Judge
  BY <1>0, <1>1 DEF Finish, Judge, workerVars, TornTail, Unlocked, Kept, Blameless, Untaken
<1>2. CASE EndWorker
  BY <1>0, <1>2 DEF EndWorker, workerVars, TornTail, Unlocked, Kept, Blameless, Untaken
<1>3. CASE StartWorker
  <2>1. UNCHANGED <<journal, cur, recorded>> /\ left' = Probes \ Results /\ phase' = "running" /\ pc' = Nobody
        /\ pc = Nobody
    BY <1>3 DEF StartWorker
  <2>2. left' \cap recorded = {} /\ left' \cap Of(journal, {"died"}) = {}
    BY <2>1, Flags DEF Kept
  <2> QED
    BY <1>0, <2>1, <2>2 DEF Nobody, TornTail, Unlocked, Kept, Blameless, Untaken
<1>4. CASE NameInFlight
  <2>1. phase = "look" /\ pc = Nobody /\ UNCHANGED <<phase, workerVars, recorded>>
    BY <1>4 DEF NameInFlight
  <2>2. Unlocked
    BY <2>1 DEF Unlocked, Nobody
  <2>3. Open(journal) => journal[Len(journal)].is # "result"
    BY <2>2 DEF TornTail
  <2>4. /\ ~Unreadable(journal') /\ ~Open(journal')
        /\ Of(journal', {"died"}) \subseteq Of(journal, {"died"}) \cup InFlight
        /\ Of(journal, {"result"}) \subseteq Of(journal', {"result"})
    BY <1>4, <1>F, <2>3, Named DEF Typed
  <2>5. Kept' /\ Blameless'
    BY <2>1, <2>4, Flags DEF Kept, Blameless
  <2> QED
    BY <1>0, <2>1, <2>4, <2>5 DEF workerVars, TornTail, Untaken
<1>5. CASE phase = "running" /\ Die
  <2>1. phase' = "died" /\ recorded' = recorded /\ pc' = Nobody /\ Unlocked
    BY <1>5, DyingWrites DEF WholeLines
  <2>2. CASE journal' = journal
    BY <1>0, <2>1, <2>2 DEF TornTail, Kept, Blameless, Untaken
  <2>3. CASE journal' # journal
    <3>1. PICK t \in Threads, is \in {"piece", "cut"} : journal' = Write(journal, is, cur[t], FALSE)
      BY <1>5, <2>3, DyingWrites DEF WholeLines
    <3>2. PICK e \in BOOLEAN : e = FALSE
      OBVIOUS
    <3>3. journal' = Write(journal, is, cur[t], e) /\ cur[t] \in Probes /\ is \in Kinds
      BY <1>F, <3>1, <3>2 DEF Typed, Kinds
    <3>4. /\ ~Unreadable(journal')
          /\ Of(journal, {"result"}) \subseteq Of(journal', {"result"})
          /\ Of(journal', {"died"}) \subseteq Of(journal, {"died"})
          /\ journal'[Len(journal')].is \in {"piece", "cut"}
      BY <2>1, <3>3, RecordWritten
    <3> QED
      BY <1>0, <2>1, <3>4 DEF TornTail, Kept, Blameless, Untaken
  <2> QED
    BY <2>2, <2>3
<1>6. ASSUME NEW t \in Threads, NEW p \in Probes, Take(t, p)
      PROVE  SettledInv'
  <2>1. /\ phase = "running" /\ phase' = phase /\ journal' = journal /\ recorded' = recorded
        /\ p \in left /\ left' = left \ {p}
        /\ cur' = [cur EXCEPT ![t] = p] /\ pc' = [pc EXCEPT ![t] = "announce"] /\ pc[t] = "idle"
    BY <1>6 DEF Take, Go
  <2>2. Unlocked' <=> Unlocked
    BY <1>F, <2>1 DEF Unlocked, Typed
  <2>3. Untaken'
    BY <1>F, <2>1 DEF Untaken, Typed
  <2> QED
    BY <1>0, <2>1, <2>2, <2>3 DEF TornTail, Kept, Blameless
<1>7. ASSUME NEW t \in Threads, SayRecord(t)
      PROVE  SettledInv'
  <2>1. /\ phase = "running" /\ phase' = phase /\ left' = left /\ cur' = cur
        /\ cur[t] \in Probes /\ Unlocked /\ ~Unlocked'
        /\ \A u \in Threads : pc'[u] # "idle" => pc[u] # "idle"
    BY <1>7, <1>F DEF SayRecord, Typed, Unlocked, Go
  <2>2. PICK e \in BOOLEAN : e = FALSE
    OBVIOUS
  <2>3. CASE pc[t] = "announce"
    <3>1. journal' = Write(journal, "announce", cur[t], e) /\ "announce" \in Kinds /\ recorded' = recorded
      BY <1>7, <2>2, <2>3 DEF SayRecord, Kinds
    <3>2. /\ ~Unreadable(journal')
          /\ Of(journal, {"result"}) \subseteq Of(journal', {"result"})
          /\ Of(journal', {"died"}) \subseteq Of(journal, {"died"})
      BY <2>1, <3>1, RecordWritten
    <3> QED
      BY <1>0, <2>1, <3>1, <3>2 DEF TornTail, Kept, Blameless, Untaken
  <2>4. CASE pc[t] = "record"
    <3>1. journal' = Write(journal, "result", cur[t], e) /\ "result" \in Kinds /\ recorded' = recorded \cup {cur[t]}
      BY <1>7, <2>2, <2>4 DEF SayRecord, Kinds
    <3>2. ~Open(journal)
      BY <1>F, <2>1, <2>4 DEF LeftOpen
    <3>3. /\ ~Unreadable(journal')
          /\ Of(journal, {"result"}) \cup {cur[t]} \subseteq Of(journal', {"result"})
          /\ Of(journal', {"died"}) \subseteq Of(journal, {"died"})
      BY <2>1, <3>1, <3>2, RecordWritten
    <3>4. cur[t] \notin left \cup Of(journal, {"died"})
      BY <2>1, <2>4 DEF Untaken
    <3> QED
      BY <1>0, <2>1, <3>1, <3>3, <3>4 DEF TornTail, Kept, Blameless, Untaken
  <2> QED
    BY <1>7, <2>3, <2>4 DEF SayRecord
<1>8. ASSUME NEW t \in Threads, SayNewline(t)
      PROVE  SettledInv'
  <2>1. /\ phase = "running" /\ phase' = phase /\ left' = left /\ cur' = cur /\ recorded' = recorded
        /\ \A u \in Threads : pc'[u] # "idle" => pc[u] # "idle"
    BY <1>8, <1>F DEF SayNewline, Typed, Go
  <2>2. {"died"} \in SUBSET Kinds /\ {"result"} \in SUBSET Kinds
    BY DEF Kinds
  <2>3. /\ Of(journal', {"died"}) = Of(journal, {"died"}) /\ Of(journal', {"result"}) = Of(journal, {"result"})
        /\ ~Unreadable(journal') /\ ~Open(journal')
    BY <1>8, <1>F, <2>2, NewlineEnds, EndedSays
  <2> QED
    BY <1>0, <2>1, <2>3 DEF TornTail, Kept, Blameless, Untaken
<1>9. ASSUME NEW t \in Threads, Measure(t)
      PROVE  SettledInv'
  <2>1. /\ phase = "running" /\ UNCHANGED <<phase, journal, left, cur, recorded>>
        /\ \A u \in Threads : pc'[u] # "idle" => pc[u] # "idle"
        /\ Unlocked' <=> Unlocked
    BY <1>9, <1>F DEF Measure, Typed, Go, Unlocked
  <2> QED
    BY <1>0, <2>1 DEF TornTail, Kept, Blameless, Untaken
<1> QED
  BY <1>1, <1>2, <1>3, <1>4, <1>5, <1>6, <1>7, <1>8, <1>9, Steps

(* Where a dying worker loses neither a newline nor half a character, a    *)
(* probe whose result is written is never named as having killed the       *)
(* runner and never measured again (supervise and work).                   *)
THEOREM MeasuredIsSettledAlways ==
  ASSUME WholeLines
  PROVE  Spec => MeasuredIsSettled
<1> DEFINE Settles ==
      /\ \A i \in DOMAIN journal' : journal'[i].is = "died" => journal'[i].probe \notin recorded
      /\ \A t \in Threads : pc[t] = "idle" /\ pc'[t] = "announce" => cur'[t] \notin recorded
<1>1. SettledInv /\ [Next]_vars => SettledInv'
  <2> SUFFICES ASSUME SettledInv, [Next]_vars PROVE SettledInv'
    OBVIOUS
  <2>1. CASE Next
    BY <2>1, SettledStep
  <2>2. CASE UNCHANGED vars
    BY <2>2 DEF vars, workerVars, SettledInv, FlightInv, Typed, Lock, Writing, LeftOpen, Unlocked, Flight,
                Measuring, InFlight, Results, Mangled, TornTail, Kept, Blameless, Untaken
  <2> QED
    BY <2>1, <2>2
<1>2. SettledInv /\ SettledInv' /\ Next => Settles
  <2> SUFFICES ASSUME SettledInv, SettledInv', Next PROVE Settles
    OBVIOUS
  <2>1. recorded \subseteq recorded'
    BY DyingWrites, Steps DEF Finish, NameInFlight, StartWorker, Judge, EndWorker, Take, SayRecord, SayNewline, Measure
  <2>2. Of(journal', {"died"}) \cap recorded = {}
    BY <2>1 DEF SettledInv, Blameless
  <2>3. \A i \in DOMAIN journal' : journal'[i].is = "died" => journal'[i].probe \notin recorded
    BY <2>2 DEF Of
  <2>4. ASSUME NEW t \in Threads, pc[t] = "idle", pc'[t] = "announce"
        PROVE  cur'[t] \notin recorded
    <3>1. \E p \in Probes : Take(t, p)
      <4>1. ~(Finish \/ NameInFlight \/ StartWorker \/ Judge \/ EndWorker \/ Die)
        BY <2>4, DyingWrites DEF Finish, NameInFlight, StartWorker, Judge, EndWorker, workerVars, Nobody
      <4>2. PICK u \in Threads : \/ \E p \in Probes : Take(u, p)
                              \/ SayRecord(u) \/ SayNewline(u) \/ Measure(u)
        BY <4>1, Steps
      <4>3. DOMAIN pc = Threads
        BY DEF SettledInv, FlightInv, Typed
      <4> QED
        BY <2>4, <4>2, <4>3 DEF Take, SayRecord, SayNewline, Measure, Go
    <3>2. PICK p \in Probes : Take(t, p)
      BY <3>1
    <3>3. cur \in [Threads -> Probes] /\ left \cap recorded = {}
      BY <3>2 DEF SettledInv, FlightInv, Typed, Untaken, Take
    <3> QED
      BY <3>2, <3>3 DEF Take
  <2> QED
    BY <2>3, <2>4
<1>3. SettledInv /\ SettledInv' /\ [Next]_vars => [Settles]_vars
  BY <1>2
<1> QED
  BY <1>1, <1>3, SettledInit, PTL DEF Spec, MeasuredIsSettled
=============================================================================
