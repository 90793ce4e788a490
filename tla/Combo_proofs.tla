----------------------------- MODULE Combo_proofs ---------------------------
(***************************************************************************)
(* Combos implement the pipe of key events, for all keys, all combos and   *)
(* every number of combos that may be active: nothing is lost, doubled or  *)
(* overtaken, though presses are captured, raised anew and captured again  *)
(* inside the calls that raise them.                                       *)
(*                                                                         *)
(* First what the listener holds when calls are made and return, then the  *)
(* invariants and how each step keeps them, then the pipe, and last that a *)
(* combo still applies when it runs.                                       *)
(***************************************************************************)
EXTENDS Combo, FiniteSetTheorems, SequenceTheorems, WellFoundedInduction, TLAPS

-----------------------------------------------------------------------------
(* Numbers and flattened sequences *)

LEMMA LeastOne ==
  ASSUME NEW T \in SUBSET Nat, T # {}
  PROVE  \E n \in T : \A k \in T : n <= k
  <1> DEFINE R == OpToRel(<, Nat)
  <1>1. IsWellFoundedOn(R, Nat)
    BY NatLessThanWellFounded, Zenon
  <1>2. \A n, k \in Nat : n < k => <<n, k>> \in R
    BY DEF OpToRel
  <1> HIDE DEF R
  <1>3. PICK n \in T : \A k \in T : ~(<<k, n>> \in R)
    BY <1>1, WFMin
  <1>4. ASSUME NEW k \in T PROVE n <= k
    <2>1. n \in Nat /\ k \in Nat /\ ~(<<k, n>> \in R)
      BY <1>3
    <2>2. ~(k < n)
      BY <1>2, <2>1
    <2> QED
      BY <2>1, <2>2
  <1> QED
    BY <1>4

LEMMA Induction ==
  ASSUME NEW T \in SUBSET Nat, 0 \in T, \A n \in Nat : n \in T => n + 1 \in T
  PROVE  T = Nat
  <1> SUFFICES ASSUME Nat \ T # {} PROVE FALSE
    OBVIOUS
  <1>1. PICK n \in Nat \ T : \A k \in Nat \ T : n <= k
    BY LeastOne
  <1>2. n # 0 /\ n - 1 \in Nat /\ ~(n <= n - 1) /\ (n - 1) + 1 = n
    BY <1>1
  <1>3. n - 1 \in T
    BY <1>1, <1>2
  <1> QED
    BY <1>1, <1>2, <1>3

Flattens(f, s) ==
  f = [i \in 1 .. Len(s) |-> IF i = 1 THEN s[i] ELSE f[i - 1] \o s[i]]

LEMMA FlattensExists ==
  ASSUME NEW s, Len(s) \in Nat
  PROVE  \E f : Flattens(f, s)
  <1> DEFINE P(m) == \E f : f = [i \in 1 .. m |-> IF i = 1 THEN s[i] ELSE f[i - 1] \o s[i]]
             T == {m \in Nat : P(m)}
  <1>1. 0 \in T
    <2>1. <<>> = [i \in 1 .. 0 |-> IF i = 1 THEN s[i] ELSE <<>>[i - 1] \o s[i]]
      OBVIOUS
    <2> QED
      BY <2>1
  <1>2. ASSUME NEW m \in Nat, m \in T PROVE m + 1 \in T
    <2>1. PICK f : f = [i \in 1 .. m |-> IF i = 1 THEN s[i] ELSE f[i - 1] \o s[i]]
      BY <1>2
    <2> DEFINE last == IF m = 0 THEN s[1] ELSE f[m] \o s[m + 1]
               g == [i \in 1 .. m + 1 |-> IF i = m + 1 THEN last ELSE f[i]]
    <2>2. ASSUME NEW i \in 1 .. m + 1
          PROVE  g[i] = IF i = 1 THEN s[i] ELSE g[i - 1] \o s[i]
      <3>1. CASE i = m + 1
        <4>1. i # 1 => i - 1 \in 1 .. m + 1 /\ i - 1 # m + 1 /\ m # 0 /\ i - 1 = m
          BY <3>1
        <4> QED
          BY <3>1, <4>1
      <3>2. CASE i # m + 1
        <4>1. i \in 1 .. m /\ (i # 1 => i - 1 \in 1 .. m /\ i - 1 # m + 1 /\ i - 1 \in 1 .. m + 1)
          BY <3>2
        <4>2. g[i] = f[i] /\ (i # 1 => g[i - 1] = f[i - 1])
          BY <3>2, <4>1
        <4>3. f[i] = IF i = 1 THEN s[i] ELSE f[i - 1] \o s[i]
          BY <2>1, <4>1
        <4> QED
          BY <4>2, <4>3
      <3> QED
        BY <3>1, <3>2
    <2>3. g = [i \in 1 .. m + 1 |-> IF i = 1 THEN s[i] ELSE g[i - 1] \o s[i]]
      <3> DEFINE h == [i \in 1 .. m + 1 |-> IF i = 1 THEN s[i] ELSE g[i - 1] \o s[i]]
      <3>1. \A i \in 1 .. m + 1 : g[i] = h[i]
        BY <2>2
      <3>2. g = [i \in 1 .. m + 1 |-> g[i]] /\ h = [i \in 1 .. m + 1 |-> h[i]]
        OBVIOUS
      <3> QED
        BY ONLY <3>1, <3>2
    <2> HIDE DEF g
    <2>4. P(m + 1)
      BY <2>3
    <2> HIDE DEF P
    <2> QED
      BY <2>4
  <1>3. T = Nat
    <2> HIDE DEF T
    <2>1. T \in SUBSET Nat
      BY DEF T
    <2> QED
      BY <1>1, <1>2, <2>1, Induction
  <1> QED
    BY <1>3 DEF Flattens

LEMMA FlattensUnique ==
  ASSUME NEW s, NEW t, Len(s) \in Nat, Len(t) \in Nat, Len(s) <= Len(t),
         \A i \in 1 .. Len(s) : s[i] = t[i],
         NEW f, Flattens(f, s), NEW g, Flattens(g, t)
  PROVE  \A i \in 1 .. Len(s) : f[i] = g[i]
  <1> DEFINE T == {i \in 1 .. Len(s) : f[i] # g[i]}
  <1> SUFFICES ASSUME T # {} PROVE FALSE
    OBVIOUS
  <1>1. PICK n \in T : \A k \in T : n <= k
    <2>1. T \in SUBSET Nat
      OBVIOUS
    <2> HIDE DEF T
    <2> QED
      BY <2>1, LeastOne
  <1>2. n \in 1 .. Len(s) /\ n \in 1 .. Len(t) /\ s[n] = t[n] /\ f[n] # g[n]
    BY <1>1
  <1>3. /\ f[n] = IF n = 1 THEN s[n] ELSE f[n - 1] \o s[n]
        /\ g[n] = IF n = 1 THEN t[n] ELSE g[n - 1] \o t[n]
    BY <1>2 DEF Flattens
  <1>4. n # 1 /\ f[n - 1] # g[n - 1]
    BY <1>2, <1>3
  <1>5. n - 1 \in 1 .. Len(s) /\ ~(n <= n - 1)
    BY <1>2, <1>4
  <1> QED
    BY <1>1, <1>4, <1>5

LEMMA FlattenLast ==
  ASSUME NEW S, NEW s \in Seq(S), NEW x \in S
  PROVE  FlattenSeq(Append(s, x)) = IF s = <<>> THEN x ELSE FlattenSeq(s) \o x
  <1> DEFINE t == Append(s, x)
  <1>1. /\ Len(s) \in Nat /\ Len(t) = Len(s) + 1 /\ \A i \in 1 .. Len(s) : s[i] = t[i]
        /\ t[Len(s) + 1] = x /\ (s = <<>> <=> Len(s) = 0)
    OBVIOUS
  <1> HIDE DEF t
  <1>2. Flattens(CHOOSE f : Flattens(f, s), s) /\ Flattens(CHOOSE f : Flattens(f, t), t)
    <2>1. (\E f : Flattens(f, s)) /\ (\E f : Flattens(f, t))
      BY <1>1, FlattensExists
    <2> QED
      BY <2>1
  <1> DEFINE f == CHOOSE h : Flattens(h, s)
             g == CHOOSE h : Flattens(h, t)
  <1>3. /\ FlattenSeq(t) = g[Len(t)]
        /\ s # <<>> => FlattenSeq(s) = f[Len(s)]
    BY <1>1 DEF FlattenSeq, Flattens
  <1>5. Flattens(f, s) /\ Flattens(g, t)
    BY <1>2
  <1> HIDE DEF f, g
  <1>4. g[Len(t)] = IF Len(t) = 1 THEN t[Len(t)] ELSE g[Len(t) - 1] \o t[Len(t)]
    <2>1. Len(t) \in 1 .. Len(t)
      BY <1>1
    <2> QED
      BY <1>5, <2>1 DEF Flattens
  <1>6. CASE s = <<>>
    BY <1>1, <1>3, <1>4, <1>6 DEF t
  <1>7. CASE s # <<>>
    <2>1. Len(t) # 1 /\ Len(t) - 1 = Len(s) /\ Len(s) \in 1 .. Len(s) /\ Len(s) <= Len(t)
      BY <1>1, <1>7
    <2>2. f[Len(s)] = g[Len(s)]
      BY <1>1, <1>5, <2>1, FlattensUnique
    <2> QED
      BY <1>1, <1>3, <1>4, <1>7, <2>1, <2>2 DEF t
  <1> QED
    BY <1>6, <1>7

LEMMA ConcatAppend ==
  ASSUME NEW S, NEW s \in Seq(S), NEW r \in Seq(S), NEW x \in S
  PROVE  s \o Append(r, x) = Append(s \o r, x) /\ s \o r \in Seq(S)
  <1>1. /\ <<x>> \in Seq(S) /\ s \o r \in Seq(S) /\ Append(r, x) = r \o <<x>>
        /\ Append(s \o r, x) = (s \o r) \o <<x>>
    BY AppendIsConcat, ConcatProperties
  <1> QED
    BY <1>1, ConcatAssociative

LEMMA FlattenType ==
  ASSUME NEW E, NEW s \in Seq(Seq(E))
  PROVE  FlattenSeq(s) \in Seq(E)
  <1> DEFINE P(n) == \A t \in Seq(Seq(E)) : Len(t) = n => FlattenSeq(t) \in Seq(E)
             T == {n \in Nat : P(n)}
  <1>1. 0 \in T
    <2> SUFFICES ASSUME NEW t \in Seq(Seq(E)), Len(t) = 0 PROVE FlattenSeq(t) \in Seq(E)
      OBVIOUS
    <2>1. t = <<>>
      OBVIOUS
    <2> QED
      BY <2>1 DEF FlattenSeq
  <1>2. ASSUME NEW n \in Nat, n \in T PROVE n + 1 \in T
    <2> SUFFICES ASSUME NEW t \in Seq(Seq(E)), Len(t) = n + 1
                 PROVE  FlattenSeq(t) \in Seq(E)
      OBVIOUS
    <2>1. PICK r \in Seq(Seq(E)), x \in Seq(E) : t = Append(r, x)
      <3>1. t # <<>>
        OBVIOUS
      <3> QED
        BY <3>1, SequenceEmptyOrAppend
    <2>2. Len(r) = n
      BY <2>1
    <2>3. FlattenSeq(r) \in Seq(E)
      BY <1>2, <2>2
    <2>4. FlattenSeq(t) = IF r = <<>> THEN x ELSE FlattenSeq(r) \o x
      BY <2>1, FlattenLast
    <2> QED
      BY <2>1, <2>3, <2>4
  <1>3. T = Nat
    <2> HIDE DEF T
    <2>1. T \in SUBSET Nat
      BY DEF T
    <2> QED
      BY <1>1, <1>2, <2>1, Induction
  <1>4. Len(s) \in Nat
    OBVIOUS
  <1>5. P(Len(s))
    BY <1>3, <1>4
  <1> QED
    BY <1>5

\* Three parts in a row can be joined from either end.
Joinable(a, b, c) == (a \o b) \o c = a \o (b \o c)

LEMMA Associative ==
  ASSUME NEW E, NEW a \in Seq(E), NEW b \in Seq(E), NEW c \in Seq(E)
  PROVE  Joinable(a, b, c)
  <1>1. (a \o b) \o c = a \o (b \o c)
    BY SMT
  <1> QED
    BY ONLY <1>1, Zenon DEF Joinable

LEMMA FlattenConcat ==
  ASSUME NEW E, NEW s \in Seq(Seq(E)), NEW u \in Seq(Seq(E))
  PROVE  FlattenSeq(s \o u) = FlattenSeq(s) \o FlattenSeq(u)
  <1> DEFINE P(n) == \A t \in Seq(Seq(E)) :
                       Len(t) = n => FlattenSeq(s \o t) = FlattenSeq(s) \o FlattenSeq(t)
             T == {n \in Nat : P(n)}
  <1>0. FlattenSeq(s) \in Seq(E) /\ FlattenSeq(<<>>) = <<>>
    BY FlattenType DEF FlattenSeq
  <1>1. 0 \in T
    <2> SUFFICES ASSUME NEW t \in Seq(Seq(E)), Len(t) = 0
                 PROVE  FlattenSeq(s \o t) = FlattenSeq(s) \o FlattenSeq(t)
      OBVIOUS
    <2>1. t = <<>> /\ s \o t = s
      OBVIOUS
    <2>2. FlattenSeq(s) \o <<>> = FlattenSeq(s)
      BY <1>0, ConcatEmptySeq
    <2> QED
      BY ONLY <2>1, <2>2, <1>0
  <1>2. ASSUME NEW n \in Nat, n \in T PROVE n + 1 \in T
    <2> SUFFICES ASSUME NEW t \in Seq(Seq(E)), Len(t) = n + 1
                 PROVE  FlattenSeq(s \o t) = FlattenSeq(s) \o FlattenSeq(t)
      OBVIOUS
    <2>1. PICK r \in Seq(Seq(E)), x \in Seq(E) : t = Append(r, x)
      <3>1. t # <<>>
        OBVIOUS
      <3> QED
        BY <3>1, SequenceEmptyOrAppend
    <2>2. Len(r) = n
      BY <2>1
    <2>3. FlattenSeq(s \o r) = FlattenSeq(s) \o FlattenSeq(r)
      BY <1>2, <2>2
    <2>4. FlattenSeq(t) = IF r = <<>> THEN x ELSE FlattenSeq(r) \o x
      BY <2>1, FlattenLast
    <2>5. s \o t = Append(s \o r, x) /\ s \o r \in Seq(Seq(E))
      <3>1. s \o Append(r, x) = Append(s \o r, x) /\ s \o r \in Seq(Seq(E))
        BY ONLY s \in Seq(Seq(E)), r \in Seq(Seq(E)), x \in Seq(E), ConcatAppend
      <3> QED
        BY ONLY <2>1, <3>1
    <2>6. FlattenSeq(s \o t) = IF s \o r = <<>> THEN x ELSE FlattenSeq(s \o r) \o x
      BY <2>1, <2>5, FlattenLast
    <2>7. FlattenSeq(r) \in Seq(E)
      BY FlattenType
    <2> HIDE DEF T
    <2>8. (FlattenSeq(s) \o FlattenSeq(r)) \o x = FlattenSeq(s) \o (FlattenSeq(r) \o x)
      <3>1. FlattenSeq(s) \in Seq(E) /\ FlattenSeq(r) \in Seq(E) /\ x \in Seq(E)
        BY <1>0, <2>7
      <3>2. Joinable(FlattenSeq(s), FlattenSeq(r), x)
        BY ONLY <3>1, Associative, Zenon
      <3> QED
        BY ONLY <3>2, Zenon DEF Joinable
    <2>9. CASE r = <<>>
      <3>1. s \o r = s
        BY <2>9
      <3>2. s = <<>> => FlattenSeq(s) \o x = x
        BY <1>0, <2>1, ConcatEmptySeq
      <3> QED
        BY <2>4, <2>6, <2>9, <3>1, <3>2
    <2>10. CASE r # <<>>
      <3>1. s \o r # <<>>
        BY <2>10
      <3> QED
        BY <2>3, <2>4, <2>6, <2>8, <2>10, <3>1
    <2> QED
      BY <2>9, <2>10
  <1>3. T = Nat
    <2> HIDE DEF T
    <2>1. T \in SUBSET Nat
      BY DEF T
    <2> QED
      BY <1>1, <1>2, <2>1, Induction
  <1>4. Len(u) \in Nat
    OBVIOUS
  <1>5. P(Len(u))
    BY <1>3, <1>4
  <1> QED
    BY <1>5

LEMMA FlattenSingles ==
  ASSUME NEW E, NEW s \in Seq(E)
  PROVE  FlattenSeq([i \in 1 .. Len(s) |-> <<s[i]>>]) = s
  <1> DEFINE Singles(t) == [i \in 1 .. Len(t) |-> <<t[i]>>]
             P(n) == \A t \in Seq(E) : Len(t) = n => FlattenSeq(Singles(t)) = t
             T == {n \in Nat : P(n)}
  <1>1. 0 \in T
    <2> SUFFICES ASSUME NEW t \in Seq(E), Len(t) = 0 PROVE FlattenSeq(Singles(t)) = t
      OBVIOUS
    <2>1. t = <<>> /\ Singles(t) = <<>>
      OBVIOUS
    <2> QED
      BY <2>1 DEF FlattenSeq
  <1>2. ASSUME NEW n \in Nat, n \in T PROVE n + 1 \in T
    <2> SUFFICES ASSUME NEW t \in Seq(E), Len(t) = n + 1
                 PROVE  FlattenSeq(Singles(t)) = t
      OBVIOUS
    <2>1. PICK r \in Seq(E), x \in E : t = Append(r, x)
      <3>1. t # <<>>
        OBVIOUS
      <3> QED
        BY <3>1, SequenceEmptyOrAppend
    <2>2. Len(r) = n /\ FlattenSeq(Singles(r)) = r
      BY <1>2, <2>1
    <2>3. Singles(r) \in Seq(Seq(E)) /\ <<x>> \in Seq(E)
      <3>1. \A i \in 1 .. Len(r) : <<r[i]>> \in Seq(E)
        OBVIOUS
      <3> QED
        BY <3>1
    <2>4. Singles(t) = Append(Singles(r), <<x>>)
      BY <2>1, <2>2
    <2>5. FlattenSeq(Singles(t)) = IF Singles(r) = <<>> THEN <<x>>
                                   ELSE FlattenSeq(Singles(r)) \o <<x>>
      BY <2>3, <2>4, FlattenLast
    <2>6. Singles(r) = <<>> => r = <<>>
      OBVIOUS
    <2>8. FlattenSeq(Singles(r)) = r
      BY <2>2
    <2> HIDE DEF Singles, T, P
    <2>7. t = r \o <<x>> /\ (r = <<>> => t = <<x>>)
      <3>1. Append(r, x) = r \o <<x>>
        BY AppendIsConcat
      <3>2. r = <<>> => Append(r, x) = <<x>>
        OBVIOUS
      <3> QED
        BY <2>1, <3>1, <3>2
    <2>9. CASE r = <<>>
      <3>1. Singles(r) = <<>>
        BY <2>9 DEF Singles
      <3> QED
        BY <2>5, <2>7, <2>9, <3>1
    <2> QED
      BY <2>5, <2>6, <2>7, <2>8, <2>9
  <1>3. T = Nat
    <2> HIDE DEF T
    <2>1. T \in SUBSET Nat
      BY DEF T
    <2> QED
      BY <1>1, <1>2, <2>1, Induction
  <1>4. Len(s) \in Nat
    OBVIOUS
  <1>5. P(Len(s))
    BY <1>3, <1>4
  <1> QED
    BY <1>5

-----------------------------------------------------------------------------
(* Calls and the events they hold *)

Release == [key : Key, down : {FALSE}, time : 1 .. MaxTime]
AnyEvent == [key : Key, down : BOOLEAN, time : 1 .. MaxTime]
Waiting == Release \cup {NoEvent}

Calls ==
  {Raise(e) : e \in AnyEvent} \cup {Pass(e) : e \in AnyEvent}
    \cup {Cleanup(e) : e \in Waiting} \cup {Flush(e) : e \in Waiting}
    \cup {KeyUp(e, n) : e \in Release, n \in Nat} \cup {Forget, Update}

EventSeqs(t) == [i \in DOMAIN t |-> EventsOf(t[i])]
Flat(t) == FlattenSeq(EventSeqs(t))

LEMMA SomeEvent == \A e \in AnyEvent : e # NoEvent
  BY DEF AnyEvent, NoEvent

LEMMA ReleaseIsEvent == Release \subseteq AnyEvent /\ Press \subseteq AnyEvent
  BY DEF Release, Press, AnyEvent

LEMMA EventsOfCall ==
  /\ \A e : /\ EventsOf(Raise(e)) = <<e>> /\ EventsOf(Pass(e)) = <<e>>
            /\ \A n : EventsOf(KeyUp(e, n)) = <<e>>
            /\ EventsOf(Cleanup(e)) = IF e = NoEvent THEN <<>> ELSE <<e>>
            /\ EventsOf(Flush(e)) = IF e = NoEvent THEN <<>> ELSE <<e>>
  /\ EventsOf(Forget) = <<>> /\ EventsOf(Update) = <<>>
  BY DEF EventsOf, Raise, Pass, KeyUp, Cleanup, Flush, Forget, Update

\* What a call is, by its name.
LEMMA CallKinds ==
  ASSUME NEW c \in Calls
  PROVE  \/ \E e \in AnyEvent : c = Raise(e)
         \/ \E e \in AnyEvent : c = Pass(e)
         \/ \E e \in Waiting : c = Cleanup(e)
         \/ \E e \in Waiting : c = Flush(e)
         \/ \E e \in Release, n \in Nat : c = KeyUp(e, n)
         \/ c = Forget
         \/ c = Update
  BY DEF Calls

LEMMA CallFields ==
  ASSUME NEW c \in Calls
  PROVE  /\ c.op \in {"raise", "pass", "cleanup", "flush", "key-up", "forget", "update"}
         /\ c.op = "raise" => c.event \in AnyEvent /\ c = Raise(c.event)
         /\ c.op = "pass" => c.event \in AnyEvent /\ c = Pass(c.event)
         /\ c.op = "cleanup" => c.then \in Waiting /\ c = Cleanup(c.then)
         /\ c.op = "flush" => c.then \in Waiting /\ c = Flush(c.then)
         /\ c.op = "key-up" => /\ c.event \in Release /\ c.released \in Nat
                              /\ c = KeyUp(c.event, c.released)
         /\ c.op = "forget" => c = Forget
         /\ c.op = "update" => c = Update
  BY CallKinds DEF Raise, Pass, Cleanup, Flush, KeyUp, Forget, Update

LEMMA CallTypes ==
  /\ \A e \in AnyEvent : Raise(e) \in Calls /\ Pass(e) \in Calls
  /\ \A e \in Waiting : Cleanup(e) \in Calls /\ Flush(e) \in Calls
  /\ \A e \in Release, n \in Nat : KeyUp(e, n) \in Calls
  /\ Forget \in Calls /\ Update \in Calls
  BY DEF Calls

LEMMA EventsOfType ==
  ASSUME NEW c \in Calls
  PROVE  EventsOf(c) \in Seq(AnyEvent)
  <1>1. EventsOf(c) = <<>> \/ \E e \in AnyEvent : EventsOf(c) = <<e>>
    BY CallFields, ReleaseIsEvent DEF EventsOf, Waiting
  <1>2. CASE EventsOf(c) = <<>>
    BY <1>2
  <1>3. CASE \E e \in AnyEvent : EventsOf(c) = <<e>>
    <2>1. PICK e \in AnyEvent : EventsOf(c) = <<e>>
      BY <1>3
    <2>2. <<e>> \in Seq(AnyEvent)
      OBVIOUS
    <2> QED
      BY <2>1, <2>2
  <1> QED
    BY <1>1, <1>2, <1>3

LEMMA FlatType ==
  ASSUME NEW t \in Seq(Calls)
  PROVE  EventSeqs(t) \in Seq(Seq(AnyEvent)) /\ Flat(t) \in Seq(AnyEvent)
  <1>1. \A i \in 1 .. Len(t) : EventsOf(t[i]) \in Seq(AnyEvent)
    BY EventsOfType
  <1>2. EventSeqs(t) \in Seq(Seq(AnyEvent))
    BY <1>1 DEF EventSeqs
  <1> QED
    BY <1>2, FlattenType DEF Flat

LEMMA FlatConcat ==
  ASSUME NEW s \in Seq(Calls), NEW t \in Seq(Calls)
  PROVE  Flat(s \o t) = Flat(s) \o Flat(t)
  <1>1. /\ s \o t \in Seq(Calls) /\ Len(s \o t) = Len(s) + Len(t) /\ Len(s) \in Nat
        /\ Len(t) \in Nat /\ DOMAIN s = 1 .. Len(s) /\ DOMAIN t = 1 .. Len(t)
        /\ DOMAIN (s \o t) = 1 .. Len(s) + Len(t)
        /\ \A i \in 1 .. Len(s) + Len(t) : (s \o t)[i] =
             IF i <= Len(s) THEN s[i] ELSE t[i - Len(s)]
    BY ConcatProperties
  <1>2. EventSeqs(s \o t) = EventSeqs(s) \o EventSeqs(t)
    <2> DEFINE a == EventSeqs(s)
               b == EventSeqs(t)
               c == EventSeqs(s \o t)
    <2>1. /\ a \in Seq(Seq(AnyEvent)) /\ b \in Seq(Seq(AnyEvent)) /\ c \in Seq(Seq(AnyEvent))
      BY <1>1, FlatType
    <2>2. Len(a) = Len(s) /\ Len(b) = Len(t) /\ Len(c) = Len(s) + Len(t)
      BY <1>1 DEF EventSeqs
    <2>3. \A i \in 1 .. Len(s) : a[i] = EventsOf(s[i])
      BY <1>1 DEF EventSeqs
    <2>4. \A i \in 1 .. Len(t) : b[i] = EventsOf(t[i])
      BY <1>1 DEF EventSeqs
    <2>5. \A i \in 1 .. Len(s) + Len(t) :
            c[i] = EventsOf(IF i <= Len(s) THEN s[i] ELSE t[i - Len(s)])
      BY <1>1 DEF EventSeqs
    <2> HIDE DEF a, b, c
    <2>6. /\ a \o b \in Seq(Seq(AnyEvent)) /\ Len(a \o b) = Len(a) + Len(b)
          /\ \A i \in 1 .. Len(a) + Len(b) : (a \o b)[i] =
               IF i <= Len(a) THEN a[i] ELSE b[i - Len(a)]
      BY <2>1, ConcatProperties
    <2>7. ASSUME NEW i \in 1 .. Len(c) PROVE c[i] = (a \o b)[i]
      <3>1. CASE i <= Len(s)
        BY <3>1, <1>1, <2>2, <2>3, <2>5, <2>6
      <3>2. CASE ~(i <= Len(s))
        <4>1. i - Len(s) \in 1 .. Len(t)
          BY <3>2, <1>1, <2>2
        <4> QED
          BY <3>2, <4>1, <1>1, <2>2, <2>4, <2>5, <2>6
      <3> QED
        BY <3>1, <3>2
    <2>8. Len(c) = Len(a \o b)
      BY <2>2, <2>6
    <2>9. c = a \o b
      BY <2>1, <2>6, <2>7, <2>8, SeqEqual
    <2> QED
      BY <2>9 DEF a, b, c
  <1> QED
    BY <1>2, FlatType, FlattenConcat DEF Flat

LEMMA FlatFew ==
  /\ Flat(<<>>) = <<>>
  /\ \A c \in Calls : Flat(<<c>>) = EventsOf(c)
  <1>1. Flat(<<>>) = <<>>
    BY DEF Flat, EventSeqs, FlattenSeq
  <1>2. ASSUME NEW c \in Calls PROVE Flat(<<c>>) = EventsOf(c)
    <2>1. EventsOf(c) \in Seq(AnyEvent)
      BY EventsOfType
    <2>2. EventSeqs(<<c>>) = Append(<<>>, EventsOf(c))
      BY DEF EventSeqs
    <2>3. <<>> \in Seq(Seq(AnyEvent))
      OBVIOUS
    <2> QED
      BY <2>1, <2>2, <2>3, FlattenLast DEF Flat
  <1> QED
    BY <1>1, <1>2
LEMMA FlatThen ==
  ASSUME NEW t \in Seq(Calls), t # <<>>
  PROVE  /\ t[1] \in Calls /\ Tail(t) \in Seq(Calls) /\ Head(t) = t[1]
         /\ Flat(t) = EventsOf(t[1]) \o Flat(Tail(t))
         /\ Flat(Tail(t)) \in Seq(AnyEvent) /\ EventsOf(t[1]) \in Seq(AnyEvent)
  <1>1. t[1] \in Calls /\ Tail(t) \in Seq(Calls) /\ Head(t) = t[1]
    OBVIOUS
  <1>2. t = <<t[1]>> \o Tail(t)
    OBVIOUS
  <1>3. <<t[1]>> \in Seq(Calls)
    BY <1>1
  <1>4. Flat(t) = Flat(<<t[1]>>) \o Flat(Tail(t))
    BY <1>1, <1>2, <1>3, FlatConcat
  <1> QED
    BY <1>1, <1>4, FlatFew, FlatType, EventsOfType

LEMMA MoveOver ==
  ASSUME NEW S, NEW p \in Seq(S), NEW x \in S, NEW r \in Seq(S)
  PROVE  Append(p, x) \o r = p \o (<<x>> \o r)
  <1>1. Append(p, x) = p \o <<x>> /\ <<x>> \in Seq(S)
    BY AppendIsConcat
  <1> QED
    BY <1>1, ConcatAssociative

LEMMA DropFront ==
  ASSUME NEW S, NEW p \in Seq(S), NEW r \in Seq(S), NEW n \in 0 .. Len(p)
  PROVE  SubSeq(p, n + 1, Len(p)) \o r = SubSeq(p \o r, n + 1, Len(p \o r))
  <1> DEFINE q == SubSeq(p, n + 1, Len(p))
             w == p \o r
             v == SubSeq(w, n + 1, Len(w))
  <1>1. /\ w \in Seq(S) /\ Len(w) = Len(p) + Len(r) /\ Len(p) \in Nat /\ Len(r) \in Nat
        /\ \A i \in 1 .. Len(p) + Len(r) : w[i] = IF i <= Len(p) THEN p[i] ELSE r[i - Len(p)]
    BY ConcatProperties
  <1>2. q \in Seq(S) /\ Len(q) = Len(p) - n /\ \A i \in 1 .. Len(p) - n : q[i] = p[n + i]
    OBVIOUS
  <1> HIDE DEF w
  <1>3. /\ v \in Seq(S) /\ Len(v) = Len(p) + Len(r) - n
        /\ \A i \in 1 .. Len(p) + Len(r) - n : v[i] = w[n + i]
    <2>1. PICK L \in Nat : L = Len(w) /\ L = Len(p) + Len(r) /\ n \in 0 .. L
      BY <1>1
    <2>2. /\ SubSeq(w, n + 1, L) \in Seq(S) /\ Len(SubSeq(w, n + 1, L)) = L - n
          /\ \A i \in 1 .. L - n : SubSeq(w, n + 1, L)[i] = w[n + i]
      BY <1>1, <2>1
    <2> QED
      BY <2>1, <2>2
  <1> HIDE DEF q, v
  <1>4. /\ q \o r \in Seq(S) /\ Len(q \o r) = Len(q) + Len(r)
        /\ \A i \in 1 .. Len(q) + Len(r) :
             (q \o r)[i] = IF i <= Len(q) THEN q[i] ELSE r[i - Len(q)]
    BY <1>2, ConcatProperties
  <1>5. Len(q \o r) = Len(v)
    BY <1>1, <1>2, <1>3, <1>4
  <1>6. ASSUME NEW i \in 1 .. Len(v) PROVE (q \o r)[i] = v[i]
    <2>1. i \in 1 .. Len(p) + Len(r) - n /\ n + i \in 1 .. Len(p) + Len(r) /\ i \in 1 .. Len(q) + Len(r)
      BY <1>1, <1>2, <1>3
    <2>2. CASE i <= Len(q)
      <3>1. n + i <= Len(p) /\ i \in 1 .. Len(p) - n
        BY <1>1, <1>2, <2>1, <2>2
      <3> QED
        BY <1>1, <1>2, <1>3, <1>4, <2>1, <2>2, <3>1
    <2>3. CASE ~(i <= Len(q))
      <3>1. ~(n + i <= Len(p)) /\ (n + i) - Len(p) = i - Len(q)
        BY <1>1, <1>2, <2>1, <2>3
      <3> QED
        BY <1>1, <1>3, <1>4, <2>1, <2>3, <3>1
    <2> QED
      BY <2>2, <2>3
  <1>7. q \o r = v
    BY <1>3, <1>4, <1>5, <1>6, SeqEqual
  <1> QED
    BY <1>7 DEF q, v, w

LEMMA FlattenTwoSingles ==
  ASSUME NEW p \in Seq(AnyEvent), NEW f,
         f \in Seq(Calls), Len(f) = Len(p), \A i \in 1 .. Len(p) : EventsOf(f[i]) = <<p[i]>>
  PROVE  Flat(f) = p
  <1>1. EventSeqs(f) = [i \in 1 .. Len(p) |-> <<p[i]>>]
    BY DEF EventSeqs
  <1> QED
    BY <1>1, FlattenSingles DEF Flat

-----------------------------------------------------------------------------
(* Where calls stand *)

Releasing(c) ==
  \/ c.op \in {"raise", "pass"} /\ ~c.event.down
  \/ c.op = "key-up"
  \/ c.op \in {"cleanup", "flush"} /\ c.then # NoEvent

\* What is at the top, or right below, and a release is at the bottom.
InPlace(t, j, empty, crowded) ==
  /\ t[j].op \in {"cleanup", "pass"} => j = 1
  /\ t[j].op = "raise" /\ ~t[j].event.down => j = 1
  /\ t[j].op = "flush" /\ j # 1 => t[j - 1].op = "forget"
  /\ t[j].op = "forget" => crowded
  /\ t[j].op = "key-up" /\ t[j].released <= 1 => empty /\ (j = 1 \/ (j = 2 /\ t[1].op = "pass"))
  /\ Releasing(t[j]) => j = Len(t)

AllInPlace(t, empty, crowded) == \A j \in 1 .. Len(t) : InPlace(t, j, empty, crowded)

LEMMA StayInPlace ==
  ASSUME NEW t \in Seq(Calls), t # <<>>, NEW calls \in Seq(Calls),
         NEW empty, NEW crowded, NEW later, NEW crowdedLater,
         AllInPlace(t, empty, crowded), AllInPlace(calls, later, crowdedLater),
         (\E j \in 1 .. Len(calls) : Releasing(calls[j])) => Releasing(t[1]),
         t[1].op = "forget" => calls = <<>>,
         t[1].op = "pass" => calls = <<>> /\ (empty => later),
         crowded => crowdedLater \/ Len(t) = 1
  PROVE  calls \o Tail(t) \in Seq(Calls) /\ AllInPlace(calls \o Tail(t), later, crowdedLater)
  <1> DEFINE u == calls \o Tail(t)
  <1>0. PICK n \in Nat, L \in Nat : n = Len(calls) /\ L = Len(t) /\ L >= 1
    OBVIOUS
  <1>1. /\ u \in Seq(Calls) /\ Len(u) = n + L - 1
        /\ \A j \in 1 .. n + L - 1 : u[j] = IF j <= n THEN calls[j] ELSE t[j - n + 1]
    <2>1. Tail(t) \in Seq(Calls) /\ Len(Tail(t)) = L - 1 
          /\ \A j \in 1 .. L - 1 : Tail(t)[j] = t[j + 1]
      BY <1>0
    <2>2. /\ u \in Seq(Calls) /\ Len(u) = n + (L - 1)
          /\ \A j \in 1 .. n + (L - 1) : u[j] = IF j <= n THEN calls[j] ELSE Tail(t)[j - n]
      BY <1>0, <2>1, ConcatProperties
    <2> HIDE DEF u
    <2>3. ASSUME NEW j \in 1 .. n + L - 1
          PROVE  u[j] = IF j <= n THEN calls[j] ELSE t[j - n + 1]
      <3>1. j \in 1 .. n + (L - 1)
        OBVIOUS
      <3>2. CASE j <= n
        BY <2>2, <3>1, <3>2
      <3>3. CASE ~(j <= n)
        <4>1. j - n \in 1 .. L - 1
          BY <3>3
        <4> QED
          BY <2>1, <2>2, <3>1, <3>3, <4>1
      <3> QED
        BY <3>2, <3>3
    <2> QED
      BY <2>2, <2>3
  <1>2. calls = <<>> <=> n = 0
    BY <1>0
  <1>9. ASSUME NEW j \in 1 .. L PROVE InPlace(t, j, empty, crowded)
    BY <1>0 DEF AllInPlace
  <1>10. ASSUME NEW j \in 1 .. n PROVE InPlace(calls, j, later, crowdedLater)
    BY <1>0 DEF AllInPlace
  <1>11. \A j \in 1 .. n : Releasing(calls[j]) => Releasing(t[1])
    BY <1>0
  <1>12. crowded => crowdedLater \/ L = 1
    BY <1>0
  <1> HIDE DEF u
  <1> SUFFICES ASSUME NEW j \in 1 .. n + L - 1 PROVE InPlace(u, j, later, crowdedLater)
    BY <1>1 DEF AllInPlace, u
  <1>3. CASE j <= n
    <2>0. j \in 1 .. n /\ 1 \in 1 .. n + L - 1 /\ 1 <= n
      BY <1>0, <1>3
    <2>1. u[j] = calls[j] /\ u[1] = calls[1]
      BY <1>1, <1>3, <2>0
    <2>2. ASSUME j # 1 PROVE u[j - 1] = calls[j - 1]
      <3>1. j - 1 \in 1 .. n + L - 1 /\ j - 1 <= n
        BY <1>3, <2>2
      <3> QED
        BY <1>1, <3>1
    <2>3. InPlace(calls, j, later, crowdedLater)
      BY <1>10, <2>0
    <2>4. Releasing(u[j]) => j = Len(u)
      <3> SUFFICES ASSUME Releasing(u[j]) PROVE j = Len(u)
        OBVIOUS
      <3>2. Releasing(t[1])
        BY <1>11, <2>0, <2>1
      <3>3. 1 = L
        <4>1. 1 \in 1 .. L
          BY <1>0
        <4> QED
          BY <1>0, <1>9, <3>2, <4>1 DEF InPlace
      <3>4. j = n
        BY <1>0, <2>1, <2>3 DEF InPlace
      <3> QED
        BY <1>1, <3>3, <3>4
    <2> QED
      BY <2>1, <2>2, <2>3, <2>4 DEF InPlace
  <1>4. CASE ~(j <= n)
    <2>0. PICK m \in 2 .. L : m = j - n + 1
      <3>1. j - n + 1 \in 2 .. L
        BY <1>0, <1>4
      <3> QED
        BY <3>1
    <2>1. u[j] = t[m] /\ m # 1 /\ m \in 1 .. L /\ (m = L => j = Len(u))
      BY <1>1, <1>4, <2>0
    <2>2. ASSUME m # 2 PROVE j # 1 /\ u[j - 1] = t[m - 1]
      <3>1. j - 1 \in 1 .. n + L - 1 /\ ~(j - 1 <= n) /\ (j - 1) - n + 1 = m - 1
        BY <1>4, <2>0, <2>2
      <3>2. u[j - 1] = t[(j - 1) - n + 1]
        BY <1>1, <3>1
      <3>3. j # 1
        BY <2>0, <2>2, <3>1
      <3> QED
        BY <3>1, <3>2, <3>3
    <2>3. m = 2 => t[m - 1] = t[1] /\ j = n + 1
      BY <2>0
    <2>4. InPlace(t, m, empty, crowded)
      BY <1>9, <2>1
    <2>5. t[m].op = "flush" /\ j # 1 => u[j - 1].op = "forget"
      BY <1>2, <2>1, <2>2, <2>3, <2>4 DEF InPlace
    <2>6. t[m].op = "forget" => crowdedLater
      BY <1>12, <2>0, <2>4 DEF InPlace
    <2>7. t[m].op = "key-up" /\ t[m].released <= 1 => later /\ j = 1
      BY <1>2, <2>1, <2>3, <2>4 DEF InPlace
    <2>8. Releasing(t[m]) => j = Len(u)
      BY <1>0, <2>1, <2>4 DEF InPlace
    <2> QED
      BY <2>1, <2>4, <2>5, <2>6, <2>7, <2>8 DEF InPlace
  <1> QED
    BY <1>3, <1>4

-----------------------------------------------------------------------------
(* The line of events that are held *)

Presses(h) == {i \in 1 .. Len(h) : h[i].down}
Releases(h) == {i \in 1 .. Len(h) : ~h[i].down}
PressKeys(h) == {h[i].key : i \in Presses(h)}
ReleaseKeys(h) == {h[i].key : i \in Releases(h)}

\* Each key comes once, none that went on and is down; and only the last event can
\* be a release, of a key that is down: what is down is what went on and the line.
Orderly(h, base, keysDown, time) ==
  /\ h \in Seq(AnyEvent)
  /\ \A i \in 1 .. Len(h) : h[i].time <= time
  /\ \A i \in Releases(h) : i = Len(h)
  /\ \A i, j \in Presses(h) : h[i].key = h[j].key => i = j
  /\ \A i \in Presses(h) : h[i].key \notin base
  /\ ReleaseKeys(h) \subseteq base \cup PressKeys(h)
  /\ keysDown = (base \cup PressKeys(h)) \ ReleaseKeys(h)
  /\ \A i, j \in 1 .. Len(h) : i < j => h[i].time <= h[j].time

LEMMA EventFields ==
  \A e \in AnyEvent : e.key \in Key /\ e.down \in BOOLEAN /\ e.time \in Int /\ e.time >= 1
  BY ComboAssumption DEF AnyEvent

LEMMA PressFields == \A e \in Press : e.key \in Key /\ e.down = TRUE /\ e.time \in 1 .. MaxTime
  BY DEF Press

LEMMA OrderlyLater ==
  ASSUME NEW h, NEW base, NEW keysDown, NEW m \in Int, NEW n \in Int, m <= n,
         Orderly(h, base, keysDown, m)
  PROVE  Orderly(h, base, keysDown, n)
  <1>1. \A i \in 1 .. Len(h) : h[i].time \in Int /\ h[i].time <= m
    <2> SUFFICES ASSUME NEW i \in 1 .. Len(h) PROVE h[i].time \in Int /\ h[i].time <= m
      OBVIOUS
    <2>1. h[i] \in AnyEvent
      BY DEF Orderly
    <2> QED
      BY <2>1, EventFields DEF Orderly
  <1>2. \A i \in 1 .. Len(h) : h[i].time <= n
    BY <1>1
  <1> QED
    BY <1>2 DEF Orderly

LEMMA OrderlyEnter ==
  ASSUME NEW h, NEW base, NEW keysDown, NEW n \in Int, NEW e \in AnyEvent, e.time = n,
         Orderly(h, base, keysDown, n), Releases(h) = {}, e.down = (e.key \notin keysDown)
  PROVE  Orderly(Append(h, e), base,
                 IF e.down THEN keysDown \cup {e.key} ELSE keysDown \ {e.key}, n)
  <1> DEFINE g == Append(h, e)
  <1>1. h \in Seq(AnyEvent)
    BY DEF Orderly
  <1>2. PICK L \in Nat : L = Len(h)
    BY <1>1
  <1>3. g \in Seq(AnyEvent) /\ Len(g) = L + 1 /\ g[L + 1] = e /\ \A i \in 1 .. L : g[i] = h[i]
    BY <1>1, <1>2
  <1> HIDE DEF g
  <1>4. e.key \in Key /\ e.down \in BOOLEAN
    BY DEF AnyEvent
  <1>5. /\ Presses(h) = 1 .. L
        /\ Releases(g) = IF e.down THEN {} ELSE {L + 1}
        /\ Presses(g) = IF e.down THEN 1 .. L + 1 ELSE 1 .. L
    <2>1. \A i \in 1 .. L : h[i].down
      BY <1>2 DEF Releases
    <2>2. \A i \in 1 .. L + 1 : g[i].down <=> (i # L + 1 \/ e.down)
      <3> SUFFICES ASSUME NEW i \in 1 .. L + 1 PROVE g[i].down <=> (i # L + 1 \/ e.down)
        OBVIOUS
      <3>1. CASE i = L + 1
        BY <1>3, <3>1
      <3>2. CASE i \in 1 .. L
        BY <1>3, <2>1, <3>2
      <3> QED
        BY <3>1, <3>2
    <2>3. Presses(h) = 1 .. L
      BY <1>2, <2>1 DEF Presses
    <2>4. Releases(g) = {i \in 1 .. L + 1 : ~(i # L + 1 \/ e.down)}
      BY <1>3, <2>2 DEF Releases
    <2>5. Presses(g) = {i \in 1 .. L + 1 : i # L + 1 \/ e.down}
      BY <1>3, <2>2 DEF Presses
    <2> QED
      BY <2>3, <2>4, <2>5
  <1>6. keysDown = base \cup PressKeys(h)
    BY DEF Orderly, ReleaseKeys
  <1>7. PressKeys(g) = PressKeys(h) \cup (IF e.down THEN {e.key} ELSE {})
    BY <1>3, <1>5 DEF PressKeys
  <1>8. ReleaseKeys(g) = IF e.down THEN {} ELSE {e.key}
    BY <1>3, <1>5 DEF ReleaseKeys
  <1>9. \A i \in 1 .. Len(g) : g[i].time <= n
    <2> SUFFICES ASSUME NEW i \in 1 .. L + 1 PROVE g[i].time <= n
      BY <1>3
    <2>1. CASE i = L + 1
      BY <1>3, <2>1
    <2>2. CASE i \in 1 .. L
      BY <1>2, <1>3, <2>2 DEF Orderly
    <2> QED
      BY <2>1, <2>2
  <1>10. \A i \in Releases(g) : i = Len(g)
    BY <1>3, <1>5
  <1>11. ASSUME NEW i \in Presses(g), NEW j \in Presses(g), g[i].key = g[j].key PROVE i = j
    <2>1. \A a \in 1 .. L : g[a].key \in PressKeys(h)
      BY <1>3, <1>5 DEF PressKeys
    <2>2. e.down => e.key \notin PressKeys(h)
      BY <1>6
    <2>3. CASE i \in 1 .. L /\ j \in 1 .. L
      BY <1>3, <1>5, <1>11, <2>3 DEF Orderly
    <2>4. CASE i = L + 1 /\ j \in 1 .. L
      <3>1. e.down
        BY <1>5, <2>4
      <3> QED
        BY <1>3, <1>11, <2>1, <2>2, <2>4, <3>1
    <2>5. CASE i \in 1 .. L /\ j = L + 1
      <3>1. e.down
        BY <1>5, <2>5
      <3> QED
        BY <1>3, <1>11, <2>1, <2>2, <2>5, <3>1
    <2> QED
      BY <1>5, <2>3, <2>4, <2>5
  <1>12. ASSUME NEW i \in Presses(g) PROVE g[i].key \notin base
    <2>1. CASE i \in 1 .. L
      BY <1>3, <1>5, <2>1 DEF Orderly
    <2>2. CASE i = L + 1
      <3>1. e.down /\ g[i] = e
        BY <1>3, <1>5, <2>2
      <3> QED
        BY <1>6, <3>1
    <2> QED
      BY <1>5, <2>1, <2>2
  <1>13. ReleaseKeys(g) \subseteq base \cup PressKeys(g)
    BY <1>6, <1>7, <1>8
  <1>14. (IF e.down THEN keysDown \cup {e.key} ELSE keysDown \ {e.key})
           = (base \cup PressKeys(g)) \ ReleaseKeys(g)
    BY <1>6, <1>7, <1>8
  <1>15. ASSUME NEW i \in 1 .. Len(g), NEW j \in 1 .. Len(g), i < j PROVE g[i].time <= g[j].time
    <2>1. i \in 1 .. L
      BY <1>3, <1>15
    <2>2. CASE j = L + 1
      BY <1>2, <1>3, <2>1, <2>2 DEF Orderly
    <2>3. CASE j \in 1 .. L
      BY <1>2, <1>3, <1>15, <2>1, <2>3 DEF Orderly
    <2> QED
      BY <1>3, <2>2, <2>3
  <1>16. Orderly(g, base, IF e.down THEN keysDown \cup {e.key} ELSE keysDown \ {e.key}, n)
    BY ONLY <1>3, <1>9, <1>10, <1>11, <1>12, <1>13, <1>14, <1>15 DEF Orderly
  <1> QED
    BY <1>16 DEF g

LEMMA OrderlyDrop ==
  ASSUME NEW h, NEW base, NEW keysDown, NEW time, Orderly(h, base, keysDown, time),
         NEW n \in 0 .. Len(h), \A i \in 1 .. n : h[i].down
  PROVE  LET g == SubSeq(h, n + 1, Len(h))
         IN /\ Orderly(g, base \cup {h[i].key : i \in 1 .. n}, keysDown, time)
            /\ g \in Seq(AnyEvent) /\ Len(g) = Len(h) - n
            /\ \A i \in 1 .. Len(g) : g[i] = h[i + n] /\ i + n \in 1 .. Len(h)
  <1> DEFINE g == SubSeq(h, n + 1, Len(h))
             gone == {h[i].key : i \in 1 .. n}
  <1>1. h \in Seq(AnyEvent)
    BY DEF Orderly
  <1>2. PICK L \in Nat : L = Len(h) /\ n \in 0 .. L
    BY <1>1
  <1>3. g \in Seq(AnyEvent) /\ Len(g) = L - n /\ \A i \in 1 .. L - n : g[i] = h[i + n]
    <2>1. /\ SubSeq(h, n + 1, L) \in Seq(AnyEvent) /\ Len(SubSeq(h, n + 1, L)) = L - n
          /\ \A i \in 1 .. L - n : SubSeq(h, n + 1, L)[i] = h[i + n]
      BY <1>1, <1>2
    <2> QED
      BY <1>2, <2>1
  <1> HIDE DEF g
  <1>4. \A i \in 1 .. L - n : i + n \in 1 .. L /\ i + n \notin 1 .. n
    BY <1>2
  <1>5. \A j \in 1 .. L : j \in 1 .. n \/ (j - n \in 1 .. L - n /\ (j - n) + n = j)
    BY <1>2
  <1>6. /\ \A i \in Presses(g) : i \in 1 .. L - n /\ i + n \in Presses(h) /\ g[i] = h[i + n]
        /\ \A i \in Releases(g) : i \in 1 .. L - n /\ i + n \in Releases(h) /\ g[i] = h[i + n]
    BY <1>2, <1>3, <1>4 DEF Presses, Releases
  <1>7. /\ \A j \in Presses(h) : j \in 1 .. n \/ (j - n \in Presses(g) /\ g[j - n] = h[j])
        /\ \A j \in Releases(h) : j - n \in Releases(g) /\ g[j - n] = h[j]
    <2>1. \A j \in 1 .. L : j \in 1 .. n \/ (j - n \in 1 .. L - n /\ g[j - n] = h[j])
      BY <1>3, <1>5
    <2>2. \A j \in Releases(h) : ~(j \in 1 .. n)
      BY DEF Releases
    <2> QED
      BY <1>2, <1>3, <2>1, <2>2 DEF Presses, Releases
  <1>8. PressKeys(h) = gone \cup PressKeys(g)
    <2>1. ASSUME NEW k \in PressKeys(h) PROVE k \in gone \cup PressKeys(g)
      <3>1. PICK j \in Presses(h) : k = h[j].key
        BY DEF PressKeys
      <3> QED
        BY <1>7, <3>1 DEF PressKeys
    <2>2. ASSUME NEW k \in PressKeys(g) PROVE k \in PressKeys(h)
      BY <1>6 DEF PressKeys
    <2>3. ASSUME NEW k \in gone PROVE k \in PressKeys(h)
      <3>1. PICK j \in 1 .. n : k = h[j].key
        OBVIOUS
      <3>2. j \in 1 .. L
        BY <1>2
      <3> QED
        BY <1>2, <3>1, <3>2 DEF PressKeys, Presses
    <2> QED
      BY <2>1, <2>2, <2>3
  <1>9. ReleaseKeys(h) = ReleaseKeys(g)
    BY <1>6, <1>7 DEF ReleaseKeys
  <1>10. \A i \in 1 .. Len(g) : g[i].time <= time
    <2>1. \A i \in 1 .. L : h[i].time <= time
      BY <1>2 DEF Orderly
    <2> QED
      BY <1>3, <1>4, <2>1
  <1>11. ASSUME NEW i \in Releases(g) PROVE i = Len(g)
    <2>1. i \in 1 .. L - n /\ i + n = L
      BY <1>2, <1>6 DEF Orderly
    <2> QED
      BY <1>2, <1>3, <2>1
  <1>12. ASSUME NEW i \in Presses(g), NEW j \in Presses(g), g[i].key = g[j].key PROVE i = j
    <2>1. i + n = j + n /\ i \in 1 .. L - n /\ j \in 1 .. L - n
      BY <1>6, <1>12 DEF Orderly
    <2> QED
      BY <1>2, <2>1
  <1>13. ASSUME NEW i \in Presses(g) PROVE g[i].key \notin base \cup gone
    <2>1. i + n \in Presses(h) /\ g[i] = h[i + n] /\ i + n \notin 1 .. n
      BY <1>4, <1>6
    <2>2. \A j \in 1 .. n : j \in Presses(h)
      <3>1. \A j \in 1 .. n : j \in 1 .. L
        BY <1>2
      <3> QED
        BY <1>2, <3>1 DEF Presses
    <2>3. h[i + n].key \notin base /\ \A j \in 1 .. n : h[j].key # h[i + n].key
      BY <2>1, <2>2 DEF Orderly
    <2> QED
      BY <2>1, <2>3
  <1>14. ReleaseKeys(g) \subseteq (base \cup gone) \cup PressKeys(g)
    BY <1>8, <1>9 DEF Orderly
  <1>15. keysDown = ((base \cup gone) \cup PressKeys(g)) \ ReleaseKeys(g)
    BY <1>8, <1>9 DEF Orderly
  <1>16. ASSUME NEW i \in 1 .. Len(g), NEW j \in 1 .. Len(g), i < j PROVE g[i].time <= g[j].time
    <2>1. i + n \in 1 .. L /\ j + n \in 1 .. L /\ i + n < j + n
      BY <1>2, <1>3, <1>4, <1>16
    <2>2. h[i + n].time <= h[j + n].time
      BY <1>2, <2>1 DEF Orderly
    <2>3. i \in 1 .. L - n /\ j \in 1 .. L - n
      BY <1>3
    <2>4. g[i] = h[i + n] /\ g[j] = h[j + n]
      BY <1>3, <2>3
    <2> QED
      BY <2>2, <2>4
  <1> HIDE DEF gone
  <1>17. Orderly(g, base \cup gone, keysDown, time)
    BY ONLY <1>3, <1>10, <1>11, <1>12, <1>13, <1>14, <1>15, <1>16 DEF Orderly
  <1>18. \A i \in 1 .. Len(g) : g[i] = h[i + n] /\ i + n \in 1 .. Len(h)
    BY <1>2, <1>3, <1>4
  <1> QED
    BY <1>2, <1>3, <1>17, <1>18 DEF g, gone

LEMMA OrderlyUp ==
  ASSUME NEW p \in Seq(AnyEvent), NEW e \in AnyEvent, ~e.down,
         NEW base, NEW keysDown, NEW time, Orderly(Append(p, e), base, keysDown, time)
  PROVE  /\ Releases(p) = {} /\ e.key \in base \cup PressKeys(p)
         /\ e.key \in base => Orderly(p, base \ {e.key}, keysDown, time)
  <1> DEFINE h == Append(p, e)
  <1>1. PICK L \in Nat : L = Len(p)
    OBVIOUS
  <1>2. h \in Seq(AnyEvent) /\ Len(h) = L + 1 /\ h[L + 1] = e /\ \A i \in 1 .. L : h[i] = p[i]
    BY <1>1
  <1> HIDE DEF h
  <1>3. Orderly(h, base, keysDown, time)
    BY DEF h
  <1>4. \A i \in 1 .. L : i \in 1 .. L + 1 /\ i # L + 1
    OBVIOUS
  <1>5. Releases(h) = {L + 1} /\ Releases(p) = {} /\ Presses(h) = 1 .. L /\ Presses(p) = 1 .. L
    <2>1. \A i \in 1 .. L : h[i].down
      BY <1>2, <1>3, <1>4 DEF Orderly, Releases
    <2>2. ~h[L + 1].down /\ L + 1 \in 1 .. L + 1
      BY <1>2
    <2>3. Releases(h) = {L + 1} /\ Presses(h) = 1 .. L
      BY <1>2, <1>4, <2>1, <2>2 DEF Releases, Presses
    <2>4. Releases(p) = {} /\ Presses(p) = 1 .. L
      BY <1>1, <1>2, <2>1 DEF Releases, Presses
    <2> QED
      BY <2>3, <2>4
  <1>6. ReleaseKeys(h) = {e.key} /\ ReleaseKeys(p) = {} /\ PressKeys(h) = PressKeys(p)
    BY <1>2, <1>5 DEF ReleaseKeys, PressKeys
  <1>7. e.key \in base \cup PressKeys(p)
    BY <1>3, <1>6 DEF Orderly
  <1>8. ASSUME e.key \in base PROVE Orderly(p, base \ {e.key}, keysDown, time)
    <2>1. e.key \notin PressKeys(p)
      BY <1>3, <1>6, <1>8 DEF Orderly, PressKeys
    <2>2. keysDown = ((base \ {e.key}) \cup PressKeys(p)) \ ReleaseKeys(p)
      BY <1>3, <1>6, <2>1 DEF Orderly
    <2>3. \A i \in 1 .. Len(p) : p[i].time <= time
      BY <1>1, <1>2, <1>3, <1>4 DEF Orderly
    <2>4. \A i, j \in 1 .. Len(p) : i < j => p[i].time <= p[j].time
      BY <1>1, <1>2, <1>3, <1>4 DEF Orderly
    <2>5. \A i, j \in Presses(p) : p[i].key = p[j].key => i = j
      BY <1>2, <1>3, <1>5 DEF Orderly
    <2>6. \A i \in Presses(p) : p[i].key \notin base \ {e.key}
      BY <1>2, <1>3, <1>5 DEF Orderly
    <2>7. \A i \in Releases(p) : i = Len(p)
      BY <1>5
    <2>8. ReleaseKeys(p) \subseteq (base \ {e.key}) \cup PressKeys(p)
      BY <1>6
    <2> QED
      BY <2>2, <2>3, <2>4, <2>5, <2>6, <2>7, <2>8 DEF Orderly
  <1> QED
    BY <1>5, <1>7, <1>8

-----------------------------------------------------------------------------
(* The invariant *)

EatenKeys == UNION {active[i].keys : i \in 1 .. Len(active)}
Base == passed \cup EatenKeys
Crowded == Len(active) = MaxPressed
ForgetDue == \E j \in 1 .. Len(todo) : todo[j].op = "forget"

TodoInv == todo \in Seq(Calls) /\ AllInPlace(todo, pressed = <<>>, Crowded)

\* A press goes on only when nothing is captured, and no combo waits for a release
\* that goes on; the captured presses go on when the candidates have been settled.
HeadInv ==
  /\ Calling("pass") =>
       pressed = <<>> /\ (~Call.event.down => Call.event.key \notin EatenKeys)
  /\ Calling("flush") => (full = None \/ ForgetDue) /\ (candidates = Nobody \/ Crowded)

HeldInv == Orderly(Held, Base, down, now)

\* Active combos share no key, and none is active twice.
ActiveInv ==
  /\ \A i \in 1 .. Len(active) :
       /\ active[i].keys # {} /\ active[i].keys \subseteq Conf[active[i].combo].keys
       /\ active[i].keys \cap passed = {}
  /\ \A i, j \in 1 .. Len(active) :
       i # j => active[i].keys \cap active[j].keys = {} /\ active[i].combo # active[j].combo
  /\ \A c \in on : \E i \in 1 .. Len(active) :
       active[i].combo = c /\ (Conf[c].slow \/ active[i].keys = Conf[c].keys)

\* A candidate has every captured key, and its time is over before it is for any
\* event in the line.
CandInv ==
  /\ candidates = [c \in DOMAIN candidates |-> candidates[c]]
  /\ \A c \in DOMAIN candidates :
       /\ candidates[c] \in Nat /\ candidates[c] <= now + Conf[c].timeout
       /\ \A i \in 1 .. Len(pressed) : pressed[i].key \in Conf[c].keys
       /\ \A i \in 1 .. Len(Held) : candidates[c] <= Held[i].time + Conf[c].timeout
  /\ candidates = Nobody => pressed = <<>> \/ Calling("cleanup") \/ Calling("flush")

\* The first captured presses are those of c, in time.
Complete(c, p) ==
  /\ Size(c) \in 1 .. Len(p)
  /\ {p[i].key : i \in 1 .. Size(c)} = Conf[c].keys
  /\ p[Size(c)].time < p[1].time + Conf[c].timeout
FullInv == full # None => Complete(full, pressed) \/ ForgetDue

IInv == TypeOK /\ TodoInv /\ HeadInv /\ HeldInv /\ ActiveInv /\ CandInv /\ FullInv

LEMMA HeldIs ==
  ASSUME todo \in Seq(Calls), pressed \in Seq(Press)
  PROVE  /\ Held = pressed \o Flat(todo)
         /\ pressed \in Seq(AnyEvent) /\ Flat(todo) \in Seq(AnyEvent)
         /\ todo = <<>> => Held = pressed
         /\ todo # <<>> => Held = pressed \o (EventsOf(todo[1]) \o Flat(Tail(todo)))
  <1>1. Held = pressed \o Flat(todo)
    BY DEF Held, Flat, EventSeqs
  <1>2. pressed \in Seq(AnyEvent) /\ Flat(todo) \in Seq(AnyEvent)
    BY FlatType, ReleaseIsEvent
  <1>3. pressed \o <<>> = pressed
    BY <1>2
  <1> QED
    BY <1>1, <1>2, <1>3, FlatFew, FlatThen

LEMMA Proceed ==
  ASSUME TodoInv, todo # <<>>, NEW calls \in Seq(Calls), Then(calls),
         AllInPlace(calls, pressed' = <<>>, Crowded'),
         (\E j \in 1 .. Len(calls) : Releasing(calls[j])) => Releasing(Call),
         Call.op = "forget" => calls = <<>>,
         Call.op = "pass" => calls = <<>> /\ (pressed = <<>> => pressed' = <<>>),
         Crowded => Crowded' \/ Len(todo) = 1
  PROVE  /\ TodoInv'
         /\ Call.op # "forget" /\ ForgetDue => ForgetDue'
         /\ calls # <<>> => todo' # <<>> /\ Call' = calls[1]
         /\ calls = <<>> /\ todo' # <<>> =>
              /\ Call'.op \notin {"cleanup", "pass"}
              /\ Call'.op = "flush" => Call.op = "forget"
         /\ Held' = pressed' \o (Flat(calls) \o Flat(Tail(todo)))
         /\ Flat(calls) \in Seq(AnyEvent) /\ Flat(Tail(todo)) \in Seq(AnyEvent)
  <1>1. todo \in Seq(Calls) /\ Call = todo[1] /\ todo' = calls \o Tail(todo)
        /\ Tail(todo) \in Seq(Calls)
    BY DEF TodoInv, Call, Then
  <1>2. TodoInv'
    <2>1. AllInPlace(todo, pressed = <<>>, Crowded)
      BY DEF TodoInv
    <2>2. /\ (\E j \in 1 .. Len(calls) : Releasing(calls[j])) => Releasing(todo[1])
          /\ todo[1].op = "forget" => calls = <<>>
          /\ todo[1].op = "pass" => calls = <<>> /\ (pressed = <<>> => pressed' = <<>>)
      BY <1>1
    <2> DEFINE later == pressed' = <<>>
               crowdedLater == Crowded'
               empty == pressed = <<>>
               crowded == Crowded
    <2>3. /\ AllInPlace(todo, empty, crowded) /\ AllInPlace(calls, later, crowdedLater)
          /\ crowded => crowdedLater \/ Len(todo) = 1
          /\ todo[1].op = "pass" => calls = <<>> /\ (empty => later)
      BY <2>1, <2>2
    <2> HIDE DEF later, crowdedLater, empty, crowded
    <2>4. calls \o Tail(todo) \in Seq(Calls) /\ AllInPlace(calls \o Tail(todo), later, crowdedLater)
      BY <1>1, <2>2, <2>3, StayInPlace
    <2> USE DEF later, crowdedLater
    <2> QED
      BY <1>1, <2>4 DEF TodoInv
  <1>3. /\ Len(calls) \in Nat /\ Len(todo) \in Nat /\ Len(Tail(todo)) = Len(todo) - 1
        /\ \A j \in 2 .. Len(todo) : j - 1 \in 1 .. Len(todo) - 1 /\ Tail(todo)[j - 1] = todo[j]
    BY <1>1
  <1>4. /\ Len(todo') = Len(calls) + (Len(todo) - 1)
        /\ \A j \in 1 .. Len(calls) + (Len(todo) - 1) :
             todo'[j] = IF j <= Len(calls) THEN calls[j] ELSE Tail(todo)[j - Len(calls)]
    BY <1>1, <1>3, ConcatProperties
  <1>5. ASSUME Call.op # "forget", ForgetDue PROVE ForgetDue'
    <2>1. PICK j \in 1 .. Len(todo) : todo[j].op = "forget"
      BY <1>5 DEF ForgetDue
    <2>2. j # 1 /\ j \in 2 .. Len(todo)
      <3>1. j # 1
        BY ONLY <1>1, <1>5, <2>1, Zenon
      <3>2. Len(todo) \in Nat /\ j \in 1 .. Len(todo)
        BY ONLY <1>3, <2>1, Zenon
      <3> QED
        BY ONLY <3>1, <3>2
    <2> DEFINE m == Len(calls) + (j - 1)
    <2>3. m \in 1 .. Len(calls) + (Len(todo) - 1) /\ ~(m <= Len(calls)) /\ m - Len(calls) = j - 1
      <3>1. PICK C \in Nat, N \in Nat : C = Len(calls) /\ N = Len(todo)
        BY <1>3
      <3>2. j \in 2 .. N
        BY <2>2, <3>1
      <3>3. /\ C + (j - 1) \in 1 .. C + (N - 1) /\ ~(C + (j - 1) <= C)
            /\ (C + (j - 1)) - C = j - 1
        BY <3>2
      <3> QED
        BY <3>1, <3>3
    <2> HIDE DEF m
    <2>4. todo'[m] = todo[j] /\ m \in 1 .. Len(todo')
      <3>1. m \in 1 .. Len(todo')
        BY ONLY <1>4, <2>3
      <3>2. todo'[m] = IF m <= Len(calls) THEN calls[m] ELSE Tail(todo)[m - Len(calls)]
        BY ONLY <1>4, <2>3, Zenon
      <3>3. todo'[m] = Tail(todo)[j - 1]
        BY ONLY <2>3, <3>2, Zenon
      <3>4. Tail(todo)[j - 1] = todo[j]
        BY ONLY <1>3, <2>2, Zenon
      <3> QED
        BY ONLY <3>1, <3>3, <3>4, Zenon
    <2> QED
      BY <2>1, <2>4 DEF ForgetDue
  <1>6. ASSUME calls # <<>> PROVE todo' # <<>> /\ Call' = calls[1]
    <2>1. calls \o Tail(todo) # <<>> /\ Head(calls \o Tail(todo)) = calls[1]
      BY <1>1, <1>6
    <2> QED
      BY <1>1, <2>1 DEF Call
  <1>7. ASSUME calls = <<>>, todo' # <<>>
        PROVE  Call'.op \notin {"cleanup", "pass"} /\ (Call'.op = "flush" => Call.op = "forget")
    <2>1. todo' = Tail(todo)
      BY <1>1, <1>7
    <2>2. 2 \in 1 .. Len(todo) /\ Head(Tail(todo)) = todo[2]
      BY <1>1, <1>7, <2>1
    <2>3. InPlace(todo, 2, pressed = <<>>, Crowded)
      BY <2>2 DEF TodoInv, AllInPlace
    <2>4. Call' = todo[2]
      BY <2>1, <2>2 DEF Call
    <2> QED
      BY <1>1, <2>3, <2>4 DEF InPlace
  <1>8. /\ Held' = pressed' \o (Flat(calls) \o Flat(Tail(todo)))
        /\ Flat(calls) \in Seq(AnyEvent) /\ Flat(Tail(todo)) \in Seq(AnyEvent)
    <2>1. Held' = pressed' \o Flat(todo')
      BY DEF Held, Flat, EventSeqs
    <2> QED
      BY <1>1, <2>1, FlatConcat, FlatType
  <1> QED
    BY <1>2, <1>5, <1>6, <1>7, <1>8

-----------------------------------------------------------------------------
(* Combos and their candidates *)

LEMMA ConfType ==
  ASSUME NEW c \in Combo
  PROVE  /\ Conf[c].keys \subseteq Key /\ Conf[c].timeout \in Nat \ {0} /\ Conf[c].idle \in Int
         /\ Conf[c].slow \in BOOLEAN /\ Conf[c].virtual \in Nat
         /\ IsFiniteSet(Conf[c].keys) /\ Conf[c].keys # {}
         /\ Size(c) \in Nat /\ Size(c) >= 1 /\ Size(c) < MaxPerKey
  <1>1. Conf[c] \in Config
    BY ComboAssumption
  <1>2. /\ Conf[c].keys \in SUBSET Key /\ Conf[c].timeout \in Nat \ {0} /\ Conf[c].idle \in Int
        /\ Conf[c].slow \in BOOLEAN /\ Conf[c].virtual \in Nat
    BY <1>1 DEF Config
  <1>3. IsFiniteSet(Key) /\ Conf[c].keys # {} /\ Cardinality(Conf[c].keys) < MaxPerKey
    BY ComboAssumption
  <1>4. IsFiniteSet(Conf[c].keys)
    BY <1>2, <1>3, FS_Subset
  <1>5. Cardinality(Conf[c].keys) \in Nat /\ Cardinality(Conf[c].keys) # 0
    BY <1>3, <1>4, FS_CardinalityType, FS_EmptySet
  <1> QED
    BY <1>2, <1>3, <1>4, <1>5 DEF Size

\* Presses of different keys of a set: at most as many as the set has, and then all.
LEMMA DistinctKeys ==
  ASSUME NEW K, IsFiniteSet(K), NEW n \in Nat, NEW p,
         \A i \in 1 .. n : p[i].key \in K,
         \A i, j \in 1 .. n : p[i].key = p[j].key => i = j
  PROVE  n <= Cardinality(K) /\ (n = Cardinality(K) => {p[i].key : i \in 1 .. n} = K)
  <1> DEFINE f == [i \in 1 .. n |-> p[i].key]
  <1>1. f \in Injection(1 .. n, K)
    BY DEF Injection, IsInjective
  <1>2. IsFiniteSet(1 .. n) /\ Cardinality(1 .. n) = n
    BY FS_Interval
  <1>3. Cardinality(1 .. n) <= Cardinality(K)
        /\ (Cardinality(1 .. n) = Cardinality(K) <=> f \in Surjection(1 .. n, K))
    BY <1>1, FS_Injection
  <1>4. ASSUME f \in Surjection(1 .. n, K) PROVE {p[i].key : i \in 1 .. n} = K
    <2>1. \A k \in K : \E i \in 1 .. n : f[i] = k
      BY <1>4 DEF Surjection
    <2>2. \A k \in K : \E i \in 1 .. n : p[i].key = k
      BY <2>1
    <2> QED
      BY <2>2
  <1> QED
    BY <1>2, <1>3, <1>4

LEMMA ForemostIn ==
  ASSUME NEW S \in SUBSET Combo, S # {}
  PROVE  Foremost(S) \in S
  <1>0. \A c \in S : c \in Combo /\ Size(c) \in Nat /\ Conf[c].virtual \in Nat
    BY ConfType
  <1> DEFINE sizes == {Size(c) : c \in S}
  <1>1. PICK c \in S : \A d \in S : Size(c) <= Size(d)
    <2>1. sizes \in SUBSET Nat /\ sizes # {}
      BY <1>0
    <2>2. \E n \in sizes : \A k \in sizes : n <= k
      <3> HIDE DEF sizes
      <3> QED
        BY <2>1, LeastOne
    <2> QED
      BY <2>2
  <1> DEFINE least == {d \in S : Size(d) = Size(c)}
             places == {Conf[d].virtual : d \in least}
  <1>2. PICK d \in least : \A a \in least : Conf[d].virtual <= Conf[a].virtual
    <2>1. places \in SUBSET Nat /\ places # {}
      BY <1>0
    <2>2. \E n \in places : \A k \in places : n <= k
      <3> HIDE DEF places
      <3> QED
        BY <2>1, LeastOne
    <2> QED
      BY <2>2
  <1>3. \A a \in S : \/ Size(d) < Size(a)
                     \/ Size(d) = Size(a) /\ Conf[d].virtual <= Conf[a].virtual
    BY <1>0, <1>1, <1>2
  <1> QED
    BY <1>2, <1>3 DEF Foremost

LEMMA FirstTimeoutType ==
  ASSUME NEW live, \A c \in DOMAIN live : live[c] \in Nat
  PROVE  FirstTimeout(live) \in Int
  <1> DEFINE T == {live[c] : c \in DOMAIN live} \cup {LongMax}
  <1>1. T \in SUBSET Nat /\ T # {}
    BY DEF LongMax
  <1>2. \A c \in DOMAIN live : live[c] \in T
    OBVIOUS
  <1> HIDE DEF T
  <1>3. PICK t \in T : \A k \in T : t <= k
    BY <1>1, LeastOne
  <1>4. \A c \in DOMAIN live : t <= live[c]
    BY <1>2, <1>3
  <1>5. (CHOOSE m \in T : \A c \in DOMAIN live : m <= live[c]) \in T
    BY <1>4
  <1>6. FirstTimeout(live) \in T
    BY <1>5 DEF FirstTimeout, T
  <1>7. T \subseteq Int
    BY <1>1
  <1> HIDE DEF FirstTimeout
  <1> QED
    BY ONLY <1>6, <1>7

LEMMA TaskType ==
  ASSUME TypeOK, NEW live, \A c \in DOMAIN live : live[c] \in Nat, UpdateTimeoutTask(live)
  PROVE  task' \in Int /\ taskAt' \in Int
  <1>1. FirstTimeout(live) \in Int /\ task \in Int /\ taskAt \in Int /\ now \in Int
    BY FirstTimeoutType, ComboAssumption DEF TypeOK
  <1> QED
    BY <1>1 DEF UpdateTimeoutTask, Never

LEMMA NoCandidates ==
  ASSUME CandInv
  PROVE  candidates = Nobody <=> DOMAIN candidates = {}
  BY DEF CandInv, Nobody

-----------------------------------------------------------------------------
(* Input, time and the timer *)

LEMMA InitInv ==
  ASSUME Init
  PROVE  IInv
  <1> USE DEF Init
  <1>1. Held = <<>>
    <2>1. todo \in Seq(Calls) /\ pressed \in Seq(Press)
      OBVIOUS
    <2> QED
      BY <2>1, HeldIs
  <1>2. TypeOK
    <2>1. /\ now \in 1 .. MaxTime /\ events \in 0 .. MaxEvents /\ others \in 0 .. MaxOthers
          /\ DOMAIN candidates \subseteq Combo
      BY ComboAssumption DEF Nobody
    <2>2. /\ pressed \in Seq(Press) /\ Len(pressed) <= MaxPerKey
          /\ active \in Seq([combo : Combo, keys : SUBSET Key]) /\ Len(active) <= MaxPressed
      BY ComboAssumption
    <2>3. {task, taskAt, lastTapped, lastCombo} \subseteq Int
      BY DEF Never, LongAgo
    <2> QED
      BY <2>1, <2>2, <2>3 DEF TypeOK
  <1>3. TodoInv
    BY DEF TodoInv, AllInPlace
  <1>4. HeadInv
    BY DEF HeadInv, Calling
  <1>5. HeldInv
    <2>1. EatenKeys = {} /\ Base = {}
      BY DEF EatenKeys, Base
    <2>2. Presses(<<>>) = {} /\ Releases(<<>>) = {}
      BY DEF Presses, Releases
    <2> QED
      BY <1>1, <2>1, <2>2 DEF HeldInv, Orderly, PressKeys, ReleaseKeys
  <1>6. ActiveInv
    BY DEF ActiveInv
  <1>7. CandInv
    BY DEF CandInv, Nobody
  <1>8. FullInv
    BY DEF FullInv
  <1> QED
    BY <1>2, <1>3, <1>4, <1>5, <1>6, <1>7, <1>8 DEF IInv

\* While nothing is to do, only presses wait, the captured ones.
LEMMA AtRest ==
  ASSUME IInv, Quiet
  PROVE  /\ Held = pressed /\ Releases(pressed) = {}
         /\ full # None => Complete(full, pressed)
         /\ candidates = Nobody => pressed = <<>>
         /\ down = Base \cup PressKeys(pressed)
  <1>1. todo = <<>> /\ pressed \in Seq(Press) /\ todo \in Seq(Calls)
    BY DEF IInv, TypeOK, TodoInv, Quiet
  <1>2. Held = pressed
    BY <1>1, HeldIs
  <1>3. Releases(pressed) = {}
    <2>1. \A i \in 1 .. Len(pressed) : pressed[i] \in Press
      BY <1>1
    <2>2. \A i \in 1 .. Len(pressed) : pressed[i].down
      BY <2>1, PressFields
    <2> QED
      BY <2>2 DEF Releases
  <1>4. full # None => Complete(full, pressed)
    BY <1>1 DEF IInv, FullInv, ForgetDue
  <1>5. candidates = Nobody => pressed = <<>>
    BY <1>1 DEF IInv, CandInv, Calling
  <1>6. down = Base \cup PressKeys(pressed)
    BY <1>2, <1>3 DEF IInv, HeldInv, Orderly, ReleaseKeys
  <1> QED
    BY <1>2, <1>3, <1>4, <1>5, <1>6

LEMMA TickStep ==
  ASSUME IInv, Tick
  PROVE  IInv' /\ Held' = Held
  <1> USE DEF IInv, Tick, input, listener, keymap, history
  <1>0. now \in Int /\ now' \in Int /\ now <= now' /\ now' \in 1 .. MaxTime
    BY ComboAssumption DEF TypeOK
  <1>1. Held' = Held
    BY DEF Held
  <1>2. TypeOK'
    BY <1>0 DEF TypeOK
  <1>3. TodoInv'
    BY DEF TodoInv, Crowded
  <1>4. HeadInv'
    BY DEF HeadInv, Calling, Call, EatenKeys, ForgetDue, Crowded
  <1>5. HeldInv'
    <2>1. Base' = Base
      BY DEF Base, EatenKeys
    <2>2. Orderly(Held, Base, down, now')
      BY <1>0, OrderlyLater DEF HeldInv
    <2> QED
      BY <1>1, <2>1, <2>2 DEF HeldInv
  <1>6. ActiveInv'
    BY DEF ActiveInv
  <1>7. CandInv'
    <2>1. \A c \in DOMAIN candidates :
            /\ candidates[c] \in Nat /\ candidates[c] <= now' + Conf[c].timeout
            /\ \A i \in 1 .. Len(pressed) : pressed[i].key \in Conf[c].keys
            /\ \A i \in 1 .. Len(Held) : candidates[c] <= Held[i].time + Conf[c].timeout
      <3> SUFFICES ASSUME NEW c \in DOMAIN candidates
                   PROVE  /\ candidates[c] \in Nat /\ candidates[c] <= now' + Conf[c].timeout
                          /\ \A i \in 1 .. Len(pressed) : pressed[i].key \in Conf[c].keys
                          /\ \A i \in 1 .. Len(Held) :
                               candidates[c] <= Held[i].time + Conf[c].timeout
        OBVIOUS
      <3>1. PICK d \in Nat : d = Conf[c].timeout
        BY ConfType DEF TypeOK
      <3>2. /\ candidates[c] \in Nat /\ candidates[c] <= now + Conf[c].timeout
            /\ \A i \in 1 .. Len(pressed) : pressed[i].key \in Conf[c].keys
            /\ \A i \in 1 .. Len(Held) : candidates[c] <= Held[i].time + Conf[c].timeout
        BY DEF CandInv
      <3>3. candidates[c] <= now' + Conf[c].timeout
        <4>1. PICK v \in Nat : v = candidates[c] /\ v <= now + d
          BY <3>1, <3>2
        <4>2. v <= now' + d
          BY <1>0, <4>1
        <4> QED
          BY <3>1, <4>1, <4>2
      <3> QED
        BY ONLY <3>2, <3>3
    <2> QED
      BY <1>1, <2>1 DEF CandInv, Calling, Call
  <1>8. FullInv'
    BY DEF FullInv, Complete, ForgetDue
  <1> QED
    BY <1>1, <1>2, <1>3, <1>4, <1>5, <1>6, <1>7, <1>8

LEMMA KeyEventStep ==
  ASSUME IInv, NEW k \in Key, KeyEvent(k)
  PROVE  /\ IInv'
         /\ \E e \in AnyEvent : /\ e.down = (e.key \notin down) /\ Held' = Append(Held, e)
                                /\ Releases(Held) = {}
         /\ UNCHANGED <<passed, active, on>>
  <1> DEFINE e == [key |-> k, down |-> k \notin down, time |-> now]
  <1>0. /\ Quiet /\ events < MaxEvents /\ events' = events + 1
        /\ down' = (IF k \in down THEN down \ {k} ELSE down \cup {k})
        /\ todo' = <<Raise(e)>>
        /\ UNCHANGED <<now, others, pressed, candidates, full, active, task, taskAt, lastTapped,
                       lastCombo, passed, layer, on, scope, disturbed>>
    BY DEF KeyEvent, listener, keymap, history
  <1>1. TypeOK /\ TodoInv /\ HeadInv /\ HeldInv /\ ActiveInv /\ CandInv /\ FullInv
    BY DEF IInv
  <1>2. e \in AnyEvent /\ e.key = k /\ e.down = (k \notin down) /\ e.time = now /\ now \in Int
    BY <1>1, ComboAssumption DEF AnyEvent, TypeOK
  <1> HIDE DEF e
  <1>3. /\ Held = pressed /\ Releases(Held) = {}
        /\ full # None => Complete(full, pressed)
        /\ candidates = Nobody => pressed = <<>>
        /\ pressed \in Seq(Press)
    BY <1>0, <1>1, AtRest DEF TypeOK
  <1>4. pressed \in Seq(AnyEvent)
    BY <1>3, ReleaseIsEvent
  <1>5. Raise(e) \in Calls /\ todo' \in Seq(Calls)
    <2>1. Raise(e) \in Calls
      BY <1>2, CallTypes
    <2> QED
      BY <1>0, <2>1
  <1>6. Held' = Append(Held, e)
    <2>1. Flat(todo') = <<e>>
      BY <1>0, <1>5, FlatFew, EventsOfCall
    <2>2. Held' = pressed' \o Flat(todo')
      BY DEF Held, Flat, EventSeqs
    <2>3. Append(pressed, e) = pressed \o <<e>>
      BY <1>2, <1>4, AppendIsConcat
    <2> QED
      BY <1>0, <1>3, <2>1, <2>2, <2>3
  <1>7. Base' = Base
    BY <1>0 DEF Base, EatenKeys
  <1>8. TypeOK'
    <2>1. events' \in 0 .. MaxEvents
      BY <1>0, <1>1, ComboAssumption DEF TypeOK
    <2>2. down' \subseteq Key
      BY <1>0, <1>1 DEF TypeOK
    <2> QED
      BY <1>0, <1>1, <2>1, <2>2 DEF TypeOK
  <1>9. TodoInv'
    <2>1. AllInPlace(<<Raise(e)>>, pressed' = <<>>, Crowded')
      BY DEF AllInPlace, InPlace, Raise, Releasing
    <2> QED
      BY <1>0, <1>5, <2>1 DEF TodoInv
  <1>10. HeadInv'
    BY <1>0 DEF HeadInv, Calling, Raise
  <1>11. HeldInv'
    <2>1. Orderly(Held, Base, down, now)
      BY <1>1 DEF HeldInv
    <2>2. Orderly(Append(Held, e), Base,
                  IF e.down THEN down \cup {e.key} ELSE down \ {e.key}, now)
      BY <1>2, <1>3, <2>1, OrderlyEnter
    <2>3. down' = IF e.down THEN down \cup {e.key} ELSE down \ {e.key}
      BY <1>0, <1>2
    <2> QED
      BY <1>0, <1>6, <1>7, <2>2, <2>3 DEF HeldInv
  <1>12. ActiveInv'
    BY <1>0, <1>1 DEF ActiveInv
  <1>13. CandInv'
    <2>1. /\ candidates' = [c \in DOMAIN candidates' |-> candidates'[c]]
          /\ candidates' = Nobody => pressed' = <<>>
      BY <1>0, <1>1, <1>3 DEF CandInv
    <2>2. ASSUME NEW c \in DOMAIN candidates
          PROVE  /\ candidates[c] \in Nat /\ candidates[c] <= now + Conf[c].timeout
                 /\ \A i \in 1 .. Len(pressed) : pressed[i].key \in Conf[c].keys
                 /\ \A i \in 1 .. Len(Held') : candidates[c] <= Held'[i].time + Conf[c].timeout
      <3>1. /\ candidates[c] \in Nat /\ candidates[c] <= now + Conf[c].timeout
            /\ \A i \in 1 .. Len(pressed) : pressed[i].key \in Conf[c].keys
            /\ \A i \in 1 .. Len(Held) : candidates[c] <= Held[i].time + Conf[c].timeout
        BY <1>1 DEF CandInv
      <3>2. PICK L \in Nat : L = Len(Held)
        BY <1>3, <1>4
      <3>3. Len(Held') = L + 1 /\ Held'[L + 1] = e /\ \A i \in 1 .. L : Held'[i] = Held[i]
        BY <1>2, <1>3, <1>4, <1>6, <3>2
      <3>4. ASSUME NEW i \in 1 .. L + 1 PROVE candidates[c] <= Held'[i].time + Conf[c].timeout
        <4>1. CASE i = L + 1
          BY <1>2, <3>1, <3>3, <4>1
        <4>2. CASE i \in 1 .. L
          BY <3>1, <3>2, <3>3, <4>2
        <4> QED
          BY <4>1, <4>2
      <3> QED
        BY <3>1, <3>3, <3>4
    <2> QED
      BY <1>0, <2>1, <2>2 DEF CandInv
  <1>14. FullInv'
    BY <1>0, <1>3 DEF FullInv, Complete
  <1> QED
    BY <1>0, <1>2, <1>3, <1>6, <1>8, <1>9, <1>10, <1>11, <1>12, <1>13, <1>14 DEF IInv

\* Fewer candidates, and the rest as it was.
LEMMA FewerCandidates ==
  ASSUME CandInv, NEW S, candidates' = Keep(S), UNCHANGED <<now, pressed>>, Held' = Held,
         candidates' = Nobody => pressed = <<>> \/ Calling("cleanup")'
  PROVE  CandInv' /\ DOMAIN candidates' \subseteq DOMAIN candidates
         /\ \A c \in DOMAIN candidates' : candidates'[c] = candidates[c]
  <1>1. /\ DOMAIN candidates' = DOMAIN candidates \cap S
        /\ \A c \in DOMAIN candidates' : candidates'[c] = candidates[c]
        /\ candidates' = [c \in DOMAIN candidates' |-> candidates'[c]]
    BY DEF Keep
  <1>2. \A c \in DOMAIN candidates' : c \in DOMAIN candidates
    BY <1>1
  <1>3. ASSUME NEW c \in DOMAIN candidates'
        PROVE  /\ candidates'[c] \in Nat /\ candidates'[c] <= now + Conf[c].timeout
               /\ \A i \in 1 .. Len(pressed) : pressed[i].key \in Conf[c].keys
               /\ \A i \in 1 .. Len(Held) : candidates'[c] <= Held[i].time + Conf[c].timeout
    BY <1>1, <1>2 DEF CandInv
  <1>4. CandInv'
    BY <1>1, <1>3 DEF CandInv
  <1> QED
    BY <1>1, <1>2, <1>4

LEMMA TimeoutStep ==
  ASSUME IInv, Timeout
  PROVE  IInv' /\ Held' = Held
  <1>0. /\ Quiet /\ task' = Never
        /\ UNCHANGED <<now, events, others, down, layer, scope, disturbed,
                       pressed, full, active, taskAt, lastTapped, lastCombo,
                       passed, on>>
        /\ \/ UNCHANGED <<candidates, todo>>
           \/ /\ candidates' = Keep(Unexpired(taskAt))
              /\ todo' = IF candidates' = Nobody THEN <<Cleanup(NoEvent), Update>> ELSE <<Update>>
    BY DEF Timeout, input, keymap, history
  <1>1. TypeOK /\ TodoInv /\ HeadInv /\ HeldInv /\ ActiveInv /\ CandInv /\ FullInv /\ todo = <<>>
    BY <1>0 DEF IInv, Quiet
  <1>2. /\ Held = pressed /\ (full # None => Complete(full, pressed))
        /\ (candidates = Nobody => pressed = <<>>) /\ pressed \in Seq(Press)
    BY <1>0, <1>1, AtRest DEF TypeOK
  <1>3. Cleanup(NoEvent) \in Calls /\ Update \in Calls
    BY CallTypes DEF Waiting
  <1>4. /\ todo' \in Seq(Calls) /\ Flat(todo') = <<>>
        /\ AllInPlace(todo', pressed' = <<>>, Crowded')
        /\ todo' # <<>> => Head(todo').op \in {"cleanup", "update"}
        /\ candidates' = Nobody => pressed = <<>> \/ (todo' # <<>> /\ Head(todo').op = "cleanup")
    <2>1. CASE todo' = <<>> /\ candidates' = candidates
      BY <1>2, <2>1, FlatFew DEF AllInPlace
    <2>2. CASE todo' = <<Update>> /\ candidates' # Nobody
      <3>1. Flat(<<Update>>) = <<>>
        BY <1>3, FlatFew, EventsOfCall
      <3>2. AllInPlace(<<Update>>, pressed' = <<>>, Crowded')
        BY DEF AllInPlace, InPlace, Update, Releasing
      <3>3. <<Update>> \in Seq(Calls)
        BY <1>3
      <3> QED
        BY <2>2, <3>1, <3>2, <3>3 DEF Update
    <2>3. CASE todo' = <<Cleanup(NoEvent), Update>>
      <3>1. <<Cleanup(NoEvent)>> \in Seq(Calls) /\ <<Update>> \in Seq(Calls)
            /\ <<Cleanup(NoEvent), Update>> = <<Cleanup(NoEvent)>> \o <<Update>>
        BY <1>3
      <3>2. Flat(<<Cleanup(NoEvent), Update>>) = <<>>
        <4>1. Flat(<<Cleanup(NoEvent)>>) = <<>> /\ Flat(<<Update>>) = <<>>
          BY <1>3, FlatFew, EventsOfCall
        <4>2. Flat(<<Cleanup(NoEvent)>> \o <<Update>>) = <<>> \o <<>>
          BY <3>1, <4>1, FlatConcat
        <4>3. <<>> \o <<>> = <<>>
          OBVIOUS
        <4>4. <<Cleanup(NoEvent), Update>> = <<Cleanup(NoEvent)>> \o <<Update>>
          BY <3>1
        <4> QED
          BY ONLY <4>2, <4>3, <4>4
      <3>3. AllInPlace(<<Cleanup(NoEvent), Update>>, pressed' = <<>>, Crowded')
        <4> DEFINE t == <<Cleanup(NoEvent), Update>>
        <4>1. Len(t) = 2 /\ t[1] = Cleanup(NoEvent) /\ t[2] = Update
          OBVIOUS
        <4> HIDE DEF t
        <4>2. InPlace(t, 1, pressed' = <<>>, Crowded')
          BY <4>1 DEF InPlace, Cleanup, Releasing
        <4>3. InPlace(t, 2, pressed' = <<>>, Crowded')
          BY <4>1 DEF InPlace, Update, Releasing
        <4>4. AllInPlace(t, pressed' = <<>>, Crowded')
          BY <4>1, <4>2, <4>3 DEF AllInPlace
        <4> QED
          BY <4>4 DEF t
      <3> QED
        BY <1>3, <2>3, <3>2, <3>3 DEF Cleanup
    <2> QED
      BY <1>0, <1>1, <2>1, <2>2, <2>3
  <1>5. Held' = Held
    <2>1. Held' = pressed' \o Flat(todo')
      BY DEF Held, Flat, EventSeqs
    <2> QED
      BY <1>0, <1>2, <1>4, <2>1
  <1>6. Base' = Base /\ Crowded' = Crowded
    BY <1>0 DEF Base, EatenKeys, Crowded
  <1>7. CandInv' /\ DOMAIN candidates' \subseteq DOMAIN candidates
    <2>1. candidates' = Nobody => pressed = <<>> \/ Calling("cleanup")'
      BY <1>4 DEF Calling
    <2>2. CASE candidates' = candidates
      BY <1>0, <1>1, <1>5, <2>1, <2>2 DEF CandInv
    <2>3. CASE candidates' = Keep(Unexpired(taskAt))
      BY <1>0, <1>1, <1>5, <2>1, <2>3, FewerCandidates
    <2> QED
      BY <1>0, <2>2, <2>3
  <1>8. TypeOK'
    BY <1>0, <1>1, <1>7 DEF TypeOK, Never
  <1>9. TodoInv'
    BY <1>4 DEF TodoInv
  <1>10. HeadInv'
    BY <1>4 DEF HeadInv, Calling, Call
  <1>11. HeldInv'
    BY <1>0, <1>1, <1>5, <1>6 DEF HeldInv
  <1>12. ActiveInv'
    BY <1>0, <1>1 DEF ActiveInv
  <1>13. FullInv'
    BY <1>0, <1>2 DEF FullInv, Complete
  <1> QED
    BY <1>5, <1>7, <1>8, <1>9, <1>10, <1>11, <1>12, <1>13 DEF IInv

-----------------------------------------------------------------------------
(* Calls that leave the line as it is *)

LEMMA TailOfOne ==
  ASSUME NEW S, NEW s \in Seq(S), Len(s) = 1
  PROVE  Tail(s) = <<>> /\ s = <<s[1]>>
  <1>1. Tail(s) \in Seq(S) /\ Len(Tail(s)) = 0
    OBVIOUS
  <1>2. Tail(s) = <<>>
    BY <1>1, EmptySeq
  <1>3. s[1] \in S
    OBVIOUS
  <1>4. <<s[1]>> \in Seq(S) /\ Len(<<s[1]>>) = 1 /\ <<s[1]>>[1] = s[1]
    BY <1>3
  <1>5. \A i \in 1 .. Len(s) : s[i] = <<s[1]>>[i]
    BY <1>4
  <1>6. s = <<s[1]>>
    BY <1>4, <1>5, SeqEqual
  <1> QED
    BY <1>2, <1>6

LEMMA TheCall ==
  ASSUME IInv, todo # <<>>
  PROVE  /\ todo \in Seq(Calls) /\ pressed \in Seq(Press) /\ pressed \in Seq(AnyEvent)
         /\ Call = todo[1] /\ Call \in Calls /\ Tail(todo) \in Seq(Calls)
         /\ InPlace(todo, 1, pressed = <<>>, Crowded)
         /\ Releasing(Call) => Len(todo) = 1 /\ Tail(todo) = <<>> /\ ~ForgetDue
         /\ Held = pressed \o (EventsOf(Call) \o Flat(Tail(todo)))
         /\ Flat(Tail(todo)) \in Seq(AnyEvent) /\ EventsOf(Call) \in Seq(AnyEvent)
  <1>1. todo \in Seq(Calls) /\ pressed \in Seq(Press)
    BY DEF IInv, TodoInv, TypeOK
  <1>2. Call = todo[1] /\ Call \in Calls /\ Tail(todo) \in Seq(Calls) /\ 1 \in 1 .. Len(todo)
    BY <1>1 DEF Call
  <1>3. InPlace(todo, 1, pressed = <<>>, Crowded)
    BY <1>2 DEF IInv, TodoInv, AllInPlace
  <1>4. ASSUME Releasing(Call) PROVE Len(todo) = 1 /\ Tail(todo) = <<>> /\ ~ForgetDue
    <2>1. Len(todo) = 1
      BY <1>2, <1>3, <1>4 DEF InPlace
    <2>2. Tail(todo) = <<>>
      BY <1>1, <2>1, TailOfOne
    <2>3. Call.op # "forget"
      BY <1>4 DEF Releasing
    <2> QED
      BY <1>2, <2>1, <2>2, <2>3 DEF ForgetDue
  <1>5. /\ Held = pressed \o (EventsOf(Call) \o Flat(Tail(todo))) /\ pressed \in Seq(AnyEvent)
        /\ Flat(Tail(todo)) \in Seq(AnyEvent) /\ EventsOf(Call) \in Seq(AnyEvent)
    BY <1>1, <1>2, HeldIs, FlatThen
  <1> QED
    BY <1>1, <1>2, <1>3, <1>4, <1>5

\* One call is replaced by another, or returns.
LEMMA OneInPlace ==
  ASSUME NEW c \in Calls, NEW empty, NEW crowded, c.op # "forget",
         c.op = "key-up" /\ c.released <= 1 => empty
  PROVE  <<c>> \in Seq(Calls) /\ <<c>> # <<>> /\ Len(<<c>>) = 1 /\ <<c>>[1] = c
         /\ AllInPlace(<<c>>, empty, crowded)
         /\ ((\E j \in 1 .. Len(<<c>>) : Releasing(<<c>>[j])) <=> Releasing(c))
  <1> DEFINE t == <<c>>
  <1>1. t \in Seq(Calls) /\ t # <<>> /\ Len(t) = 1 /\ t[1] = c
    OBVIOUS
  <1> HIDE DEF t
  <1>2. InPlace(t, 1, empty, crowded)
    BY <1>1 DEF InPlace
  <1>3. AllInPlace(t, empty, crowded)
    BY <1>1, <1>2 DEF AllInPlace
  <1>4. (\E j \in 1 .. Len(t) : Releasing(t[j])) <=> Releasing(c)
    BY <1>1
  <1> QED
    BY <1>1, <1>3, <1>4 DEF t

LEMMA NoneInPlace ==
  ASSUME NEW empty, NEW crowded
  PROVE  <<>> \in Seq(Calls) /\ AllInPlace(<<>>, empty, crowded) /\ Flat(<<>>) = <<>>
         /\ ~\E j \in 1 .. Len(<<>>) : Releasing(<<>>[j])
  BY FlatFew DEF AllInPlace

\* The line, its keys and the time are the same: so are the facts about them.
LEMMA SameLine ==
  ASSUME IInv, Held' = Held, UNCHANGED <<passed, active, on, down, now>>
  PROVE  HeldInv' /\ ActiveInv' /\ Base' = Base /\ EatenKeys' = EatenKeys /\ Crowded' = Crowded
  <1>1. Base' = Base /\ EatenKeys' = EatenKeys /\ Crowded' = Crowded
    BY DEF Base, EatenKeys, Crowded
  <1>2. HeldInv'
    BY <1>1 DEF IInv, HeldInv
  <1>3. ActiveInv'
    BY DEF IInv, ActiveInv
  <1> QED
    BY <1>1, <1>2, <1>3

LEMMA SameCandidates ==
  ASSUME IInv, Held' = Held, UNCHANGED <<now, pressed, candidates>>,
         candidates = Nobody => pressed = <<>> \/ Calling("cleanup")' \/ Calling("flush")'
  PROVE  CandInv'
  BY DEF IInv, CandInv

LEMMA BubbleStep ==
  ASSUME IInv, Bubble
  PROVE  IInv' /\ Held' = Held /\ UNCHANGED <<passed, active, on>>
  <1>0. /\ todo # <<>> /\ Call.op = "raise" /\ Call.event.down /\ candidates = Nobody
        /\ Then(<<Pass(Call.event)>>)
        /\ UNCHANGED <<now, events, others, down, layer, scope, disturbed,
                       pressed, candidates, full, active, task, taskAt,
                       lastTapped, lastCombo, passed, on>>
    BY DEF Bubble, input, listener, keymap, history, Calling, Call
  <1>1. TypeOK /\ TodoInv /\ HeadInv /\ HeldInv /\ ActiveInv /\ CandInv /\ FullInv
    BY DEF IInv
  <1>2. /\ pressed \in Seq(AnyEvent) /\ Call \in Calls /\ Call = todo[1]
        /\ Held = pressed \o (EventsOf(Call) \o Flat(Tail(todo)))
    BY <1>0, TheCall
  <1> DEFINE c == Pass(Call.event)
  <1>3. /\ c \in Calls /\ EventsOf(c) = EventsOf(Call) /\ c.op = "pass" /\ c.event = Call.event
        /\ ~Releasing(c)
    <2>1. Call.event \in AnyEvent /\ Call = Raise(Call.event)
      BY <1>0, <1>2, CallFields
    <2> QED
      BY <1>0, <2>1, CallTypes, EventsOfCall DEF Pass, Releasing
  <1> HIDE DEF c
  <1>4. /\ <<c>> \in Seq(Calls) /\ <<c>> # <<>> /\ Len(<<c>>) = 1 /\ <<c>>[1] = c
        /\ AllInPlace(<<c>>, pressed' = <<>>, Crowded') /\ Flat(<<c>>) = EventsOf(c)
        /\ ((\E j \in 1 .. Len(<<c>>) : Releasing(<<c>>[j])) <=> Releasing(c))
    BY <1>3, OneInPlace, FlatFew
  <1>5. Then(<<c>>) /\ (Crowded => Crowded')
    BY <1>0 DEF c, Crowded
  <1>6. /\ TodoInv' /\ (ForgetDue => ForgetDue') /\ todo' # <<>> /\ Call' = c
        /\ Held' = pressed' \o (Flat(<<c>>) \o Flat(Tail(todo)))
    BY <1>0, <1>1, <1>3, <1>4, <1>5, Proceed
  <1>7. Held' = Held
    BY <1>0, <1>2, <1>3, <1>4, <1>6
  <1>8. pressed = <<>>
    BY <1>0, <1>1 DEF CandInv, Calling, Call
  <1>9. TypeOK'
    BY <1>0, <1>1 DEF TypeOK
  <1>10. HeadInv'
    BY <1>0, <1>3, <1>6, <1>8 DEF HeadInv, Calling, Call
  <1>11. HeldInv' /\ ActiveInv'
    BY <1>0, <1>7, SameLine
  <1>12. CandInv'
    BY <1>0, <1>7, <1>8, SameCandidates
  <1>13. FullInv'
    BY <1>0, <1>1, <1>6 DEF FullInv, Complete
  <1> QED
    BY <1>0, <1>6, <1>7, <1>9, <1>10, <1>11, <1>12, <1>13 DEF IInv

LEMMA LetGoStep ==
  ASSUME IInv, LetGo
  PROVE  IInv' /\ Held' = Held /\ UNCHANGED <<passed, active, on>>
  <1>0. /\ todo # <<>> /\ Call.op = "raise" /\ ~Call.event.down
        /\ Then(<<Cleanup(Call.event)>>)
        /\ UNCHANGED <<now, events, others, down, layer, scope, disturbed,
                       pressed, candidates, full, active, task, taskAt,
                       lastTapped, lastCombo, passed, on>>
    BY DEF LetGo, OnUp, input, listener, keymap, history, Calling, Call
  <1>1. TypeOK /\ TodoInv /\ HeadInv /\ HeldInv /\ ActiveInv /\ CandInv /\ FullInv
    BY DEF IInv
  <1>2. /\ pressed \in Seq(AnyEvent) /\ Call \in Calls /\ Call = todo[1]
        /\ Held = pressed \o (EventsOf(Call) \o Flat(Tail(todo)))
    BY <1>0, TheCall
  <1> DEFINE c == Cleanup(Call.event)
  <1>3. /\ c \in Calls /\ EventsOf(c) = EventsOf(Call) /\ c.op = "cleanup" /\ Releasing(Call)
    <2>1. Call.event \in AnyEvent /\ Call = Raise(Call.event) /\ Call.event # NoEvent
      BY <1>0, <1>2, CallFields, SomeEvent
    <2>2. Call.event \in Waiting
      BY <1>0, <2>1 DEF AnyEvent, Waiting, Release
    <2> QED
      BY <1>0, <2>1, <2>2, CallTypes, EventsOfCall DEF Cleanup, Releasing
  <1> HIDE DEF c
  <1>4. /\ <<c>> \in Seq(Calls) /\ <<c>> # <<>> /\ Len(<<c>>) = 1 /\ <<c>>[1] = c
        /\ AllInPlace(<<c>>, pressed' = <<>>, Crowded') /\ Flat(<<c>>) = EventsOf(c)
        /\ ((\E j \in 1 .. Len(<<c>>) : Releasing(<<c>>[j])) <=> Releasing(c))
    BY <1>3, OneInPlace, FlatFew
  <1>5. Then(<<c>>) /\ (Crowded => Crowded')
    BY <1>0 DEF c, Crowded
  <1>6. /\ TodoInv' /\ (ForgetDue => ForgetDue') /\ todo' # <<>> /\ Call' = c
        /\ Held' = pressed' \o (Flat(<<c>>) \o Flat(Tail(todo)))
    BY <1>0, <1>1, <1>3, <1>4, <1>5, Proceed
  <1>7. Held' = Held
    BY <1>0, <1>2, <1>3, <1>4, <1>6
  <1>9. TypeOK'
    BY <1>0, <1>1 DEF TypeOK
  <1>10. HeadInv' /\ Calling("cleanup")'
    BY <1>0, <1>3, <1>6 DEF HeadInv, Calling, Call
  <1>11. HeldInv' /\ ActiveInv'
    BY <1>0, <1>7, SameLine
  <1>12. CandInv'
    BY <1>0, <1>7, <1>10, SameCandidates
  <1>13. FullInv'
    BY <1>0, <1>1, <1>6 DEF FullInv, Complete
  <1> QED
    BY <1>0, <1>6, <1>7, <1>9, <1>10, <1>11, <1>12, <1>13 DEF IInv

\* A call returns that held no event.
LEMMA Returns ==
  ASSUME IInv, todo # <<>>, Then(<<>>), EventsOf(Call) = <<>>, Call.op # "pass",
         UNCHANGED <<pressed, active>>
  PROVE  /\ TodoInv' /\ Held' = Held
         /\ Call.op # "forget" /\ ForgetDue => ForgetDue'
         /\ todo' # <<>> => /\ Call'.op \notin {"cleanup", "pass"}
                            /\ Call'.op = "flush" => Call.op = "forget"
  <1>1. TodoInv /\ (Crowded => Crowded')
    BY DEF IInv, Crowded
  <1>2. /\ <<>> \in Seq(Calls) /\ AllInPlace(<<>>, pressed' = <<>>, Crowded') /\ Flat(<<>>) = <<>>
        /\ ~\E j \in 1 .. Len(<<>>) : Releasing(<<>>[j])
    BY NoneInPlace
  <1>3. /\ TodoInv' /\ Held' = pressed' \o (Flat(<<>>) \o Flat(Tail(todo)))
        /\ Call.op # "forget" /\ ForgetDue => ForgetDue'
        /\ todo' # <<>> => /\ Call'.op \notin {"cleanup", "pass"}
                           /\ Call'.op = "flush" => Call.op = "forget"
    BY <1>1, <1>2, Proceed
  <1>4. Held = pressed \o (EventsOf(Call) \o Flat(Tail(todo)))
    BY TheCall
  <1>5. Held' = Held
    BY <1>2, <1>3, <1>4
  <1> QED
    BY <1>3, <1>5

LEMMA UpdateTaskStep ==
  ASSUME IInv, UpdateTask
  PROVE  IInv' /\ Held' = Held /\ UNCHANGED <<passed, active, on>>
  <1>0. /\ todo # <<>> /\ Call.op = "update" /\ Then(<<>>) /\ UpdateTimeoutTask(candidates)
        /\ UNCHANGED <<now, events, others, down, layer, scope, disturbed,
                       pressed, candidates, full, active,
                       lastTapped, lastCombo, passed, on>>
    BY DEF UpdateTask, input, keymap, history, Calling, Call
  <1>1. TypeOK /\ TodoInv /\ HeadInv /\ HeldInv /\ ActiveInv /\ CandInv /\ FullInv
    BY DEF IInv
  <1>2. Call \in Calls /\ EventsOf(Call) = <<>>
    <2>1. Call \in Calls
      BY <1>0, TheCall
    <2> QED
      BY <1>0, <2>1, CallFields, EventsOfCall
  <1>3. /\ TodoInv' /\ Held' = Held /\ (ForgetDue => ForgetDue')
        /\ todo' # <<>> => Call'.op \notin {"cleanup", "pass", "flush"}
    BY <1>0, <1>2, Returns
  <1>4. TypeOK'
    <2>1. \A c \in DOMAIN candidates : candidates[c] \in Nat
      BY <1>1 DEF CandInv
    <2>2. task' \in Int /\ taskAt' \in Int
      BY <1>0, <1>1, <2>1, TaskType
    <2> QED
      BY <1>0, <1>1, <2>2 DEF TypeOK
  <1>5. HeadInv'
    BY <1>3 DEF HeadInv, Calling, Call
  <1>6. HeldInv' /\ ActiveInv'
    BY <1>0, <1>3, SameLine
  <1>7. CandInv'
    <2>1. candidates = Nobody => pressed = <<>>
      BY <1>0, <1>1 DEF CandInv, Calling, Call
    <2> QED
      BY <1>0, <1>3, <2>1, SameCandidates
  <1>8. FullInv'
    BY <1>0, <1>1, <1>3 DEF FullInv, Complete
  <1> QED
    BY <1>0, <1>3, <1>4, <1>5, <1>6, <1>7, <1>8 DEF IInv

LEMMA ForgetFullStep ==
  ASSUME IInv, ForgetFull
  PROVE  IInv' /\ Held' = Held /\ UNCHANGED <<passed, active, on>>
  <1>0. /\ todo # <<>> /\ Call.op = "forget" /\ Then(<<>>) /\ full' = None
        /\ UNCHANGED <<now, events, others, down, layer, scope, disturbed,
                       pressed, candidates, active, task, taskAt,
                       lastTapped, lastCombo, passed, on>>
    BY DEF ForgetFull, input, keymap, history, Calling, Call
  <1>1. TypeOK /\ TodoInv /\ HeadInv /\ HeldInv /\ ActiveInv /\ CandInv /\ FullInv
    BY DEF IInv
  <1>2. Call \in Calls /\ EventsOf(Call) = <<>> /\ Crowded
    <2>1. Call \in Calls /\ Call = todo[1] /\ InPlace(todo, 1, pressed = <<>>, Crowded)
      BY <1>0, TheCall
    <2>2. EventsOf(Call) = <<>>
      BY <1>0, <2>1, CallFields, EventsOfCall
    <2> QED
      BY <1>0, <2>1, <2>2 DEF InPlace
  <1>3. /\ TodoInv' /\ Held' = Held
        /\ todo' # <<>> => Call'.op \notin {"cleanup", "pass"}
    BY <1>0, <1>2, Returns
  <1>4. TypeOK'
    BY <1>0, <1>1 DEF TypeOK
  <1>6. HeldInv' /\ ActiveInv' /\ Crowded'
    BY <1>0, <1>2, <1>3, SameLine
  <1>5. HeadInv'
    BY <1>0, <1>3, <1>6 DEF HeadInv, Calling, Call
  <1>7. CandInv'
    <2>1. candidates = Nobody => pressed = <<>>
      BY <1>0, <1>1 DEF CandInv, Calling, Call
    <2> QED
      BY <1>0, <1>3, <2>1, SameCandidates
  <1>8. FullInv'
    BY <1>0 DEF FullInv
  <1> QED
    BY <1>0, <1>3, <1>4, <1>5, <1>6, <1>7, <1>8 DEF IInv

LEMMA ReleasePressedKeysStep ==
  ASSUME IInv, ReleasePressedKeys
  PROVE  IInv' /\ Held' = Held /\ UNCHANGED <<passed, active, on>>
  <1> DEFINE up == IF Call.then = NoEvent THEN <<>> ELSE <<KeyUp(Call.then, Len(pressed))>>
             anew == [i \in 1 .. Len(pressed) |-> Anew(i)]
             calls == anew \o up
  <1>0. /\ todo # <<>> /\ Call.op = "flush" /\ Then(calls) /\ pressed' = <<>>
        /\ UNCHANGED <<now, events, others, down, layer, scope, disturbed,
                       candidates, full, active, task, taskAt,
                       lastTapped, lastCombo, passed, on>>
    BY DEF ReleasePressedKeys, input, keymap, history, Calling, Call
  <1>1. TypeOK /\ TodoInv /\ HeadInv /\ HeldInv /\ ActiveInv /\ CandInv /\ FullInv
    BY DEF IInv
  <1>2. /\ pressed \in Seq(Press) /\ pressed \in Seq(AnyEvent) /\ Call \in Calls /\ Call = todo[1]
        /\ Held = pressed \o (EventsOf(Call) \o Flat(Tail(todo)))
        /\ Flat(Tail(todo)) \in Seq(AnyEvent) /\ EventsOf(Call) \in Seq(AnyEvent)
        /\ Releasing(Call) => Len(todo) = 1
    BY <1>0, TheCall
  <1>3. Call.then \in Waiting /\ Call = Flush(Call.then)
    BY <1>0, <1>2, CallFields
  <1>4. PICK L \in Nat : L = Len(pressed)
    BY <1>2
  <1>5. /\ anew \in Seq(Calls) /\ Len(anew) = L /\ Flat(anew) = pressed
        /\ \A i \in 1 .. L : anew[i] = IF i = 1 THEN Pass(pressed[i]) ELSE Raise(pressed[i])
        /\ \A i \in 1 .. L : pressed[i] \in Press /\ pressed[i].down
    <2>1. \A i \in 1 .. L : pressed[i] \in Press /\ pressed[i].down /\ pressed[i] \in AnyEvent
      BY <1>2, <1>4, PressFields, ReleaseIsEvent
    <2>2. \A i \in 1 .. L : Anew(i) \in Calls /\ EventsOf(Anew(i)) = <<pressed[i]>>
      BY <2>1, CallTypes, EventsOfCall DEF Anew
    <2>3. anew \in Seq(Calls) /\ Len(anew) = L /\ \A i \in 1 .. L : anew[i] = Anew(i)
      BY <1>4, <2>2
    <2> HIDE DEF anew
    <2>4. Flat(anew) = pressed
      BY <1>2, <1>4, <2>2, <2>3, FlattenTwoSingles
    <2> QED
      BY <2>1, <2>3, <2>4 DEF Anew
  <1>6. /\ up \in Seq(Calls) /\ Flat(up) = EventsOf(Call)
        /\ \/ Call.then = NoEvent /\ up = <<>>
           \/ /\ Call.then # NoEvent /\ Releasing(Call) /\ Len(up) = 1
              /\ up[1] = KeyUp(Call.then, L) /\ Call.then \in Release
    <2>1. CASE Call.then = NoEvent
      <3>1. up = <<>> /\ EventsOf(Call) = <<>>
        BY <1>3, <2>1, EventsOfCall
      <3> QED
        BY <2>1, <3>1, FlatFew
    <2>2. CASE Call.then # NoEvent
      <3>1. Call.then \in Release /\ EventsOf(Call) = <<Call.then>>
        BY <1>3, <2>2, EventsOfCall DEF Waiting
      <3>2. KeyUp(Call.then, L) \in Calls /\ EventsOf(KeyUp(Call.then, L)) = <<Call.then>>
        BY <3>1, CallTypes, EventsOfCall
      <3>3. up = <<KeyUp(Call.then, L)>>
        BY <1>4, <2>2
      <3>4. up \in Seq(Calls) /\ Len(up) = 1 /\ up[1] = KeyUp(Call.then, L)
        BY <3>2, <3>3
      <3>5. Flat(up) = <<Call.then>>
        BY <3>2, <3>3, FlatFew
      <3> QED
        BY <1>0, <2>2, <3>1, <3>4, <3>5 DEF Releasing
    <2> QED
      BY <2>1, <2>2
  <1> HIDE DEF anew, up
  <1> DEFINE M == Len(up)
  <1>7. /\ calls \in Seq(Calls) /\ M \in {0, 1} /\ Len(calls) = L + M
        /\ \A j \in 1 .. L + M : calls[j] = IF j <= L THEN anew[j] ELSE up[j - L]
        /\ Flat(calls) = pressed \o EventsOf(Call)
    <2>1. M \in {0, 1}
      BY <1>6
    <2>2. Flat(calls) = pressed \o EventsOf(Call)
      BY <1>5, <1>6, FlatConcat
    <2>3. /\ calls \in Seq(Calls) /\ Len(calls) = Len(anew) + Len(up)
          /\ \A j \in 1 .. Len(anew) + Len(up) :
               calls[j] = IF j <= Len(anew) THEN anew[j] ELSE up[j - Len(anew)]
      <3>1. anew \in Seq(Calls) /\ up \in Seq(Calls)
        BY <1>5, <1>6
      <3> QED
        BY <3>1, ConcatProperties
    <2> QED
      BY <1>5, <2>1, <2>2, <2>3
  <1> HIDE DEF M
  <1>8. ASSUME NEW j \in 1 .. L + M
        PROVE  \/ j = 1 /\ L >= 1 /\ calls[j] = Pass(pressed[1]) /\ pressed[1].down
               \/ j # 1 /\ j <= L /\ calls[j] = Raise(pressed[j]) /\ pressed[j].down
               \/ /\ j = L + 1 /\ M = 1 /\ calls[j] = KeyUp(Call.then, L) /\ Releasing(Call)
    <2>1. CASE j <= L
      <3>1. j \in 1 .. L /\ calls[j] = anew[j]
        BY <1>7, <2>1
      <3> QED
        BY <1>5, <2>1, <3>1
    <2>2. CASE ~(j <= L)
      <3>1. M = 1 /\ j = L + 1 /\ j - L = 1
        BY <1>7, <2>2
      <3>2. up # <<>>
        BY <3>1 DEF M
      <3> QED
        BY <1>6, <1>7, <2>2, <3>1, <3>2
    <2> QED
      BY <2>1, <2>2
  <1> HIDE DEF calls
  <1>9. AllInPlace(calls, pressed' = <<>>, Crowded')
    <2> SUFFICES ASSUME NEW j \in 1 .. L + M
                 PROVE  InPlace(calls, j, pressed' = <<>>, Crowded')
      BY <1>7 DEF AllInPlace
    <2>1. CASE j = 1 /\ L >= 1 /\ calls[j] = Pass(pressed[1]) /\ pressed[1].down
      BY <2>1 DEF InPlace, Pass, Releasing
    <2>2. CASE j # 1 /\ j <= L /\ calls[j] = Raise(pressed[j]) /\ pressed[j].down
      BY <2>2 DEF InPlace, Raise, Releasing
    <2>3. CASE j = L + 1 /\ M = 1 /\ calls[j] = KeyUp(Call.then, L) /\ Releasing(Call)
      <3>1. calls[j].op = "key-up" /\ calls[j].released = L /\ j = Len(calls)
        BY <1>7, <2>3 DEF KeyUp
      <3>2. L <= 1 => j = 1 \/ (j = 2 /\ L = 1)
        BY <2>3
      <3>3. L = 1 => calls[1].op = "pass"
        <4>1. L = 1 => 1 \in 1 .. L + M /\ calls[1] = Pass(pressed[1])
          BY <1>5, <1>7, <2>3
        <4> QED
          BY <4>1 DEF Pass
      <3> QED
        BY <1>0, <3>1, <3>2, <3>3 DEF InPlace
    <2> QED
      BY <1>8, <2>1, <2>2, <2>3
  <1>10. (\E j \in 1 .. Len(calls) : Releasing(calls[j])) => Releasing(Call)
    <2> SUFFICES ASSUME NEW j \in 1 .. L + M, Releasing(calls[j]) PROVE Releasing(Call)
      BY <1>7
    <2>1. CASE calls[j] = Pass(pressed[1]) /\ pressed[1].down
      BY <2>1 DEF Releasing, Pass
    <2>2. CASE calls[j] = Raise(pressed[j]) /\ pressed[j].down
      BY <2>2 DEF Releasing, Raise
    <2> QED
      BY <1>8, <2>1, <2>2
  <1>11. /\ TodoInv' /\ (ForgetDue => ForgetDue')
         /\ calls # <<>> => todo' # <<>> /\ Call' = calls[1]
         /\ calls = <<>> /\ todo' # <<>> => Call'.op \notin {"cleanup", "pass", "flush"}
         /\ Held' = pressed' \o (Flat(calls) \o Flat(Tail(todo)))
    <2>1. Crowded => Crowded'
      BY <1>0 DEF Crowded
    <2> QED
      BY <1>0, <1>1, <1>7, <1>9, <1>10, <2>1, Proceed
  <1>12. Held' = Held
    <2>1. (pressed \o EventsOf(Call)) \o Flat(Tail(todo)) =
            pressed \o (EventsOf(Call) \o Flat(Tail(todo)))
      BY <1>2, ConcatAssociative
    <2>2. pressed' \o (Flat(calls) \o Flat(Tail(todo))) = Flat(calls) \o Flat(Tail(todo))
      <3>1. Flat(calls) \o Flat(Tail(todo)) \in Seq(AnyEvent)
        BY <1>2, <1>7, FlatType, ConcatProperties
      <3> QED
        BY <1>0, <3>1, ConcatEmptySeq
    <2> QED
      BY <1>2, <1>7, <1>11, <2>1, <2>2
  <1>13. TypeOK'
    <2>1. pressed' \in Seq(Press) /\ Len(pressed') <= MaxPerKey
      BY <1>0, ComboAssumption
    <2> QED
      BY <1>0, <1>1, <2>1 DEF TypeOK
  <1>14. HeadInv'
    <2>1. todo' # <<>> => Call'.op # "flush" /\ (Call'.op = "pass" => Call'.event.down)
      <3>1. CASE calls = <<>>
        BY <1>11, <3>1
      <3>2. CASE calls # <<>>
        <4>1. 1 \in 1 .. L + M
          BY <1>7, <3>2
        <4>2. Call' = calls[1]
          BY <1>11, <3>2
        <4>3. \/ calls[1] = Pass(pressed[1]) /\ pressed[1].down
              \/ \E n : calls[1] = KeyUp(Call.then, n)
          BY <1>8, <4>1
        <4>4. calls[1].op # "flush" /\ (calls[1].op = "pass" => calls[1].event.down)
          <5>1. CASE calls[1] = Pass(pressed[1]) /\ pressed[1].down
            <6>1. calls[1].op = "pass" /\ calls[1].event = pressed[1]
              BY <5>1 DEF Pass
            <6> QED
              BY <5>1, <6>1
          <5>2. CASE \E n : calls[1] = KeyUp(Call.then, n)
            BY <5>2 DEF KeyUp
          <5> QED
            BY <4>3, <5>1, <5>2
        <4> QED
          BY <4>2, <4>4
      <3> QED
        BY <3>1, <3>2
    <2> QED
      BY <1>0, <2>1 DEF HeadInv, Calling, Call
  <1>15. HeldInv' /\ ActiveInv'
    BY <1>0, <1>12, SameLine
  <1>16. CandInv'
    <2>1. \A i \in 1 .. Len(pressed') : FALSE
      BY <1>0
    <2> QED
      BY <1>0, <1>1, <1>12, <2>1 DEF CandInv
  <1>17. FullInv'
    <2>1. full = None \/ ForgetDue
      BY <1>0, <1>1 DEF HeadInv, Calling, Call
    <2> QED
      BY <1>0, <1>11, <2>1 DEF FullInv
  <1> QED
    BY <1>0, <1>11, <1>12, <1>13, <1>14, <1>15, <1>16, <1>17 DEF IInv

\* What is captured and the press that may be captured next, at the front of the line.
LEMMA RaisedPress ==
  ASSUME IInv, todo # <<>>, Call.op = "raise", Call.event.down
  PROVE  LET e == Call.event
             L == Len(pressed)
             q == Append(pressed, e)
         IN /\ e \in Press /\ e.time <= now /\ ~Releasing(Call) /\ EventsOf(Call) = <<e>>
            /\ L \in Nat /\ q \in Seq(Press) /\ Len(q) = L + 1 /\ q[L + 1] = e
            /\ \A i \in 1 .. L : q[i] = pressed[i]
            /\ Held = q \o Flat(Tail(todo))
            /\ L + 1 <= Len(Held)
            /\ \A i \in 1 .. L + 1 : i \in 1 .. Len(Held) /\ Held[i] = q[i]
            /\ \A i, j \in 1 .. L + 1 : q[i].key = q[j].key => i = j
            /\ \A i \in 1 .. L + 1 : q[i].key \notin Base
  <1> DEFINE e == Call.event
             q == Append(pressed, e)
             r == Flat(Tail(todo))
  <1>1. /\ pressed \in Seq(Press) /\ pressed \in Seq(AnyEvent) /\ Call \in Calls
        /\ Held = pressed \o (EventsOf(Call) \o r) /\ r \in Seq(AnyEvent)
    BY TheCall
  <1>2. PICK L \in Nat : L = Len(pressed)
    BY <1>1
  <1>3. /\ e \in AnyEvent /\ Call = Raise(e) /\ EventsOf(Call) = <<e>> /\ e.down
        /\ ~Releasing(Call)
    <2>1. e \in AnyEvent /\ Call = Raise(e)
      BY <1>1, CallFields
    <2> QED
      BY <2>1, EventsOfCall DEF Releasing
  <1>4. e \in Press
    BY <1>3 DEF AnyEvent, Press
  <1> HIDE DEF e
  <1>5. /\ q \in Seq(Press) /\ q \in Seq(AnyEvent) /\ Len(q) = L + 1 /\ q[L + 1] = e
        /\ \A i \in 1 .. L : q[i] = pressed[i]
    BY <1>1, <1>2, <1>3, <1>4
  <1>6. Held = q \o r
    BY <1>1, <1>3, MoveOver
  <1> HIDE DEF q, r
  <1>7. /\ Held \in Seq(AnyEvent) /\ Len(Held) = (L + 1) + Len(r) /\ Len(r) \in Nat
        /\ \A i \in 1 .. (L + 1) + Len(r) : Held[i] = IF i <= L + 1 THEN q[i] ELSE r[i - (L + 1)]
    <2>1. /\ q \o r \in Seq(AnyEvent) /\ Len(q \o r) = Len(q) + Len(r)
          /\ \A i \in 1 .. Len(q) + Len(r) :
               (q \o r)[i] = IF i <= Len(q) THEN q[i] ELSE r[i - Len(q)]
      BY <1>1, <1>5, ConcatProperties
    <2>2. Len(r) \in Nat
      BY <1>1
    <2> QED
      BY <1>5, <1>6, <2>1, <2>2
  <1>8. L + 1 <= Len(Held) /\ \A i \in 1 .. L + 1 : i \in 1 .. Len(Held) /\ Held[i] = q[i]
    <2>1. \A i \in 1 .. L + 1 : i \in 1 .. (L + 1) + Len(r) /\ i <= L + 1
      BY <1>7
    <2> QED
      BY <1>7, <2>1
  <1>9. \A i \in 1 .. L + 1 : i \in Presses(Held)
    <2> SUFFICES ASSUME NEW i \in 1 .. L + 1 PROVE i \in Presses(Held)
      OBVIOUS
    <2>1. q[i].down
      BY <1>5, PressFields
    <2> QED
      BY <1>8, <2>1 DEF Presses
  <1>10. Orderly(Held, Base, down, now)
    BY DEF IInv, HeldInv
  <1>11. \A i, j \in 1 .. L + 1 : q[i].key = q[j].key => i = j
    BY <1>8, <1>9, <1>10 DEF Orderly
  <1>12. \A i \in 1 .. L + 1 : q[i].key \notin Base
    BY <1>8, <1>9, <1>10 DEF Orderly
  <1>13. e.time <= now
    <2>1. L + 1 \in 1 .. L + 1
      OBVIOUS
    <2>2. Held[L + 1] = e /\ L + 1 \in 1 .. Len(Held)
      BY <1>5, <1>8, <2>1
    <2> QED
      BY <1>10, <2>2 DEF Orderly
  <1> QED
    BY <1>2, <1>3, <1>4, <1>5, <1>6, <1>8, <1>11, <1>12, <1>13 DEF e, q, r

\* The candidates that are left when e is captured.
Live(e) == IF candidates = Nobody THEN FirstCandidates(e)
           ELSE Keep(Unexpired(e.time) \cap Lookup(e.key))

LEMMA LiveCandidates ==
  ASSUME IInv, todo # <<>>, Call.op = "raise", Call.event.down
  PROVE  LET e == Call.event
             live == Live(e)
             q == Append(pressed, e)
         IN /\ live = [c \in DOMAIN live |-> live[c]] /\ DOMAIN live \subseteq Combo
            /\ candidates = Nobody => pressed = <<>>
            /\ \A c \in DOMAIN live :
                 /\ live[c] \in Nat /\ live[c] <= now + Conf[c].timeout
                 /\ \A i \in 1 .. Len(pressed) + 1 : q[i].key \in Conf[c].keys
                 /\ \A i \in 1 .. Len(Held) : live[c] <= Held[i].time + Conf[c].timeout
                 /\ candidates # Nobody => c \in DOMAIN candidates /\ live[c] = candidates[c]
                                           /\ live[c] > e.time
                 /\ candidates = Nobody => ActiveOnLayer(c) /\ ~IsQuickTap(c, e.time)
  <1> DEFINE e == Call.event
             live == Live(e)
             q == Append(pressed, e)
  <1>1. /\ e \in Press /\ Len(pressed) \in Nat /\ q[Len(pressed) + 1] = e
        /\ \A i \in 1 .. Len(pressed) : q[i] = pressed[i]
        /\ e.time <= now /\ Held = q \o Flat(Tail(todo))
        /\ Len(pressed) + 1 <= Len(Held)
        /\ \A i \in 1 .. Len(pressed) + 1 : i \in 1 .. Len(Held) /\ Held[i] = q[i]
    BY RaisedPress
  <1>2. PICK L \in Nat : L = Len(pressed)
    BY <1>1
  <1>3. TypeOK /\ CandInv /\ Orderly(Held, Base, down, now) /\ now \in Int
    BY ComboAssumption DEF IInv, HeldInv, TypeOK
  <1>4. candidates = Nobody => pressed = <<>>
    BY <1>3 DEF CandInv, Calling, Call
  <1>5. e.key \in Key /\ e.time \in Int /\ e.time >= 1 /\ e.time <= now
    BY <1>1, ReleaseIsEvent, EventFields
  <1> HIDE DEF e, q
  <1>6. CASE candidates = Nobody
    <2>1. /\ live = [c \in DOMAIN live |-> live[c]]
          /\ DOMAIN live = {d \in Lookup(e.key) : ActiveOnLayer(d) /\ ~IsQuickTap(d, e.time)}
          /\ \A c \in DOMAIN live : live[c] = e.time + Conf[c].timeout
      BY <1>6 DEF Live, FirstCandidates
    <2> HIDE DEF live
    <2>2. L = 0
      BY <1>2, <1>4, <1>6
    <2>3. ASSUME NEW i \in 1 .. Len(Held) PROVE e.time <= Held[i].time /\ Held[i].time \in Int
      <3>1. Held[i] \in AnyEvent /\ Held[1] = e /\ 1 \in 1 .. Len(Held)
        BY <1>1, <1>2, <1>3, <2>2 DEF Orderly
      <3>2. Held[i].time \in Int
        BY <3>1, EventFields
      <3>3. CASE i = 1
        BY <1>5, <3>1, <3>3
      <3>4. CASE i # 1
        BY <1>3, <3>1, <3>2, <3>4 DEF Orderly
      <3> QED
        BY <3>2, <3>3, <3>4
    <2>4. ASSUME NEW c \in DOMAIN live
          PROVE  /\ c \in Combo /\ live[c] \in Nat /\ live[c] <= now + Conf[c].timeout
                 /\ \A i \in 1 .. L + 1 : q[i].key \in Conf[c].keys
                 /\ \A i \in 1 .. Len(Held) : live[c] <= Held[i].time + Conf[c].timeout
                 /\ ActiveOnLayer(c) /\ ~IsQuickTap(c, e.time)
      <3>1. c \in Combo /\ e.key \in Conf[c].keys /\ ActiveOnLayer(c) /\ ~IsQuickTap(c, e.time)
        BY <2>1 DEF Lookup
      <3>2. PICK d \in Nat : d = Conf[c].timeout
        BY <3>1, ConfType
      <3>3. live[c] = e.time + d
        BY <2>1, <3>2
      <3>4. live[c] \in Nat /\ live[c] <= now + d
        BY <1>3, <1>5, <3>3
      <3>5. ASSUME NEW i \in 1 .. Len(Held) PROVE live[c] <= Held[i].time + d
        BY <1>5, <2>3, <3>3, <3>5
      <3>6. \A i \in 1 .. L + 1 : q[i] = e
        BY <1>1, <1>2, <2>2
      <3> QED
        BY <3>1, <3>2, <3>4, <3>5, <3>6
    <2> QED
      BY <1>2, <1>4, <1>6, <2>1, <2>4 DEF live, e, q
  <1>7. CASE candidates # Nobody
    <2>1. /\ live = [c \in DOMAIN live |-> live[c]]
          /\ DOMAIN live = DOMAIN candidates \cap (Unexpired(e.time) \cap Lookup(e.key))
          /\ \A c \in DOMAIN live : live[c] = candidates[c]
      BY <1>7 DEF Live, Keep
    <2> HIDE DEF live
    <2>2. ASSUME NEW c \in DOMAIN live
          PROVE  /\ c \in Combo /\ live[c] \in Nat /\ live[c] <= now + Conf[c].timeout
                 /\ \A i \in 1 .. L + 1 : q[i].key \in Conf[c].keys
                 /\ \A i \in 1 .. Len(Held) : live[c] <= Held[i].time + Conf[c].timeout
                 /\ c \in DOMAIN candidates /\ live[c] = candidates[c] /\ live[c] > e.time
      <3>1. /\ c \in DOMAIN candidates /\ live[c] = candidates[c] /\ candidates[c] > e.time
            /\ e.key \in Conf[c].keys /\ c \in Combo
        BY <2>1 DEF Unexpired, Lookup
      <3>2. /\ candidates[c] \in Nat /\ candidates[c] <= now + Conf[c].timeout
            /\ \A i \in 1 .. Len(pressed) : pressed[i].key \in Conf[c].keys
            /\ \A i \in 1 .. Len(Held) : candidates[c] <= Held[i].time + Conf[c].timeout
        BY <1>3, <3>1 DEF CandInv
      <3>3. ASSUME NEW i \in 1 .. L + 1 PROVE q[i].key \in Conf[c].keys
        <4>1. CASE i = L + 1
          BY <1>1, <1>2, <3>1, <4>1
        <4>2. CASE i \in 1 .. L
          BY <1>1, <1>2, <3>2, <4>2
        <4> QED
          BY <4>1, <4>2
      <3> QED
        BY <3>1, <3>2, <3>3
    <2> QED
      BY <1>2, <1>4, <1>7, <2>1, <2>2 DEF live, e, q
  <1> QED
    BY <1>6, <1>7

LEMMA CaptureFits ==
  ASSUME IInv, todo # <<>>, Call.op = "raise", Call.event.down,
         candidates # Nobody \/ DOMAIN Live(Call.event) # {}
  PROVE  Len(pressed) < MaxPerKey
  <1>1. PICK L \in Nat : L = Len(pressed)
    BY RaisedPress
  <1>2. TypeOK /\ CandInv
    BY DEF IInv
  <1>3. CASE candidates = Nobody
    <2>1. PICK c : c \in DOMAIN Live(Call.event)
      BY <1>3
    <2>2. c \in Combo /\ pressed = <<>>
      BY <1>3, <2>1, LiveCandidates
    <2>3. Size(c) \in Nat /\ Size(c) >= 1 /\ Size(c) < MaxPerKey /\ MaxPerKey \in Nat
      BY <2>2, ConfType, ComboAssumption
    <2> QED
      BY <2>2, <2>3
  <1>4. CASE candidates # Nobody
    <2>1. PICK c : c \in DOMAIN candidates
      BY <1>2, <1>4, NoCandidates
    <2>2. c \in Combo /\ \A i \in 1 .. L : pressed[i].key \in Conf[c].keys
      BY <1>1, <1>2, <2>1 DEF TypeOK, CandInv
    <2>3. \A i, j \in 1 .. L : pressed[i].key = pressed[j].key => i = j
      <3>1. /\ \A i \in 1 .. L : Append(pressed, Call.event)[i] = pressed[i]
            /\ \A i, j \in 1 .. L + 1 :
                 Append(pressed, Call.event)[i].key = Append(pressed, Call.event)[j].key => i = j
        BY <1>1, RaisedPress
      <3>2. \A i \in 1 .. L : i \in 1 .. L + 1
        OBVIOUS
      <3> QED
        BY <3>1, <3>2
    <2>4. L <= Size(c)
      <3>1. IsFiniteSet(Conf[c].keys)
        BY <2>2, ConfType
      <3>2. L <= Cardinality(Conf[c].keys)
        BY <2>2, <2>3, <3>1, DistinctKeys
      <3> QED
        BY <3>2 DEF Size
    <2>5. Size(c) \in Nat /\ Size(c) < MaxPerKey /\ MaxPerKey \in Nat
      BY <2>2, ConfType, ComboAssumption
    <2> QED
      BY <1>1, <2>4, <2>5
  <1> QED
    BY <1>3, <1>4

\* A combo as long as the captured presses, all of them its own, is complete.
LEMMA CaptureCompletes ==
  ASSUME IInv, todo # <<>>, Call.op = "raise", Call.event.down,
         NEW c \in DOMAIN Live(Call.event), Size(c) = Len(pressed) + 1
  PROVE  Complete(c, Append(pressed, Call.event))
  <1> DEFINE e == Call.event
             q == Append(pressed, e)
  <1>1. PICK L \in Nat : L = Len(pressed)
    BY RaisedPress
  <1>2. /\ e \in Press /\ Len(q) = L + 1 /\ q[L + 1] = e /\ L + 1 <= Len(Held)
        /\ \A i \in 1 .. L + 1 : i \in 1 .. Len(Held) /\ Held[i] = q[i]
        /\ \A i, j \in 1 .. L + 1 : q[i].key = q[j].key => i = j
    BY <1>1, RaisedPress
  <1>3. /\ c \in Combo /\ \A i \in 1 .. L + 1 : q[i].key \in Conf[c].keys
        /\ \A i \in 1 .. Len(Held) : Live(e)[c] <= Held[i].time + Conf[c].timeout
        /\ candidates # Nobody => Live(e)[c] > e.time
        /\ candidates = Nobody => pressed = <<>>
        /\ Live(e)[c] \in Nat
    BY <1>1, LiveCandidates
  <1>4. e.time \in Int
    BY <1>2, ReleaseIsEvent, EventFields
  <1> HIDE DEF e, q
  <1>5. Size(c) = L + 1 /\ Size(c) \in 1 .. Len(q)
    BY <1>1, <1>2
  <1>6. {q[i].key : i \in 1 .. Size(c)} = Conf[c].keys
    <2>1. IsFiniteSet(Conf[c].keys) /\ L + 1 = Cardinality(Conf[c].keys)
      BY <1>3, <1>5, ConfType DEF Size
    <2>2. PICK n \in Nat : n = L + 1
      OBVIOUS
    <2>3. /\ \A i \in 1 .. n : q[i].key \in Conf[c].keys
          /\ \A i, j \in 1 .. n : q[i].key = q[j].key => i = j
          /\ IsFiniteSet(Conf[c].keys) /\ n = Cardinality(Conf[c].keys)
      BY <1>2, <1>3, <2>1, <2>2
    <2>4. {q[i].key : i \in 1 .. n} = Conf[c].keys
      <3>1. PICK K : K = Conf[c].keys
        OBVIOUS
      <3>2. PICK p : p = q
        OBVIOUS
      <3>3. /\ \A i \in 1 .. n : p[i].key \in K
            /\ \A i, j \in 1 .. n : p[i].key = p[j].key => i = j
            /\ IsFiniteSet(K) /\ n = Cardinality(K)
        BY <2>3, <3>1, <3>2
      <3>4. {p[i].key : i \in 1 .. n} = K
        BY ONLY <3>3, n \in Nat, DistinctKeys
      <3> QED
        BY <3>1, <3>2, <3>4
    <2> QED
      BY <1>5, <2>2, <2>4
  <1>7. q[Size(c)].time < q[1].time + Conf[c].timeout
    <2>1. PICK d \in Nat \ {0} : d = Conf[c].timeout
      BY <1>3, ConfType
    <2>2. 1 \in 1 .. L + 1 /\ q[L + 1] = e
      BY <1>2
    <2>3. CASE candidates = Nobody
      <3>1. L + 1 = 1
        BY <1>1, <1>3, <2>3
      <3>2. q[1] = e
        BY <2>2, <3>1
      <3> QED
        BY <1>4, <1>5, <2>1, <2>2, <3>2
    <2>4. CASE candidates # Nobody
      <3>1. q[1] = Held[1] /\ 1 \in 1 .. Len(Held)
        BY <1>2, <2>2
      <3>2. Live(e)[c] <= q[1].time + d /\ Live(e)[c] > e.time
        BY <1>3, <2>1, <2>4, <3>1
      <3>3. q[1].time \in Int
        BY <3>1, EventFields DEF IInv, HeldInv, Orderly
      <3>4. PICK v \in Nat : v = Live(e)[c]
        BY <1>3
      <3>5. e.time < q[1].time + d
        BY <1>4, <3>2, <3>3, <3>4
      <3> QED
        BY <1>5, <2>1, <2>2, <3>5
    <2> QED
      BY <2>3, <2>4
  <1>8. Complete(c, q)
    BY <1>5, <1>6, <1>7 DEF Complete
  <1> QED
    BY <1>8 DEF e, q

LEMMA CompleteLonger ==
  ASSUME NEW c \in Combo, NEW p \in Seq(Press), NEW e, Complete(c, p)
  PROVE  Complete(c, Append(p, e))
  <1> DEFINE q == Append(p, e)
  <1>1. PICK L \in Nat : L = Len(p)
    OBVIOUS
  <1>2. Len(q) = L + 1 /\ \A i \in 1 .. L : q[i] = p[i]
    BY <1>1
  <1> HIDE DEF q
  <1>3. PICK n \in 1 .. L : n = Size(c)
    BY <1>1 DEF Complete
  <1>4. /\ {p[i].key : i \in 1 .. n} = Conf[c].keys
        /\ p[n].time < p[1].time + Conf[c].timeout
    BY <1>3 DEF Complete
  <1>5. \A i \in 1 .. n : i \in 1 .. L /\ q[i] = p[i]
    BY <1>2, <1>3
  <1>6. {q[i].key : i \in 1 .. n} = Conf[c].keys
    BY <1>4, <1>5
  <1>7. q[n] = p[n] /\ q[1] = p[1] /\ n \in 1 .. L + 1
    BY <1>2, <1>3
  <1>8. Complete(c, q)
    BY <1>2, <1>3, <1>4, <1>6, <1>7 DEF Complete
  <1> QED
    BY <1>8 DEF q

LEMMA CaptureStep ==
  ASSUME IInv, Capture
  PROVE  IInv' /\ Held' = Held /\ UNCHANGED <<passed, active, on>>
  <1> DEFINE e == Call.event
             live == Live(e)
             S == DOMAIN live
             q == Append(pressed, e)
             complete == S # {} /\ Size(Foremost(S)) = Len(pressed')
             settled == S = {} \/ (Cardinality(S) = 1 /\ complete)
             calls == IF settled THEN <<Cleanup(NoEvent)>> ELSE <<>>
  <1>0. /\ todo # <<>> /\ Call.op = "raise" /\ e.down
        /\ candidates # Nobody \/ S # {}
        /\ candidates' = live /\ UpdateTimeoutTask(live)
        /\ pressed' = (IF Len(pressed) # MaxPerKey THEN Append(pressed, e) ELSE pressed)
        /\ full' = (IF complete THEN Foremost(S) ELSE full)
        /\ Then(calls \o (IF Len(pressed) # MaxPerKey THEN <<>> ELSE <<Pass(e)>>))
        /\ UNCHANGED <<now, events, others, down, active, lastTapped, lastCombo, passed, layer, on>>
        /\ scope' = (IF pressed = <<>> THEN {c \in Combo : ActiveOnLayer(c) /\ ~IsQuickTap(c, e.time)}
                     ELSE scope)
        /\ disturbed' = (IF pressed = <<>> THEN FALSE ELSE disturbed)
    BY DEF Capture, Live, input, keymap, history, Calling, Call
  <1>1. TypeOK /\ TodoInv /\ HeadInv /\ HeldInv /\ ActiveInv /\ CandInv /\ FullInv
    BY DEF IInv
  <1>2. /\ e \in Press /\ EventsOf(Call) = <<e>> /\ Len(pressed) \in Nat
        /\ q \in Seq(Press) /\ Len(q) = Len(pressed) + 1 /\ Held = q \o Flat(Tail(todo))
    BY <1>0, RaisedPress
  <1>3. /\ live = [c \in S |-> live[c]] /\ S \subseteq Combo
        /\ \A c \in S :
             /\ live[c] \in Nat /\ live[c] <= now + Conf[c].timeout
             /\ \A i \in 1 .. Len(pressed) + 1 : q[i].key \in Conf[c].keys
             /\ \A i \in 1 .. Len(Held) : live[c] <= Held[i].time + Conf[c].timeout
    BY <1>0, LiveCandidates
  <1>4. Len(pressed) < MaxPerKey
    BY <1>0, CaptureFits
  <1>5. pressed' = q /\ Then(calls)
    <2>1. Len(pressed) # MaxPerKey
      <3>1. MaxPerKey \in Nat
        BY ComboAssumption
      <3> QED
        BY <1>2, <1>4, <3>1
    <2>2. calls \o <<>> = calls
      <3>1. calls = <<>> \/ calls = <<Cleanup(NoEvent)>>
        OBVIOUS
      <3> HIDE DEF calls
      <3> QED
        BY <3>1
    <2> QED
      BY <1>0, <2>1, <2>2
  <1>6. /\ calls \in Seq(Calls) /\ Flat(calls) = <<>>
        /\ AllInPlace(calls, pressed' = <<>>, Crowded')
        /\ ~\E j \in 1 .. Len(calls) : Releasing(calls[j])
        /\ calls = <<>> \/ calls[1].op = "cleanup"
        /\ settled => calls # <<>>
    <2>1. CASE settled
      <3> DEFINE c == Cleanup(NoEvent)
      <3>1. c \in Calls /\ c.op = "cleanup" /\ ~Releasing(c) /\ EventsOf(c) = <<>>
        BY CallTypes, EventsOfCall DEF Waiting, Cleanup, Releasing
      <3> HIDE DEF c
      <3>2. /\ <<c>> \in Seq(Calls) /\ <<c>> # <<>> /\ <<c>>[1] = c
            /\ AllInPlace(<<c>>, pressed' = <<>>, Crowded') /\ Flat(<<c>>) = <<>>
            /\ ~\E j \in 1 .. Len(<<c>>) : Releasing(<<c>>[j])
        BY <3>1, OneInPlace, FlatFew
      <3> QED
        BY <2>1, <3>1, <3>2 DEF c
    <2>2. CASE ~settled
      BY <2>2, NoneInPlace
    <2> QED
      BY <2>1, <2>2
  <1> HIDE DEF calls
  <1>7. /\ TodoInv' /\ (ForgetDue => ForgetDue')
        /\ calls # <<>> => todo' # <<>> /\ Call' = calls[1]
        /\ calls = <<>> /\ todo' # <<>> => Call'.op \notin {"cleanup", "pass", "flush"}
        /\ Held' = pressed' \o (Flat(calls) \o Flat(Tail(todo)))
    <2>1. Crowded => Crowded'
      BY <1>0 DEF Crowded
    <2> QED
      BY <1>0, <1>1, <1>5, <1>6, <2>1, Proceed
  <1>8. Held' = Held
    <2>1. <<>> \o Flat(Tail(todo)) = Flat(Tail(todo))
      BY <1>0, TheCall
    <2> QED
      BY <1>2, <1>5, <1>6, <1>7, <2>1
  <1>9. HeldInv' /\ ActiveInv'
    BY <1>0, <1>8, SameLine
  <1>10. HeadInv'
    BY <1>6, <1>7 DEF HeadInv, Calling, Call
  <1>11. complete => Foremost(S) \in S /\ Complete(Foremost(S), q)
    <2> SUFFICES ASSUME complete PROVE Foremost(S) \in S /\ Complete(Foremost(S), q)
      OBVIOUS
    <2>1. Foremost(S) \in S
      BY <1>3, ForemostIn
    <2>2. Size(Foremost(S)) = Len(pressed) + 1
      BY <1>2, <1>5
    <2> QED
      BY <1>0, <2>1, <2>2, CaptureCompletes
  <1>12. FullInv' /\ full' \in Combo \cup {None}
    <2>1. CASE complete
      BY <1>0, <1>3, <1>5, <1>11, <2>1 DEF FullInv
    <2>2. CASE ~complete
      <3>1. full' = full /\ full \in Combo \cup {None} /\ pressed \in Seq(Press)
        BY <1>0, <1>1, <2>2 DEF TypeOK
      <3>2. full # None => Complete(full, q) \/ ForgetDue
        <4>1. full # None => Complete(full, pressed) \/ ForgetDue
          BY <1>1 DEF FullInv
        <4> QED
          BY <3>1, <4>1, CompleteLonger
      <3> QED
        BY <1>5, <1>7, <3>1, <3>2 DEF FullInv
    <2> QED
      BY <2>1, <2>2
  <1>13. CandInv'
    <2>1. candidates' = Nobody => Calling("cleanup")'
      <3> SUFFICES ASSUME candidates' = Nobody PROVE Calling("cleanup")'
        OBVIOUS
      <3>1. S = {}
        BY <1>0 DEF Nobody
      <3>2. settled
        BY <3>1
      <3> QED
        BY <1>6, <1>7, <3>2 DEF Calling, Call
    <2>2. DOMAIN candidates' = S /\ \A c \in S : candidates'[c] = live[c]
      BY <1>0
    <2>3. Len(pressed') = Len(pressed) + 1 /\ now' = now
      BY <1>0, <1>2, <1>5
    <2>4. candidates' = [c \in DOMAIN candidates' |-> candidates'[c]]
      BY <1>0, <1>3
    <2> HIDE DEF live, S, q
    <2> QED
      BY <1>3, <1>5, <1>8, <2>1, <2>2, <2>3, <2>4 DEF CandInv
  <1>14. TypeOK'
    <2>1. task' \in Int /\ taskAt' \in Int
      BY <1>0, <1>1, <1>3, TaskType
    <2>2. pressed' \in Seq(Press) /\ Len(pressed') <= MaxPerKey
      BY <1>2, <1>4, <1>5, ComboAssumption
    <2>3. DOMAIN candidates' \subseteq Combo
      BY <1>0, <1>3
    <2>4. scope' \subseteq Combo /\ disturbed' \in BOOLEAN
      BY <1>0, <1>1 DEF TypeOK
    <2> QED
      BY <1>0, <1>1, <1>12, <2>1, <2>2, <2>3, <2>4 DEF TypeOK
  <1> QED
    BY <1>0, <1>7, <1>8, <1>9, <1>10, <1>12, <1>13, <1>14 DEF IInv

-----------------------------------------------------------------------------
(* A combo takes its keys *)

LEMMA HeldFront ==
  ASSUME IInv
  PROVE  /\ Held \in Seq(AnyEvent) /\ pressed \in Seq(Press) /\ Len(pressed) <= Len(Held)
         /\ \A i \in 1 .. Len(pressed) :
              /\ i \in 1 .. Len(Held) /\ Held[i] = pressed[i]
              /\ i \in Presses(Held) /\ pressed[i].key \notin Base
         /\ \A i, j \in 1 .. Len(pressed) : pressed[i].key = pressed[j].key => i = j
  <1>1. /\ pressed \in Seq(Press) /\ pressed \in Seq(AnyEvent) /\ Flat(todo) \in Seq(AnyEvent)
        /\ Held = pressed \o Flat(todo)
    <2>1. todo \in Seq(Calls) /\ pressed \in Seq(Press)
      BY DEF IInv, TodoInv, TypeOK
    <2> QED
      BY <2>1, HeldIs
  <1>2. PICK L \in Nat, M \in Nat : L = Len(pressed) /\ M = Len(Flat(todo))
    BY <1>1
  <1>3. /\ Held \in Seq(AnyEvent) /\ Len(Held) = L + M
        /\ \A i \in 1 .. L + M : Held[i] = IF i <= L THEN pressed[i] ELSE Flat(todo)[i - L]
    BY <1>1, <1>2, ConcatProperties
  <1>4. \A i \in 1 .. L : i \in 1 .. L + M /\ i <= L
    OBVIOUS
  <1>5. ASSUME NEW i \in 1 .. L PROVE Held[i] = pressed[i] /\ i \in Presses(Held)
    <2>1. Held[i] = pressed[i] /\ i \in 1 .. Len(Held)
      BY <1>3, <1>4
    <2>2. pressed[i].down
      BY <1>1, <1>2, PressFields
    <2> QED
      BY <2>1, <2>2 DEF Presses
  <1>6. Orderly(Held, Base, down, now)
    BY DEF IInv, HeldInv
  <1>7. /\ \A i \in 1 .. L : pressed[i].key \notin Base
        /\ \A i, j \in 1 .. L : pressed[i].key = pressed[j].key => i = j
    BY <1>5, <1>6 DEF Orderly
  <1>8. \A i \in 1 .. L : i \in 1 .. Len(Held) /\ Held[i] = pressed[i] /\ i \in Presses(Held)
    BY <1>3, <1>4, <1>5
  <1>9. Len(pressed) = L /\ L <= Len(Held)
    BY <1>2, <1>3
  <1>10. Held \in Seq(AnyEvent) /\ pressed \in Seq(Press)
    BY <1>1, <1>3
  <1> QED
    BY ONLY <1>7, <1>8, <1>9, <1>10

\* What a cleanup leaves to do.
LEMMA CleanUpCalls ==
  ASSUME IInv, todo # <<>>, Call.op = "cleanup", NEW calls,
         \/ calls = <<Flush(Call.then)>>
         \/ calls = <<Flush(NoEvent), Forget, Flush(Call.then)>> /\ Crowded,
         NEW empty, NEW crowded, Crowded => crowded
  PROVE  /\ calls \in Seq(Calls) /\ calls # <<>> /\ calls[1].op = "flush"
         /\ AllInPlace(calls, empty, crowded)
         /\ (\E j \in 1 .. Len(calls) : Releasing(calls[j])) => Releasing(Call)
         /\ Flat(calls) = EventsOf(Call)
         /\ calls # <<Flush(Call.then)>> => calls[2].op = "forget" /\ Len(calls) = 3
  <1>1. /\ Call.then \in Waiting /\ Call = Cleanup(Call.then) /\ NoEvent \in Waiting
        /\ Flush(Call.then) \in Calls /\ Flush(NoEvent) \in Calls /\ Forget \in Calls
    <2>1. Call.then \in Waiting /\ Call = Cleanup(Call.then)
      BY TheCall, CallFields
    <2> QED
      BY <2>1, CallTypes DEF Waiting
  <1> DEFINE a == Flush(NoEvent)
             b == Flush(Call.then)
  <1>2. /\ EventsOf(a) = <<>> /\ EventsOf(b) = EventsOf(Call) /\ EventsOf(Forget) = <<>>
        /\ a.op = "flush" /\ b.op = "flush" /\ Forget.op = "forget"
        /\ ~Releasing(a) /\ ~Releasing(Forget) /\ (Releasing(b) => Releasing(Call))
    <2>1. /\ EventsOf(a) = <<>> /\ EventsOf(b) = EventsOf(Call) /\ EventsOf(Forget) = <<>>
      BY <1>1, EventsOfCall
    <2>2. /\ a.op = "flush" /\ b.op = "flush" /\ Forget.op = "forget" /\ a.then = NoEvent
          /\ b.then = Call.then
      BY DEF Flush, Forget
    <2>3. ~Releasing(a) /\ ~Releasing(Forget)
      BY <2>2 DEF Releasing
    <2>4. Releasing(b) => Releasing(Call)
      BY <2>2 DEF Releasing
    <2> QED
      BY <2>1, <2>2, <2>3, <2>4
  <1>3. a \in Calls /\ b \in Calls
    BY <1>1
  <1> HIDE DEF a, b
  <1>4. CASE calls = <<b>>
    <2>1. /\ <<b>> \in Seq(Calls) /\ <<b>> # <<>> /\ <<b>>[1] = b
          /\ AllInPlace(<<b>>, empty, crowded) /\ Flat(<<b>>) = EventsOf(b)
          /\ ((\E j \in 1 .. Len(<<b>>) : Releasing(<<b>>[j])) <=> Releasing(b))
      BY <1>2, <1>3, OneInPlace, FlatFew
    <2> QED
      BY <1>2, <1>4, <2>1 DEF b
  <1>5. CASE calls = <<a, Forget, b>> /\ Crowded
    <2>1. /\ calls \in Seq(Calls) /\ Len(calls) = 3 /\ calls[1] = a /\ calls[2] = Forget
          /\ calls[3] = b /\ calls # <<>> /\ calls = (<<a>> \o <<Forget>>) \o <<b>>
      BY <1>1, <1>3, <1>5
    <2>2. Flat(calls) = EventsOf(b)
      <3>1. <<a>> \in Seq(Calls) /\ <<Forget>> \in Seq(Calls) /\ <<b>> \in Seq(Calls)
            /\ <<a>> \o <<Forget>> \in Seq(Calls)
        BY <1>1, <1>3
      <3>2. /\ Flat(<<a>> \o <<Forget>>) = Flat(<<a>>) \o Flat(<<Forget>>)
            /\ Flat((<<a>> \o <<Forget>>) \o <<b>>) = Flat(<<a>> \o <<Forget>>) \o Flat(<<b>>)
        BY <3>1, FlatConcat
      <3>3. Flat(<<a>>) = <<>> /\ Flat(<<Forget>>) = <<>> /\ Flat(<<b>>) = EventsOf(b)
        BY <1>1, <1>2, <1>3, FlatFew
      <3>4. EventsOf(b) \in Seq(AnyEvent)
        BY <1>3, EventsOfType
      <3>5. <<>> \o <<>> = <<>> /\ <<>> \o EventsOf(b) = EventsOf(b)
        BY <3>4
      <3> QED
        BY <2>1, <3>2, <3>3, <3>5
    <2>3. /\ InPlace(calls, 1, empty, crowded) /\ InPlace(calls, 2, empty, crowded)
          /\ InPlace(calls, 3, empty, crowded)
      BY <1>2, <1>5, <2>1 DEF InPlace
    <2>4. AllInPlace(calls, empty, crowded)
      <3>1. \A j \in 1 .. 3 : j = 1 \/ j = 2 \/ j = 3
        OBVIOUS
      <3> QED
        BY <2>1, <2>3, <3>1 DEF AllInPlace
    <2>5. (\E j \in 1 .. Len(calls) : Releasing(calls[j])) => Releasing(Call)
      <3>1. \A j \in 1 .. 3 : j = 1 \/ j = 2 \/ j = 3
        OBVIOUS
      <3> QED
        BY <1>2, <2>1, <3>1
    <2> QED
      BY <1>2, <2>1, <2>2, <2>4, <2>5
  <1> QED
    BY <1>4, <1>5 DEF a, b

LEMMA CleanUpFails ==
  ASSUME IInv, CleanUp, full = None \/ Crowded
  PROVE  IInv' /\ Held' = Held /\ UNCHANGED <<passed, active, on>>
  <1> DEFINE calls == IF full = None THEN <<Flush(Call.then)>>
                      ELSE <<Flush(NoEvent), Forget, Flush(Call.then)>>
  <1>0. /\ todo # <<>> /\ Call.op = "cleanup" /\ task' = Never /\ candidates' = Nobody
        /\ Then(calls)
        /\ UNCHANGED <<now, events, others, down, layer, scope, disturbed,
                       pressed, full, active, taskAt, lastTapped, lastCombo,
                       passed, on>>
    BY DEF CleanUp, input, history, Calling, Call, Crowded
  <1>1. TypeOK /\ TodoInv /\ HeadInv /\ HeldInv /\ ActiveInv /\ CandInv /\ FullInv
    BY DEF IInv
  <1>2. Held = pressed \o (EventsOf(Call) \o Flat(Tail(todo)))
    BY <1>0, TheCall
  <1>3. Crowded' = Crowded
    BY <1>0 DEF Crowded
  <1>4. /\ calls \in Seq(Calls) /\ calls # <<>> /\ calls[1].op = "flush"
        /\ AllInPlace(calls, pressed' = <<>>, Crowded')
        /\ (\E j \in 1 .. Len(calls) : Releasing(calls[j])) => Releasing(Call)
        /\ Flat(calls) = EventsOf(Call)
        /\ calls # <<Flush(Call.then)>> => calls[2].op = "forget" /\ Len(calls) = 3
    <2> DEFINE empty == pressed' = <<>>
               crowded == Crowded'
    <2>1. \/ calls = <<Flush(Call.then)>>
          \/ calls = <<Flush(NoEvent), Forget, Flush(Call.then)>> /\ Crowded
      OBVIOUS
    <2>2. Crowded => crowded
      BY <1>3
    <2> HIDE DEF calls, empty, crowded
    <2>3. /\ calls \in Seq(Calls) /\ calls # <<>> /\ calls[1].op = "flush"
          /\ AllInPlace(calls, empty, crowded)
          /\ (\E j \in 1 .. Len(calls) : Releasing(calls[j])) => Releasing(Call)
          /\ Flat(calls) = EventsOf(Call)
          /\ calls # <<Flush(Call.then)>> => calls[2].op = "forget" /\ Len(calls) = 3
      BY <1>0, <2>1, <2>2, CleanUpCalls
    <2> QED
      BY <2>3 DEF empty, crowded
  <1>5. full # None => calls # <<Flush(Call.then)>>
    <2> SUFFICES ASSUME full # None PROVE calls # <<Flush(Call.then)>>
      OBVIOUS
    <2>1. Len(calls) = 3
      OBVIOUS
    <2> QED
      BY <2>1
  <1> HIDE DEF calls
  <1>6. /\ TodoInv' /\ (ForgetDue => ForgetDue') /\ todo' # <<>> /\ Call' = calls[1]
        /\ Held' = pressed' \o (Flat(calls) \o Flat(Tail(todo)))
    BY <1>0, <1>1, <1>3, <1>4, Proceed
  <1>7. Held' = Held
    BY <1>0, <1>2, <1>4, <1>6
  <1>8. full # None => ForgetDue'
    <2> SUFFICES ASSUME full # None PROVE ForgetDue'
      OBVIOUS
    <2>1. calls[2].op = "forget" /\ Len(calls) = 3
      BY <1>4, <1>5
    <2>2. todo' = calls \o Tail(todo) /\ Tail(todo) \in Seq(Calls)
      BY <1>0, TheCall DEF Then
    <2>3. /\ Len(calls \o Tail(todo)) = Len(calls) + Len(Tail(todo)) /\ Len(Tail(todo)) \in Nat
          /\ \A i \in 1 .. Len(calls) + Len(Tail(todo)) : (calls \o Tail(todo))[i] =
               IF i <= Len(calls) THEN calls[i] ELSE Tail(todo)[i - Len(calls)]
      BY <1>4, <2>2, ConcatProperties
    <2>4. 2 \in 1 .. Len(todo') /\ todo'[2] = calls[2]
      BY <2>1, <2>2, <2>3
    <2> QED
      BY <2>1, <2>4 DEF ForgetDue
  <1>9. TypeOK'
    <2>1. DOMAIN candidates' = {}
      BY <1>0 DEF Nobody
    <2> QED
      BY <1>0, <1>1, <2>1 DEF TypeOK, Never
  <1>10. HeadInv'
    BY <1>0, <1>4, <1>6, <1>8 DEF HeadInv, Calling, Call
  <1>11. HeldInv' /\ ActiveInv'
    BY <1>0, <1>7, SameLine
  <1>12. CandInv'
    <2>1. Calling("flush")'
      BY <1>4, <1>6 DEF Calling, Call
    <2>2. DOMAIN candidates' = {} /\ candidates' = [c \in DOMAIN candidates' |-> candidates'[c]]
      BY <1>0 DEF Nobody
    <2> QED
      BY <2>1, <2>2 DEF CandInv
  <1>13. FullInv'
    BY <1>0, <1>8 DEF FullInv
  <1> QED
    BY <1>0, <1>6, <1>7, <1>9, <1>10, <1>11, <1>12, <1>13 DEF IInv

Takes(c) ==
  /\ c \in Combo /\ Size(c) \in 1 .. Len(Held)
  /\ \A i \in 1 .. Size(c) : Held[i].down
  /\ {Held[i].key : i \in 1 .. Size(c)} = Conf[c].keys
  /\ Held[Size(c)].time < Held[1].time + Conf[c].timeout
  /\ Held' = SubSeq(Held, Size(c) + 1, Len(Held))
  /\ active' = Append(active, [combo |-> c, keys |-> Conf[c].keys])
  /\ \A i \in 1 .. Len(active) : active[i].combo # c
  /\ c \notin on /\ on' = on \cup {c} /\ passed' = passed

LEMMA CleanUpTakes ==
  ASSUME IInv, CleanUp, full # None, ~Crowded
  PROVE  IInv' /\ Takes(full)
  <1> DEFINE c == Flush(Call.then)
             n == Size(full)
             a == [combo |-> full, keys |-> Conf[full].keys]
  <1>1. TypeOK /\ TodoInv /\ HeadInv /\ HeldInv /\ ActiveInv /\ CandInv /\ FullInv
    BY DEF IInv
  <1>2. todo # <<>> /\ Call.op = "cleanup"
    BY DEF CleanUp, Calling, Call
  <1>3. /\ full \in Combo /\ Complete(full, pressed)
    <2>1. ~ForgetDue
      BY <1>1 DEF ForgetDue, TodoInv, AllInPlace, InPlace
    <2> QED
      BY <1>1, <2>1 DEF FullInv, TypeOK
  <1>4. PICK L \in Nat : L = Len(pressed) /\ n \in 1 .. L
    BY <1>1, <1>3 DEF TypeOK, Complete
  <1>5. /\ {pressed[i].key : i \in 1 .. n} = Conf[full].keys
        /\ pressed[n].time < pressed[1].time + Conf[full].timeout
    BY <1>3 DEF Complete
  <1>6. /\ task' = Never /\ candidates' = Nobody /\ Then(<<c>>)
        /\ active' = Append(active, a)
        /\ pressed' = SubSeq(pressed, n + 1, Len(pressed))
        /\ lastCombo' = pressed[1].time /\ on' = on \cup {full} /\ full' = None
        /\ UNCHANGED <<now, events, others, down, layer, scope, disturbed,
                       taskAt, lastTapped, passed>>
    <2>1. (IF Len(pressed) < Size(full) THEN Len(pressed) ELSE Size(full)) = n
      BY <1>4
    <2> QED
      BY <1>5, <2>1 DEF CleanUp, input, history, Crowded
  <1>7. /\ Held \in Seq(AnyEvent) /\ pressed \in Seq(Press) /\ L <= Len(Held)
        /\ \A i \in 1 .. L : /\ i \in 1 .. Len(Held) /\ Held[i] = pressed[i]
                             /\ i \in Presses(Held) /\ pressed[i].key \notin Base
    BY <1>4, HeldFront
  <1>8. \A i \in 1 .. n : i \in 1 .. L
    BY <1>4
  <1>9. /\ n \in 1 .. Len(Held)
        /\ \A i \in 1 .. n : Held[i].down
        /\ {Held[i].key : i \in 1 .. n} = Conf[full].keys
        /\ Held[n].time < Held[1].time + Conf[full].timeout
    <2>1. n \in 1 .. n /\ 1 \in 1 .. n
      BY <1>4
    <2>2. n \in 1 .. Len(Held)
      BY <1>7, <1>8, <2>1
    <2>3. \A i \in 1 .. n : Held[i].down
      BY <1>7, <1>8 DEF Presses
    <2>4. \A i \in 1 .. n : Held[i] = pressed[i]
      BY <1>7, <1>8
    <2> HIDE DEF n
    <2> QED
      BY <1>5, <2>1, <2>2, <2>3, <2>4
  <1>10. \A k \in Conf[full].keys : k \notin Base
    BY <1>5, <1>7, <1>8
  <1>11. \A i \in 1 .. Len(active) : active[i].combo # full
    <2> SUFFICES ASSUME NEW i \in 1 .. Len(active), active[i].combo = full PROVE FALSE
      OBVIOUS
    <2>1. active[i].keys # {} /\ active[i].keys \subseteq Conf[full].keys
      BY <1>1 DEF ActiveInv
    <2>2. PICK k : k \in active[i].keys
      BY <2>1
    <2>3. k \in EatenKeys
      BY <2>2 DEF EatenKeys
    <2> QED
      BY <1>10, <2>1, <2>2, <2>3 DEF Base
  <1>12. full \notin on
    BY <1>1, <1>11 DEF ActiveInv
  <1>13. PICK M \in Nat : M = Len(active) /\ active \in Seq([combo : Combo, keys : SUBSET Key])
    BY <1>1 DEF TypeOK
  <1>14. a \in [combo : Combo, keys : SUBSET Key]
    BY <1>3, ConfType
  <1>15. /\ active' \in Seq([combo : Combo, keys : SUBSET Key]) /\ Len(active') = M + 1
         /\ active'[M + 1] = a /\ \A i \in 1 .. M : active'[i] = active[i]
    BY <1>6, <1>13, <1>14
  <1>16. a.combo = full /\ a.keys = Conf[full].keys
    OBVIOUS
  <1> HIDE DEF a
  <1>17. EatenKeys' = EatenKeys \cup Conf[full].keys /\ Base' = Base \cup Conf[full].keys
    <2>1. EatenKeys' = UNION {active'[i].keys : i \in 1 .. M + 1}
      BY <1>15 DEF EatenKeys
    <2>2. EatenKeys = UNION {active[i].keys : i \in 1 .. M}
      BY <1>13 DEF EatenKeys
    <2>3. ASSUME NEW k PROVE k \in EatenKeys' <=> k \in EatenKeys \/ k \in Conf[full].keys
      <3>1. ASSUME k \in EatenKeys' PROVE k \in EatenKeys \/ k \in Conf[full].keys
        <4>1. PICK i \in 1 .. M + 1 : k \in active'[i].keys
          BY <2>1, <3>1
        <4>2. CASE i = M + 1
          BY <1>15, <1>16, <4>1, <4>2
        <4>3. CASE i \in 1 .. M
          BY <1>15, <2>2, <4>1, <4>3
        <4> QED
          BY <4>2, <4>3
      <3>2. ASSUME k \in EatenKeys PROVE k \in EatenKeys'
        <4>1. PICK i \in 1 .. M : k \in active[i].keys
          BY <2>2, <3>2
        <4>2. i \in 1 .. M + 1
          OBVIOUS
        <4> QED
          BY <1>15, <2>1, <4>1, <4>2
      <3>3. ASSUME k \in Conf[full].keys PROVE k \in EatenKeys'
        <4>1. M + 1 \in 1 .. M + 1
          OBVIOUS
        <4> QED
          BY <1>15, <1>16, <2>1, <3>3, <4>1
      <3> QED
        BY <3>1, <3>2, <3>3
    <2>4. EatenKeys' = EatenKeys \cup Conf[full].keys
      BY <2>3
    <2> QED
      BY <1>6, <2>4 DEF Base
  <1>18. /\ c \in Calls /\ EventsOf(c) = EventsOf(Call) /\ c.op = "flush"
         /\ Releasing(c) => Releasing(Call)
    <2>1. Call.then \in Waiting /\ Call = Cleanup(Call.then)
      BY <1>2, TheCall, CallFields
    <2>2. c.op = "flush" /\ c.then = Call.then
      BY DEF Flush
    <2> QED
      BY <1>2, <2>1, <2>2, CallTypes, EventsOfCall DEF Releasing
  <1> HIDE DEF c, n
  <1>19. /\ TodoInv' /\ todo' # <<>> /\ Call' = c
         /\ Held' = pressed' \o (Flat(<<c>>) \o Flat(Tail(todo)))
         /\ Flat(<<c>>) = EventsOf(c)
    <2>1. /\ <<c>> \in Seq(Calls) /\ <<c>> # <<>> /\ Len(<<c>>) = 1 /\ <<c>>[1] = c
          /\ AllInPlace(<<c>>, pressed' = <<>>, Crowded') /\ Flat(<<c>>) = EventsOf(c)
          /\ ((\E j \in 1 .. Len(<<c>>) : Releasing(<<c>>[j])) <=> Releasing(c))
      BY <1>18, OneInPlace, FlatFew
    <2> QED
      BY <1>1, <1>2, <1>6, <1>18, <2>1, Proceed
  <1>20. Held' = SubSeq(Held, n + 1, Len(Held))
    <2>1. /\ Held = pressed \o (EventsOf(Call) \o Flat(Tail(todo)))
          /\ pressed \in Seq(AnyEvent) /\ EventsOf(Call) \o Flat(Tail(todo)) \in Seq(AnyEvent)
      BY <1>2, TheCall, ConcatProperties
    <2>2. n \in 0 .. Len(pressed)
      BY <1>4
    <2> DEFINE r == EventsOf(Call) \o Flat(Tail(todo))
    <2>3. pressed' \o r = SubSeq(pressed \o r, n + 1, Len(pressed \o r))
      <3> HIDE DEF r
      <3> QED
        BY <1>6, <2>1, <2>2, DropFront DEF r
    <2>4. Held' = pressed' \o r /\ Held = pressed \o r
      BY <1>18, <1>19, <2>1
    <2> HIDE DEF r
    <2> QED
      BY <2>3, <2>4
  <1>21. HeldInv'
    <2>1. Orderly(Held, Base, down, now)
      BY <1>1 DEF HeldInv
    <2>2. n \in 0 .. Len(Held)
      BY <1>9
    <2>3. Orderly(SubSeq(Held, n + 1, Len(Held)), Base \cup {Held[i].key : i \in 1 .. n}, down, now)
      BY <1>9, <2>1, <2>2, OrderlyDrop
    <2> QED
      BY <1>6, <1>9, <1>17, <1>20, <2>3 DEF HeldInv
  <1>22. pressed' \in Seq(Press) /\ Len(pressed') <= L
    <2>1. SubSeq(pressed, n + 1, L) \in Seq(Press) /\ Len(SubSeq(pressed, n + 1, L)) = L - n
      BY <1>4, <1>7
    <2> QED
      BY <1>4, <1>6, <2>1
  <1>23. TypeOK'
    <2>1. Len(pressed') <= MaxPerKey
      BY <1>1, <1>4, <1>22, ComboAssumption DEF TypeOK
    <2>2. Len(active') <= MaxPressed
      BY <1>1, <1>13, <1>15, ComboAssumption DEF TypeOK, Crowded
    <2>3. lastCombo' \in Int
      <3>1. pressed[1] \in Press
        BY <1>4, <1>7
      <3> QED
        BY <1>6, <3>1, PressFields, ComboAssumption
    <2>4. DOMAIN candidates' = {}
      BY <1>6 DEF Nobody
    <2>5. DOMAIN candidates' \subseteq Combo /\ full' \in Combo \cup {None} /\ on' \subseteq Combo
      BY <1>1, <1>3, <1>6, <2>4 DEF TypeOK
    <2>6. {task', taskAt', lastTapped', lastCombo'} \subseteq Int
      BY <1>1, <1>6, <2>3 DEF TypeOK, Never
    <2>7. active' \in Seq([combo : Combo, keys : SUBSET Key])
      BY <1>15
    <2>8. /\ now' \in 1 .. MaxTime /\ events' \in 0 .. MaxEvents /\ others' \in 0 .. MaxOthers
          /\ down' \subseteq Key /\ passed' \subseteq Key /\ layer' \in {0, 1}
          /\ scope' \subseteq Combo /\ disturbed' \in BOOLEAN
      BY <1>1, <1>6 DEF TypeOK
    <2> QED
      BY ONLY <1>22, <2>1, <2>2, <2>5, <2>6, <2>7, <2>8 DEF TypeOK
  <1>24. HeadInv'
    BY <1>6, <1>18, <1>19 DEF HeadInv, Calling, Call
  <1>25. ActiveInv'
    <2>1. \A i \in 1 .. M : i \in 1 .. Len(active) /\ active[i].keys \subseteq EatenKeys
      BY <1>13 DEF EatenKeys
    <2>2. Conf[full].keys \cap passed = {} /\ Conf[full].keys \cap EatenKeys = {}
      BY <1>10 DEF Base
    <2>3. Conf[full].keys # {}
      BY <1>3, ConfType
    <2>4. \A i \in 1 .. M + 1 : i = M + 1 \/ i \in 1 .. M
      OBVIOUS
    <2>5. ASSUME NEW i \in 1 .. M + 1
          PROVE  /\ active'[i].keys # {} /\ active'[i].keys \subseteq Conf[active'[i].combo].keys
                 /\ active'[i].keys \cap passed' = {}
      <3>1. CASE i = M + 1
        BY <1>6, <1>15, <1>16, <2>2, <2>3, <3>1
      <3>2. CASE i \in 1 .. M
        BY <1>1, <1>6, <1>15, <2>1, <3>2 DEF ActiveInv
      <3> QED
        BY <2>4, <3>1, <3>2
    <2>6. ASSUME NEW i \in 1 .. M + 1, NEW j \in 1 .. M + 1, i # j
          PROVE  active'[i].keys \cap active'[j].keys = {} /\ active'[i].combo # active'[j].combo
      <3>1. CASE i \in 1 .. M /\ j \in 1 .. M
        BY <1>1, <1>15, <2>1, <2>6, <3>1 DEF ActiveInv
      <3>2. CASE i = M + 1 /\ j \in 1 .. M
        BY <1>11, <1>15, <1>16, <2>1, <2>2, <3>2
      <3>3. CASE i \in 1 .. M /\ j = M + 1
        BY <1>11, <1>15, <1>16, <2>1, <2>2, <3>3
      <3> QED
        BY <2>4, <2>6, <3>1, <3>2, <3>3
    <2>7. ASSUME NEW d \in on'
          PROVE  \E i \in 1 .. M + 1 :
                   active'[i].combo = d /\ (Conf[d].slow \/ active'[i].keys = Conf[d].keys)
      <3>1. CASE d = full
        <4>1. M + 1 \in 1 .. M + 1
          OBVIOUS
        <4> QED
          BY <1>15, <1>16, <3>1, <4>1
      <3>2. CASE d \in on
        <4>1. PICK i \in 1 .. M :
                active[i].combo = d /\ (Conf[d].slow \/ active[i].keys = Conf[d].keys)
          BY <1>1, <1>13, <3>2 DEF ActiveInv
        <4>2. i \in 1 .. M + 1
          OBVIOUS
        <4> QED
          BY <1>15, <4>1, <4>2
      <3> QED
        BY <1>6, <3>1, <3>2
    <2> QED
      BY <1>15, <2>5, <2>6, <2>7 DEF ActiveInv
  <1>26. CandInv'
    <2>1. Calling("flush")'
      BY <1>18, <1>19 DEF Calling, Call
    <2>2. DOMAIN candidates' = {} /\ candidates' = [d \in DOMAIN candidates' |-> candidates'[d]]
      BY <1>6 DEF Nobody
    <2> QED
      BY <2>1, <2>2 DEF CandInv
  <1>27. FullInv'
    BY <1>6 DEF FullInv
  <1>28. Takes(full)
    BY <1>3, <1>6, <1>9, <1>11, <1>12, <1>20 DEF Takes, n, a
  <1> QED
    BY <1>19, <1>21, <1>23, <1>24, <1>25, <1>26, <1>27, <1>28 DEF IInv

-----------------------------------------------------------------------------
(* The keymap gets an event *)

\* Fewer events in the line, and the rest as it was.
LEMMA ShorterLine ==
  ASSUME IInv, UNCHANGED <<now, pressed, candidates>>,
         candidates = Nobody => pressed = <<>> \/ Calling("cleanup")' \/ Calling("flush")',
         \A i \in 1 .. Len(Held') : \E j \in 1 .. Len(Held) : Held'[i] = Held[j]
  PROVE  CandInv'
  <1>1. CandInv
    BY DEF IInv
  <1>2. \A c \in DOMAIN candidates :
          \A i \in 1 .. Len(Held') : candidates[c] <= Held'[i].time + Conf[c].timeout
    BY <1>1 DEF CandInv
  <1> QED
    BY <1>1, <1>2 DEF CandInv

Leaves ==
  /\ Held # <<>>
  /\ LET e == Head(Held)
     IN /\ e.down # (e.key \in passed)
        /\ passed' = IF e.down THEN passed \cup {e.key} ELSE passed \ {e.key}
  /\ Held' = Tail(Held)
  /\ UNCHANGED <<active, on>>

LEMMA OneAndMore ==
  ASSUME NEW S, NEW x \in S, NEW r \in Seq(S)
  PROVE  LET w == <<x>> \o r
         IN /\ w \in Seq(S) /\ w # <<>> /\ Head(w) = x /\ Tail(w) = r /\ Len(w) >= 1
            /\ w[1] = x /\ Len(w) = Len(r) + 1 /\ \A i \in 1 .. Len(r) : r[i] = w[i + 1]
  <1> DEFINE w == <<x>> \o r
  <1>1. PICK L \in Nat : L = Len(r)
    OBVIOUS
  <1>2. <<x>> \in Seq(S) /\ Len(<<x>>) = 1 /\ <<x>>[1] = x
    OBVIOUS
  <1>3. /\ w \in Seq(S) /\ Len(w) = 1 + L
        /\ \A i \in 1 .. 1 + L : w[i] = IF i <= 1 THEN <<x>>[i] ELSE r[i - 1]
    BY <1>1, <1>2, ConcatProperties
  <1> HIDE DEF w
  <1>4. w[1] = x /\ \A i \in 1 .. L : r[i] = w[i + 1]
    BY <1>2, <1>3
  <1>5. Tail(w) \in Seq(S) /\ Len(Tail(w)) = L /\ \A i \in 1 .. L : Tail(w)[i] = w[i + 1]
    BY <1>3
  <1>6. Tail(w) = r
    BY <1>1, <1>4, <1>5, SeqEqual
  <1> QED
    BY <1>1, <1>3, <1>4, <1>6 DEF w

LEMMA DeliverStep ==
  ASSUME IInv, Deliver
  PROVE  IInv' /\ Leaves
  <1> DEFINE e == Call.event
             r == Flat(Tail(todo))
  <1>0. /\ todo # <<>> /\ Call.op = "pass" /\ Then(<<>>)
        /\ passed' = (IF e.down THEN passed \cup {e.key} ELSE passed \ {e.key})
        /\ lastTapped' = (IF e.down /\ e.key \in Letter /\ e.time > lastCombo THEN e.time
                          ELSE lastTapped)
        /\ layer' \in {0, 1, layer}
        /\ UNCHANGED <<now, events, others, down, scope, disturbed,
                       pressed, candidates, full, active, task, taskAt,
                       lastCombo, on>>
    BY DEF Deliver, input, history, Calling, Call
  <1>1. TypeOK /\ TodoInv /\ HeadInv /\ HeldInv /\ ActiveInv /\ CandInv /\ FullInv
    BY DEF IInv
  <1>2. /\ Call \in Calls /\ r \in Seq(AnyEvent) /\ pressed \in Seq(AnyEvent)
        /\ Held = pressed \o (EventsOf(Call) \o r)
        /\ Releasing(Call) => Tail(todo) = <<>>
    BY <1>0, TheCall
  <1>3. /\ e \in AnyEvent /\ EventsOf(Call) = <<e>> /\ (~e.down => Releasing(Call))
    BY <1>0, <1>2, CallFields, EventsOfCall DEF Releasing
  <1>4. pressed = <<>> /\ (~e.down => e.key \notin EatenKeys)
    BY <1>0, <1>1 DEF HeadInv, Calling, Call
  <1>5. Crowded' = Crowded /\ EatenKeys' = EatenKeys
    BY <1>0 DEF Crowded, EatenKeys
  <1>6. /\ TodoInv' /\ (ForgetDue => ForgetDue')
        /\ todo' # <<>> => Call'.op \notin {"cleanup", "pass", "flush"}
        /\ Held' = pressed' \o (Flat(<<>>) \o Flat(Tail(todo))) /\ Flat(<<>>) = <<>>
    <2>1. /\ <<>> \in Seq(Calls) /\ AllInPlace(<<>>, pressed' = <<>>, Crowded') /\ Flat(<<>>) = <<>>
          /\ ~\E j \in 1 .. Len(<<>>) : Releasing(<<>>[j])
      BY NoneInPlace
    <2> QED
      BY <1>0, <1>1, <1>5, <2>1, Proceed
  <1>7. EventFields /\ e.key \in Key /\ e.down \in BOOLEAN /\ e.time \in Int
    BY <1>3, EventFields
  <1> HIDE DEF e, r
  <1>8. Held = <<e>> \o r /\ Held' = r
    <2>1. <<e>> \o r \in Seq(AnyEvent) /\ <<>> \o r = r
      BY <1>2, <1>3
    <2> QED
      BY <1>0, <1>2, <1>3, <1>4, <1>6, <2>1 DEF r
  <1>9. /\ Held \in Seq(AnyEvent) /\ Held # <<>> /\ Head(Held) = e /\ Tail(Held) = r
        /\ Len(Held) >= 1 /\ Held[1] = e /\ Held' = Tail(Held)
    <2>1. Held # <<>> /\ Held \in Seq(AnyEvent) /\ Head(Held) = e /\ Tail(Held) = r
          /\ Len(Held) >= 1 /\ Held[1] = e
      BY <1>2, <1>3, <1>8, OneAndMore
    <2> QED
      BY <1>8, <2>1
  <1>10. Orderly(Held, Base, down, now)
    BY <1>1 DEF HeldInv
  <1>11. ASSUME e.down PROVE HeldInv' /\ ActiveInv' /\ e.key \notin passed
    <2>1. e.key \notin Base
      <3>1. 1 \in Presses(Held)
        BY <1>9, <1>11 DEF Presses
      <3> QED
        BY <1>9, <1>10, <3>1 DEF Orderly
    <2>2. Base' = Base \cup {e.key} /\ passed' = passed \cup {e.key}
      BY <1>0, <1>5, <1>11 DEF Base
    <2>3. HeldInv'
      <3>1. 1 \in 0 .. Len(Held) /\ \A i \in 1 .. 1 : Held[i].down
        BY <1>9, <1>11
      <3>2. Orderly(SubSeq(Held, 1 + 1, Len(Held)), Base \cup {Held[i].key : i \in 1 .. 1}, down, now)
        BY <1>10, <3>1, OrderlyDrop
      <3>3. SubSeq(Held, 1 + 1, Len(Held)) = Tail(Held) /\ {Held[i].key : i \in 1 .. 1} = {e.key}
        BY <1>9
      <3> QED
        BY <1>0, <1>9, <2>2, <3>2, <3>3 DEF HeldInv
    <2>4. ActiveInv'
      <3>1. \A i \in 1 .. Len(active) : active[i].keys \subseteq EatenKeys
        BY DEF EatenKeys
      <3>2. \A i \in 1 .. Len(active) : active[i].keys \cap passed' = {}
        BY <1>1, <2>1, <2>2, <3>1 DEF ActiveInv, Base
      <3> QED
        BY <1>0, <1>1, <3>2 DEF ActiveInv
    <2> QED
      BY <2>1, <2>3, <2>4 DEF Base
  <1>12. ASSUME ~e.down PROVE HeldInv' /\ ActiveInv' /\ e.key \in passed
    <2>1. r = <<>>
      BY <1>2, <1>3, <1>12, FlatFew DEF r
    <2>2. Held = Append(<<>>, e) /\ <<>> \in Seq(AnyEvent) /\ Held' = <<>>
      BY <1>3, <1>8, <2>1
    <2>3. /\ e.key \in Base \cup PressKeys(<<>>)
          /\ e.key \in Base => Orderly(<<>>, Base \ {e.key}, down, now)
      BY <1>3, <1>10, <1>12, <2>2, OrderlyUp
    <2>4. PressKeys(<<>>) = {}
      BY DEF PressKeys, Presses
    <2>5. e.key \in passed /\ e.key \notin EatenKeys
      BY <1>4, <1>12, <2>3, <2>4 DEF Base, e
    <2>6. passed' = passed \ {e.key} /\ Base' = Base \ {e.key}
      BY <1>0, <1>5, <1>12, <2>5 DEF Base
    <2>7. HeldInv'
      BY <1>0, <2>2, <2>3, <2>4, <2>6 DEF HeldInv
    <2>8. ActiveInv'
      <3>1. \A i \in 1 .. Len(active) : active[i].keys \cap passed' = {}
        BY <1>1, <2>6 DEF ActiveInv
      <3> QED
        BY <1>0, <1>1, <3>1 DEF ActiveInv
    <2> QED
      BY <2>5, <2>7, <2>8
  <1>13. HeldInv' /\ ActiveInv' /\ Leaves
    <2>1. e.down # (e.key \in passed)
      BY <1>7, <1>11, <1>12
    <2> QED
      BY <1>0, <1>9, <1>11, <1>12, <2>1 DEF Leaves
  <1>14. TypeOK'
    <2>1. passed' \subseteq Key
      BY <1>0, <1>1, <1>7 DEF TypeOK
    <2>2. lastTapped' \in Int
      BY <1>0, <1>1, <1>7 DEF TypeOK
    <2>3. layer' \in {0, 1}
      BY <1>0, <1>1 DEF TypeOK
    <2> QED
      BY <1>0, <1>1, <2>1, <2>2, <2>3 DEF TypeOK
  <1>15. HeadInv'
    BY <1>6 DEF HeadInv, Calling, Call
  <1>16. CandInv'
    <2>1. \A i \in 1 .. Len(Held') : \E j \in 1 .. Len(Held) : Held'[i] = Held[j]
      <3> SUFFICES ASSUME NEW i \in 1 .. Len(Tail(Held))
                   PROVE  \E j \in 1 .. Len(Held) : Tail(Held)[i] = Held[j]
        BY <1>9
      <3>1. i + 1 \in 1 .. Len(Held) /\ Tail(Held)[i] = Held[i + 1]
        BY <1>9
      <3> QED
        BY <3>1
    <2> QED
      BY <1>0, <1>4, <2>1, ShorterLine
  <1>17. FullInv'
    <2>1. full # None => ForgetDue
      BY <1>1, <1>4 DEF FullInv, Complete
    <2> QED
      BY <1>0, <1>6, <2>1 DEF FullInv
  <1> QED
    BY <1>6, <1>13, <1>14, <1>15, <1>16, <1>17 DEF IInv
-----------------------------------------------------------------------------
(* A combo gets the release of one of its keys *)

\* An entry of active_combos.
Entry == [combo : Combo, keys : SUBSET Key]

LEMMA EntryIs ==
  ASSUME NEW a \in Entry
  PROVE  /\ a.combo \in Combo /\ a.keys \in SUBSET Key
         /\ \A ks \in SUBSET Key :
              /\ [a EXCEPT !.keys = ks] \in Entry
              /\ [a EXCEPT !.keys = ks].combo = a.combo
              /\ [a EXCEPT !.keys = ks].keys = ks
  BY DEF Entry

LEMMA TakerIs ==
  ASSUME active \in Seq(Entry), NEW k
  PROVE  \/ Taker(k) = 0 /\ k \notin EatenKeys
         \/ Taker(k) \in 1 .. Len(active) /\ k \in active[Taker(k)].keys
  <1> DEFINE T == {i \in 1 .. Len(active) : k \in active[i].keys}
  <1>1. Taker(k) = IF T # {} THEN Min(T) ELSE 0
    BY DEF Taker, SelectInSeq
  <1>2. CASE T = {}
    BY <1>1, <1>2 DEF EatenKeys
  <1>3. CASE T # {}
    <2>1. T \in SUBSET Nat
      OBVIOUS
    <2>2. PICK n \in T : \A m \in T : n <= m
      <3> HIDE DEF T
      <3> QED
        BY <1>3, <2>1, LeastOne
    <2>3. Min(T) \in T
      <3> HIDE DEF T
      <3> QED
        BY <2>2 DEF Min
    <2> QED
      BY <1>1, <1>3, <2>3
  <1> QED
    BY <1>2, <1>3

\* t is the array s after the release of k: each entry of t comes from one of s,
\* with the keys that are left, and no entry with keys left is lost.
Shrinks(s, M, t, N, k) ==
  \E from \in [1 .. N -> 1 .. M] :
    /\ \A j \in 1 .. N :
         /\ t[j].combo = s[from[j]].combo
         /\ t[j].keys = s[from[j]].keys \ {k} /\ t[j].keys # {}
    /\ \A j, m \in 1 .. N : j # m => from[j] # from[m]
    /\ \A l \in 1 .. M : s[l].keys \ {k} # {} => \E j \in 1 .. N : from[j] = l

\* No entry is without keys, and k is in none but entry i.
OnlyIn(s, M, i, k) ==
  \A l \in 1 .. M : s[l].keys # {} /\ (l # i => k \notin s[l].keys)

\* Entry i of s replaced; and removed, the last of M taking its place.
Put(s, i, x) == [s EXCEPT ![i] = x]
Less(a, k) == [a EXCEPT !.keys = a.keys \ {k}]
Cut(s, i, M) == SubSeq([s EXCEPT ![i] = s[M]], 1, M - 1)

\* Removing an entry: the last one takes its place.
LEMMA MoveLast ==
  ASSUME NEW s \in Seq(Entry), NEW M \in Nat, M = Len(s), NEW i \in 1 .. M
  PROVE  /\ Cut(s, i, M) \in Seq(Entry) /\ Len(Cut(s, i, M)) = M - 1
         /\ \A j \in 1 .. M - 1 : Cut(s, i, M)[j] = s[IF j = i THEN M ELSE j]
  <1> DEFINE g == [s EXCEPT ![i] = s[M]]
  <1>2. s[M] \in Entry
    BY M \in 1 .. M
  <1>3. g \in Seq(Entry) /\ Len(g) = M
    BY <1>2
  <1>4. \A j \in 1 .. M : g[j] = s[IF j = i THEN M ELSE j]
    OBVIOUS
  <1>5. Cut(s, i, M) = SubSeq(g, 1, M - 1)
    BY DEF Cut
  <1> HIDE DEF g
  <1> QED
    BY <1>3, <1>4, <1>5

LEMMA Replaced ==
  ASSUME NEW s \in Seq(Entry), NEW i \in 1 .. Len(s), NEW x \in Entry
  PROVE  /\ Put(s, i, x) \in Seq(Entry) /\ Len(Put(s, i, x)) = Len(s)
         /\ Put(s, i, x)[i] = x
         /\ \A j \in 1 .. Len(s) : j # i => Put(s, i, x)[j] = s[j]
  BY DEF Put

LEMMA RemovedShrinks ==
  ASSUME NEW s \in Seq(Entry), NEW k, NEW M \in Nat, M = Len(s), NEW i \in 1 .. M,
         OnlyIn(s, M, i, k),
         s[i].keys \ {k} = {},
         NEW t, t = Cut(s, i, M)
  PROVE  t \in Seq(Entry) /\ Len(t) = M - 1 /\ Shrinks(s, M, t, M - 1, k)
  <1>1. /\ t \in Seq(Entry) /\ Len(t) = M - 1
        /\ \A j \in 1 .. M - 1 : t[j] = s[IF j = i THEN M ELSE j]
    <2>1. /\ Cut(s, i, M) \in Seq(Entry) /\ Len(Cut(s, i, M)) = M - 1
          /\ \A j \in 1 .. M - 1 : Cut(s, i, M)[j] = s[IF j = i THEN M ELSE j]
      BY MoveLast, Zenon
    <2> QED
      BY <2>1
  <1> DEFINE from == [j \in 1 .. M - 1 |-> IF j = i THEN M ELSE j]
  <1>2. from \in [1 .. M - 1 -> 1 .. M] /\ \A j \in 1 .. M - 1 : from[j] # i
    OBVIOUS
  <1>3. \A j, m \in 1 .. M - 1 : j # m => from[j] # from[m]
    OBVIOUS
  <1>4. \A l \in 1 .. M : l # i => \E j \in 1 .. M - 1 : from[j] = l
    <2> SUFFICES ASSUME NEW l \in 1 .. M, l # i
                 PROVE  \E j \in 1 .. M - 1 : from[j] = l
      OBVIOUS
    <2>1. CASE l = M
      BY <2>1, i \in 1 .. M - 1
    <2>2. CASE l # M
      BY <2>2, l \in 1 .. M - 1
    <2> QED
      BY <2>1, <2>2
  <1>5. \A j \in 1 .. M - 1 : t[j] = s[from[j]]
    BY <1>1
  <1> HIDE DEF from
  <1>6. \A j \in 1 .. M - 1 :
          /\ t[j].combo = s[from[j]].combo
          /\ t[j].keys = s[from[j]].keys \ {k} /\ t[j].keys # {}
    <2> SUFFICES ASSUME NEW j \in 1 .. M - 1
                 PROVE  /\ t[j].combo = s[from[j]].combo
                        /\ t[j].keys = s[from[j]].keys \ {k} /\ t[j].keys # {}
      OBVIOUS
    <2>1. t[j] = s[from[j]] /\ from[j] \in 1 .. M /\ from[j] # i
      BY <1>2, <1>5
    <2>2. s[from[j]].keys # {} /\ k \notin s[from[j]].keys
      BY <2>1 DEF OnlyIn
    <2> QED
      BY <2>1, <2>2
  <1>7. \A l \in 1 .. M : s[l].keys \ {k} # {} => \E j \in 1 .. M - 1 : from[j] = l
    BY <1>4
  <1> QED
    BY <1>1, <1>2, <1>3, <1>6, <1>7 DEF Shrinks

LEMMA ReducedShrinks ==
  ASSUME NEW s \in Seq(Entry), NEW k, NEW M \in Nat, M = Len(s), NEW i \in 1 .. M,
         OnlyIn(s, M, i, k),
         s[i].keys \ {k} # {}
  PROVE  /\ Put(s, i, Less(s[i], k)) \in Seq(Entry)
         /\ Len(Put(s, i, Less(s[i], k))) = M
         /\ Shrinks(s, M, Put(s, i, Less(s[i], k)), M, k)
  <1>1. s[i] \in Entry
    OBVIOUS
  <1> DEFINE left == s[i].keys \ {k}
             x == Less(s[i], k)
             t == Put(s, i, x)
  <1>2. left \in SUBSET Key
    BY <1>1, EntryIs
  <1>3. x \in Entry /\ x.combo = s[i].combo /\ x.keys = left /\ left = s[i].keys \ {k} /\ left # {}
    BY <1>1, <1>2, EntryIs DEF Less
  <1>4. t = Put(s, i, x)
    OBVIOUS
  <1> HIDE DEF x, t, left
  <1>5. t \in Seq(Entry) /\ Len(t) = M /\ t[i] = x /\ \A j \in 1 .. M : j # i => t[j] = s[j]
    <2>1. /\ Put(s, i, x) \in Seq(Entry) /\ Len(Put(s, i, x)) = Len(s)
          /\ Put(s, i, x)[i] = x
          /\ \A j \in 1 .. Len(s) : j # i => Put(s, i, x)[j] = s[j]
      <3>1. i \in 1 .. Len(s) /\ x \in Entry
        BY <1>3
      <3> QED
        BY <3>1, Replaced, Zenon
    <2> QED
      BY <1>4, <2>1
  <1> DEFINE from == [j \in 1 .. M |-> j]
  <1>6. /\ from \in [1 .. M -> 1 .. M] /\ \A j \in 1 .. M : from[j] = j
        /\ \A j, m \in 1 .. M : j # m => from[j] # from[m]
    OBVIOUS
  <1>7. \A j \in 1 .. M :
          /\ t[j].combo = s[from[j]].combo
          /\ t[j].keys = s[from[j]].keys \ {k} /\ t[j].keys # {}
    <2> SUFFICES ASSUME NEW j \in 1 .. M
                 PROVE  /\ t[j].combo = s[j].combo
                        /\ t[j].keys = s[j].keys \ {k} /\ t[j].keys # {}
      BY <1>6
    <2>1. CASE j = i
      BY <1>3, <1>5, <2>1
    <2>2. CASE j # i
      <3>1. t[j] = s[j] /\ s[j].keys # {} /\ k \notin s[j].keys
        BY <1>5, <2>2 DEF OnlyIn
      <3> QED
        BY <3>1
    <2> QED
      BY <2>1, <2>2
  <1> HIDE DEF from
  <1> QED
    BY <1>5, <1>6, <1>7 DEF Shrinks, x, t

\* The active combos, and those whose binding is pressed, once entry i has taken the
\* release of k.
Rest(i, k) ==
  IF active[i].keys \ {k} = {} THEN Without(i)
  ELSE [active EXCEPT ![i].keys = active[i].keys \ {k}]
OnStill(i, k) ==
  LET c == active[i].combo
  IN IF IF Conf[c].slow THEN active[i].keys \ {k} = {} ELSE active[i].keys = Conf[c].keys
     THEN on \ {c} ELSE on

\* Either way the array shrinks, for no key is in two entries.
LEMMA AfterRelease ==
  ASSUME IInv, NEW i \in 1 .. Len(active), NEW k \in active[i].keys,
         active' = Rest(i, k)
  PROVE  active' \in Seq(Entry) /\ Len(active') <= Len(active) /\ Shrinks(active, Len(active), active', Len(active'), k)
  <1>0. active \in Seq(Entry)
    BY DEF IInv, TypeOK, Entry
  <1>1. PICK M \in Nat : M \in Nat /\ M = Len(active) /\ i \in 1 .. M /\ active \in Seq(Entry)
    BY <1>0
  <1>2. OnlyIn(active, M, i, k)
    BY <1>1 DEF IInv, ActiveInv, OnlyIn
  <1> DEFINE left == active[i].keys \ {k}
  <1>3. left = active[i].keys \ {k}
    OBVIOUS
  <1>4. CASE left = {}
    <2>1. active' = Cut(active, i, M)
      BY <1>1, <1>4 DEF Rest, Without, Cut
    <2>2. active[i].keys \ {k} = {}
      BY <1>4
    <2>3. active' \in Seq(Entry) /\ Len(active') = M - 1 /\ Shrinks(active, M, active', M - 1, k)
      BY ONLY <1>1, <1>2, <2>1, <2>2, RemovedShrinks
    <2> QED
      BY <1>1, <2>3
  <1>5. CASE left # {}
    <2>1. active' = Put(active, i, Less(active[i], k))
      BY <1>5 DEF Rest, Put, Less
    <2>2. active[i].keys \ {k} # {}
      BY <1>5
    <2> HIDE DEF left
    <2>3. active' \in Seq(Entry) /\ Len(active') = M /\ Shrinks(active, M, active', M, k)
      <3>1. /\ Put(active, i, Less(active[i], k)) \in Seq(Entry)
            /\ Len(Put(active, i, Less(active[i], k))) = M
            /\ Shrinks(active, M, Put(active, i, Less(active[i], k)), M, k)
        BY ONLY <1>1, <1>2, <2>2, ReducedShrinks
      <3> QED
        BY <2>1, <3>1
    <2> QED
      BY <1>1, <2>3
  <1> QED
    BY <1>4, <1>5

\* The keys that the entries of c in array a took.
TakenOf(a, c) == UNION {b.keys : b \in {x \in Range(a) : x.combo = c}}

LEMMA TakenIs ==
  /\ Taken = [c \in Combo |-> TakenOf(active, c)]
  /\ \A a \in Seq(Entry) : \A c, k :
       k \in TakenOf(a, c) <=> \E i \in 1 .. Len(a) : a[i].combo = c /\ k \in a[i].keys
  <1>1. ASSUME NEW a \in Seq(Entry), NEW c, NEW k
        PROVE  k \in TakenOf(a, c) <=> \E i \in 1 .. Len(a) : a[i].combo = c /\ k \in a[i].keys
    <2>1. Range(a) = {a[i] : i \in 1 .. Len(a)}
      BY DEF Range
    <2> QED
      BY <2>1 DEF TakenOf
  <1> QED
    BY <1>1 DEF Taken, TakenOf

\* The combo c takes the release of k: the first one ends it, or the last.
Swallowed(c, k) ==
  /\ c \in Combo /\ k \in Taken[c]
  /\ Taken' = [Taken EXCEPT ![c] = Taken[c] \ {k}]
  /\ on' = IF Conf[c].slow /\ Taken[c] \ {k} # {} THEN on ELSE on \ {c}

\* What the release of k, taken by entry i, leaves: active combos, and none on that
\* the release ends.
LEMMA ReleaseTaken ==
  ASSUME IInv, NEW i \in 1 .. Len(active), NEW k \in active[i].keys,
         active' = Rest(i, k), on' = OnStill(i, k),
         NEW c, c = active[i].combo,
         UNCHANGED passed
  PROVE  /\ ActiveInv' /\ EatenKeys' = EatenKeys \ {k} /\ k \in EatenKeys /\ k \notin passed
         /\ active' \in Seq(Entry) /\ Len(active') <= Len(active)
         /\ Swallowed(c, k)
  <1>1. active' \in Seq(Entry) /\ Len(active') <= Len(active)
        /\ Shrinks(active, Len(active), active', Len(active'), k)
    BY AfterRelease
  <1>2. PICK M : M = Len(active)
    OBVIOUS
  <1>3. PICK N : N = Len(active')
    OBVIOUS
  <1>4. PICK from \in [1 .. N -> 1 .. M] :
          /\ \A j \in 1 .. N : /\ active'[j].combo = active[from[j]].combo
                               /\ active'[j].keys = active[from[j]].keys \ {k}
                               /\ active'[j].keys # {}
          /\ \A j, m \in 1 .. N : j # m => from[j] # from[m]
          /\ \A l \in 1 .. M : active[l].keys \ {k} # {} => \E j \in 1 .. N : from[j] = l
    <2>1. Shrinks(active, M, active', N, k)
      BY <1>1, <1>2, <1>3
    <2> QED
      BY ONLY <2>1 DEF Shrinks
  <1>5. /\ \A l \in 1 .. M : /\ active[l].keys # {}
                             /\ active[l].keys \subseteq Conf[active[l].combo].keys
                             /\ active[l].keys \cap passed = {}
        /\ \A l, m \in 1 .. M : l # m => /\ active[l].keys \cap active[m].keys = {}
                                         /\ active[l].combo # active[m].combo
        /\ \A d \in on : \E l \in 1 .. M :
             active[l].combo = d /\ (Conf[d].slow \/ active[l].keys = Conf[d].keys)
    BY <1>2 DEF IInv, ActiveInv
  <1>6. i \in 1 .. M
    BY <1>2
  <1>7. ASSUME NEW j \in 1 .. N
        PROVE  /\ active'[j].keys # {} /\ active'[j].keys \subseteq Conf[active'[j].combo].keys
               /\ active'[j].keys \cap passed' = {}
    <2>1. /\ active'[j].combo = active[from[j]].combo /\ active'[j].keys # {}
          /\ active'[j].keys \subseteq active[from[j]].keys
      BY <1>4
    <2>2. /\ active[from[j]].keys \subseteq Conf[active[from[j]].combo].keys
          /\ active[from[j]].keys \cap passed = {}
      BY <1>4, <1>5
    <2> QED
      BY <2>1, <2>2
  <1>8. ASSUME NEW j \in 1 .. N, NEW m \in 1 .. N, j # m
        PROVE  active'[j].keys \cap active'[m].keys = {} /\ active'[j].combo # active'[m].combo
    <2>1. from[j] # from[m] /\ from[j] \in 1 .. M /\ from[m] \in 1 .. M
      BY <1>4, <1>8
    <2>2. /\ active[from[j]].keys \cap active[from[m]].keys = {}
          /\ active[from[j]].combo # active[from[m]].combo
      BY <1>5, <2>1
    <2>3. /\ active'[j].keys \subseteq active[from[j]].keys
          /\ active'[m].keys \subseteq active[from[m]].keys
          /\ active'[j].combo = active[from[j]].combo /\ active'[m].combo = active[from[m]].combo
      BY <1>4
    <2> QED
      BY <2>2, <2>3
  <1>9. ASSUME NEW d \in on'
        PROVE  \E j \in 1 .. N :
                 active'[j].combo = d /\ (Conf[d].slow \/ active'[j].keys = Conf[d].keys)
    <2>1. d \in on
      BY <1>9 DEF OnStill
    <2>2. PICK l \in 1 .. M : active[l].combo = d /\ (Conf[d].slow \/ active[l].keys = Conf[d].keys)
      BY <1>5, <2>1
    <2>3. CASE l = i
      <3>1. d = c /\ Conf[d].slow /\ active[i].keys \ {k} # {}
        BY <1>9, <2>2, <2>3 DEF OnStill
      <3>2. PICK j \in 1 .. N : from[j] = l
        BY <1>4, <2>3, <3>1
      <3>3. active'[j].combo = d
        BY <1>4, <2>2, <3>2
      <3> QED
        BY <3>1, <3>3
    <2>4. CASE l # i
      <3>1. active[l].keys \ {k} = active[l].keys /\ active[l].keys # {}
        BY <1>5, <1>6, <2>4
      <3>2. PICK j \in 1 .. N : from[j] = l
        BY <1>4, <3>1
      <3>3. active'[j].combo = d /\ active'[j].keys = active[l].keys
        BY <1>4, <2>2, <3>1, <3>2
      <3> QED
        BY <2>2, <3>3
    <2> QED
      BY <2>3, <2>4
  <1>10. ActiveInv'
    BY ONLY <1>3, <1>7, <1>8, <1>9 DEF ActiveInv
  <1>11. EatenKeys' = EatenKeys \ {k}
    <2>1. ASSUME NEW x \in EatenKeys' PROVE x \in EatenKeys \ {k}
      <3>1. PICK j \in 1 .. N : x \in active'[j].keys
        BY <1>3 DEF EatenKeys
      <3>2. from[j] \in 1 .. M /\ x \in active[from[j]].keys \ {k}
        BY <1>4, <3>1
      <3> QED
        BY <1>2, <3>2 DEF EatenKeys
    <2>2. ASSUME NEW x \in EatenKeys, x # k PROVE x \in EatenKeys'
      <3>1. PICK l \in 1 .. M : x \in active[l].keys
        BY <1>2 DEF EatenKeys
      <3>2. PICK j \in 1 .. N : from[j] = l
        BY <1>4, <2>2, <3>1
      <3>3. x \in active'[j].keys
        BY <1>4, <2>2, <3>1, <3>2
      <3> QED
        BY <1>3, <3>3 DEF EatenKeys
    <2> QED
      BY <2>1, <2>2
  <1>12. k \in EatenKeys /\ k \notin passed
    BY <1>2, <1>5, <1>6 DEF EatenKeys
  <1>13. active \in Seq(Entry) /\ active[i] \in Entry /\ c \in Combo
    <2>1. active \in Seq(Entry)
      BY DEF IInv, TypeOK, Entry
    <2> QED
      BY <2>1, EntryIs
  <1>14. /\ Taken = [d \in Combo |-> TakenOf(active, d)]
         /\ Taken' = [d \in Combo |-> TakenOf(active', d)]
    BY TakenIs DEF Taken, TakenOf
  <1>15. /\ \A d, x : x \in TakenOf(active, d) <=>
              \E l \in 1 .. M : active[l].combo = d /\ x \in active[l].keys
         /\ \A d, x : x \in TakenOf(active', d) <=>
              \E j \in 1 .. N : active'[j].combo = d /\ x \in active'[j].keys
    <2>1. \A d, x : x \in TakenOf(active, d) <=>
              \E l \in 1 .. Len(active) : active[l].combo = d /\ x \in active[l].keys
      BY ONLY <1>13, TakenIs
    <2>2. \A d, x : x \in TakenOf(active', d) <=>
              \E j \in 1 .. Len(active') : active'[j].combo = d /\ x \in active'[j].keys
      BY ONLY <1>1, TakenIs
    <2> QED
      BY ONLY <1>2, <1>3, <2>1, <2>2
  <1>16. TakenOf(active, c) = active[i].keys
    <2>1. ASSUME NEW x \in TakenOf(active, c) PROVE x \in active[i].keys
      <3>1. PICK l \in 1 .. M : active[l].combo = c /\ x \in active[l].keys
        BY <1>15
      <3> QED
        BY <1>5, <1>6, <3>1
    <2> QED
      BY <1>6, <1>15, <2>1
  <1>17. TakenOf(active', c) = TakenOf(active, c) \ {k}
    <2>1. ASSUME NEW x \in TakenOf(active', c) PROVE x \in TakenOf(active, c) \ {k}
      <3>1. PICK j \in 1 .. N : active'[j].combo = c /\ x \in active'[j].keys
        BY ONLY <1>15, <2>1
      <3>2. from[j] \in 1 .. M /\ active[from[j]].combo = c /\ x \in active[from[j]].keys /\ x # k
        BY <1>4, <3>1
      <3> QED
        BY <1>15, <3>2
    <2>2. ASSUME NEW x \in TakenOf(active, c), x # k PROVE x \in TakenOf(active', c)
      <3>1. PICK l \in 1 .. M : active[l].combo = c /\ x \in active[l].keys
        BY <1>15
      <3>2. PICK j \in 1 .. N : from[j] = l
        BY <1>4, <2>2, <3>1
      <3>3. active'[j].combo = c /\ x \in active'[j].keys
        BY <1>4, <2>2, <3>1, <3>2
      <3> QED
        BY <1>15, <3>3
    <2> QED
      BY <2>1, <2>2
  <1>18. ASSUME NEW d \in Combo, d # c PROVE TakenOf(active', d) = TakenOf(active, d)
    <2>1. ASSUME NEW x \in TakenOf(active', d) PROVE x \in TakenOf(active, d)
      <3>1. PICK j \in 1 .. N : active'[j].combo = d /\ x \in active'[j].keys
        BY ONLY <1>15, <2>1
      <3>2. from[j] \in 1 .. M /\ active[from[j]].combo = d /\ x \in active[from[j]].keys
        BY <1>4, <3>1
      <3> QED
        BY <1>15, <3>2
    <2>2. ASSUME NEW x \in TakenOf(active, d) PROVE x \in TakenOf(active', d)
      <3>1. PICK l \in 1 .. M : active[l].combo = d /\ x \in active[l].keys
        BY <1>15
      <3>2. l # i
        BY <1>18, <3>1
      <3>3. x # k
        BY <1>5, <1>6, <3>1, <3>2
      <3>4. PICK j \in 1 .. N : from[j] = l
        BY <1>4, <3>1, <3>3
      <3>5. active'[j].combo = d /\ x \in active'[j].keys
        BY <1>4, <3>1, <3>3, <3>4
      <3> QED
        BY <1>15, <3>5
    <2> QED
      BY <2>1, <2>2
  <1>19. c \in on /\ ~Conf[c].slow => active[i].keys = Conf[c].keys
    BY <1>5, <1>6
  <1>20. k \in Taken[c] /\ Taken' = [Taken EXCEPT ![c] = Taken[c] \ {k}]
    BY <1>13, <1>14, <1>16, <1>17, <1>18
  <1>21. on' = IF Conf[c].slow /\ Taken[c] \ {k} # {} THEN on ELSE on \ {c}
    <2>1. Taken[c] = active[i].keys
      BY <1>13, <1>14, <1>16
    <2> QED
      BY <1>19, <2>1 DEF OnStill
  <1> QED
    BY <1>1, <1>10, <1>11, <1>12, <1>13, <1>20, <1>21 DEF Swallowed

\* The combo c takes e, the release of one of its keys and the last event of the line.
Swallows(c, e) ==
  /\ e \in AnyEvent /\ ~e.down /\ Held' \in Seq(AnyEvent) /\ Held = Append(Held', e)
  /\ Swallowed(c, e.key)
  /\ UNCHANGED passed

\* A release that runs stands alone: the line is the captured presses, and it.
LEMMA KeyUpCall ==
  ASSUME IInv, todo # <<>>, Call.op = "key-up"
  PROVE  /\ Call.event \in Release /\ Call.event \in AnyEvent /\ ~Call.event.down
         /\ Call.event.key \in Key
         /\ Call.released \in Nat /\ (Call.released <= 1 => pressed = <<>>)
         /\ pressed \in Seq(AnyEvent) /\ Held = Append(pressed, Call.event)
         /\ Tail(todo) = <<>> /\ ~ForgetDue /\ Releasing(Call)
         /\ EventsOf(Call) = <<Call.event>>
  <1>1. /\ pressed \in Seq(AnyEvent) /\ Call \in Calls /\ InPlace(todo, 1, pressed = <<>>, Crowded)
        /\ Releasing(Call) => Tail(todo) = <<>> /\ ~ForgetDue
        /\ Held = pressed \o (EventsOf(Call) \o Flat(Tail(todo))) /\ Call = todo[1]
    BY TheCall
  <1>2. Releasing(Call)
    BY DEF Releasing
  <1>3. Call.event \in Release /\ Call.released \in Nat
        /\ Call = KeyUp(Call.event, Call.released)
    BY <1>1, CallFields
  <1>4. Call.event \in AnyEvent /\ ~Call.event.down /\ Call.event.key \in Key
    BY <1>3, ReleaseIsEvent DEF Release
  <1>5. EventsOf(Call) = <<Call.event>> /\ Flat(Tail(todo)) = <<>>
    <2>1. EventsOf(KeyUp(Call.event, Call.released)) = <<Call.event>>
      BY EventsOfCall
    <2>2. Tail(todo) = <<>>
      BY <1>1, <1>2
    <2> QED
      BY <1>3, <2>1, <2>2, FlatFew
  <1>6. Call.released <= 1 => pressed = <<>>
    BY <1>1 DEF InPlace
  <1>7. Held = Append(pressed, Call.event)
    <2>1. <<Call.event>> \o <<>> = <<Call.event>>
      OBVIOUS
    <2>2. pressed \o <<Call.event>> = Append(pressed, Call.event)
      BY <1>1, <1>4
    <2> QED
      BY <1>1, <1>5, <2>1, <2>2
  <1> QED
    BY <1>1, <1>2, <1>3, <1>4, <1>5, <1>6, <1>7

LEMMA ReleaseEaten ==
  ASSUME IInv, ReleaseKey, Taker(Call.event.key) # 0
  PROVE  IInv' /\ Swallows(active[Taker(Call.event.key)].combo, Call.event)
  <1> DEFINE e == Call.event
             k == e.key
             i == Taker(k)
             c == active[i].combo
  <1>0. /\ todo # <<>> /\ Call.op = "key-up" /\ Then(<<>>)
        /\ active' = Rest(i, k) /\ on' = OnStill(i, k)
        /\ UNCHANGED <<now, events, others, down, layer, scope, disturbed,
                       pressed, candidates, full, task, taskAt,
                       lastTapped, lastCombo, passed>>
    BY DEF ReleaseKey, input, history, Calling, Call, Rest, OnStill
  <1>1. TypeOK /\ TodoInv /\ HeadInv /\ HeldInv /\ ActiveInv /\ CandInv /\ FullInv
    BY DEF IInv
  <1>2. /\ e \in AnyEvent /\ ~e.down /\ pressed \in Seq(AnyEvent) /\ Held = Append(pressed, e)
        /\ Tail(todo) = <<>> /\ ~ForgetDue
    BY <1>0, KeyUpCall
  <1>3. i \in 1 .. Len(active) /\ k \in active[i].keys
    <2>1. active \in Seq(Entry)
      BY <1>1 DEF TypeOK, Entry
    <2> QED
      BY <2>1, TakerIs
  <1> HIDE DEF i, e
  <1>4. /\ ActiveInv' /\ EatenKeys' = EatenKeys \ {k} /\ k \in EatenKeys /\ k \notin passed
        /\ active' \in Seq(Entry) /\ Len(active') <= Len(active)
        /\ Swallowed(c, k)
    <2> HIDE DEF c, k
    <2>1. c = active[i].combo /\ UNCHANGED passed
      BY <1>0 DEF c
    <2> QED
      BY <1>0, <1>3, <2>1, ReleaseTaken
  <1>5. todo' = <<>>
    BY <1>0, <1>2 DEF Then
  <1>6. Held' = pressed'
    <2>1. Held' = pressed' \o Flat(todo')
      BY DEF Held, Flat, EventSeqs
    <2>2. Flat(<<>>) = <<>> /\ pressed' \o <<>> = pressed'
      BY <1>0, <1>2, FlatFew
    <2> QED
      BY <1>5, <2>1, <2>2
  <1>7. Held' = pressed
    BY <1>0, <1>6
  <1>8. Base' = Base \ {k} /\ k \in Base
    BY <1>0, <1>4 DEF Base
  <1>9. HeldInv'
    <2>1. Orderly(pressed, Base \ {k}, down, now)
      BY <1>1, <1>2, <1>8, OrderlyUp DEF HeldInv
    <2> QED
      BY <1>0, <1>7, <1>8, <2>1 DEF HeldInv
  <1>10. TypeOK'
    <2>1. Len(active') <= MaxPressed
      <3>1. Len(active) \in Nat /\ Len(active') \in Nat /\ Len(active) <= MaxPressed
        BY <1>1, <1>4 DEF TypeOK
      <3> QED
        BY <1>4, <3>1, ComboAssumption
    <2>2. active' \in Seq([combo : Combo, keys : SUBSET Key])
      BY <1>4 DEF Entry
    <2>3. on' \subseteq Combo
      BY <1>1, <1>4 DEF TypeOK, Swallowed
    <2> QED
      BY <1>0, <1>1, <2>1, <2>2, <2>3 DEF TypeOK
  <1>11. TodoInv'
    BY <1>5, NoneInPlace DEF TodoInv
  <1>12. HeadInv'
    BY <1>5 DEF HeadInv, Calling
  <1>13. CandInv'
    <2>1. candidates = Nobody => pressed = <<>>
      BY <1>0, <1>1 DEF CandInv, Calling, Call
    <2>2. \A j \in 1 .. Len(Held') : \E m \in 1 .. Len(Held) : Held'[j] = Held[m]
      <3> SUFFICES ASSUME NEW j \in 1 .. Len(pressed)
                   PROVE  \E m \in 1 .. Len(Held) : pressed[j] = Held[m]
        BY <1>7
      <3>1. j \in 1 .. Len(Held) /\ pressed[j] = Held[j]
        BY <1>2
      <3> QED
        BY <3>1
    <2> QED
      BY <1>0, <2>1, <2>2, ShorterLine
  <1>14. FullInv'
    BY <1>0, <1>1, <1>2 DEF FullInv, Complete
  <1>15. Swallows(c, e)
    BY <1>0, <1>2, <1>4, <1>7 DEF Swallows
  <1>16. IInv'
    BY <1>4, <1>9, <1>10, <1>11, <1>12, <1>13, <1>14 DEF IInv
  <1> QED
    BY <1>15, <1>16 DEF c, e, i

LEMMA ReleaseGoesOn ==
  ASSUME IInv, ReleaseKey, Taker(Call.event.key) = 0
  PROVE  IInv' /\ Held' = Held /\ UNCHANGED <<passed, active, on>>
  <1> DEFINE e == Call.event
             c == UpBehind(e, Call.released)
  <1>0. /\ todo # <<>> /\ Call.op = "key-up" /\ Then(<<c>>)
        /\ UNCHANGED <<now, events, others, down, layer, scope, disturbed,
                       pressed, candidates, full, active, task, taskAt,
                       lastTapped, lastCombo, passed, on>>
    BY DEF ReleaseKey, input, history, Calling, Call
  <1>1. TypeOK /\ TodoInv /\ HeadInv /\ HeldInv /\ ActiveInv /\ CandInv /\ FullInv
    BY DEF IInv
  <1>2. /\ pressed \in Seq(AnyEvent) /\ e \in AnyEvent /\ ~e.down /\ Call.released \in Nat
        /\ Call.released <= 1 => pressed = <<>>
        /\ Releasing(Call) /\ EventsOf(Call) = <<e>> /\ ~ForgetDue
        /\ Held = pressed \o (EventsOf(Call) \o Flat(Tail(todo)))
    BY <1>0, KeyUpCall, TheCall
  <1>3. e.key \notin EatenKeys
    <2>1. active \in Seq(Entry)
      BY <1>1 DEF TypeOK, Entry
    <2>2. \/ Taker(e.key) = 0 /\ e.key \notin EatenKeys
          \/ Taker(e.key) \in 1 .. Len(active)
      BY <2>1, TakerIs
    <2> QED
      BY <2>1, <2>2
  <1> HIDE DEF e
  <1>4. /\ c \in Calls /\ EventsOf(c) = EventsOf(Call) /\ Releasing(c) /\ c.event = e
        /\ c.op \in {"raise", "pass"} /\ (c.op = "pass" => pressed = <<>>)
    <2>1. CASE Call.released > 1
      <3>1. c = Raise(e)
        BY <2>1 DEF UpBehind
      <3>2. c.op = "raise" /\ c.event = e
        BY <3>1 DEF Raise
      <3> QED
        BY <1>2, <3>1, <3>2, CallTypes, EventsOfCall DEF Releasing
    <2>2. CASE ~(Call.released > 1)
      <3>1. c = Pass(e) /\ pressed = <<>>
        BY <1>2, <2>2 DEF UpBehind
      <3>2. c.op = "pass" /\ c.event = e
        BY <3>1 DEF Pass
      <3> QED
        BY <1>2, <3>1, <3>2, CallTypes, EventsOfCall DEF Releasing
    <2> QED
      BY <2>1, <2>2
  <1> HIDE DEF c
  <1>5. /\ <<c>> \in Seq(Calls) /\ <<c>> # <<>> /\ Len(<<c>>) = 1 /\ <<c>>[1] = c
        /\ AllInPlace(<<c>>, pressed' = <<>>, Crowded') /\ Flat(<<c>>) = EventsOf(c)
        /\ ((\E j \in 1 .. Len(<<c>>) : Releasing(<<c>>[j])) <=> Releasing(c))
    BY <1>4, OneInPlace, FlatFew
  <1>6. Then(<<c>>) /\ (Crowded => Crowded')
    BY <1>0 DEF c, Crowded
  <1>7. /\ TodoInv' /\ todo' # <<>> /\ Call' = c
        /\ Held' = pressed' \o (Flat(<<c>>) \o Flat(Tail(todo)))
    BY <1>0, <1>1, <1>2, <1>4, <1>5, <1>6, Proceed
  <1>8. Held' = Held
    BY <1>0, <1>2, <1>4, <1>5, <1>7
  <1>9. TypeOK'
    BY <1>0, <1>1 DEF TypeOK
  <1>10. HeldInv' /\ ActiveInv' /\ EatenKeys' = EatenKeys
    BY <1>0, <1>8, SameLine
  <1>11. HeadInv'
    BY <1>0, <1>3, <1>4, <1>7, <1>10 DEF HeadInv, Calling, Call
  <1>12. CandInv'
    <2>1. candidates = Nobody => pressed = <<>>
      BY <1>0, <1>1 DEF CandInv, Calling, Call
    <2> QED
      BY <1>0, <1>8, <2>1, SameCandidates
  <1>13. FullInv'
    BY <1>0, <1>1, <1>2 DEF FullInv, Complete
  <1> QED
    BY <1>0, <1>7, <1>8, <1>9, <1>10, <1>11, <1>12, <1>13 DEF IInv

-----------------------------------------------------------------------------
(* The specification *)

\* An event comes in, after presses only.
Enters ==
  /\ \E e \in AnyEvent :
       e.down = (e.key \notin down) /\ Held' = Append(Held, e) /\ Releases(Held) = {}
  /\ UNCHANGED <<passed, active, on>>

Stays == Held' = Held /\ UNCHANGED <<passed, active, on>>

\* What others do to the layer and to the last letter leaves the listener as it is.
LEMMA UntouchedStep ==
  ASSUME IInv, TypeOK',
         UNCHANGED <<now, down, pressed, candidates, full, active, task, taskAt, lastCombo, todo,
                     passed, on>>
  PROVE  IInv' /\ Stays
  <1>1. /\ Held' = Held /\ Crowded' = Crowded /\ Base' = Base /\ EatenKeys' = EatenKeys
        /\ (ForgetDue <=> ForgetDue') /\ Call' = Call /\ todo' = todo
    BY DEF Held, Base, EatenKeys, Crowded, ForgetDue, Call
  <1>2. TodoInv'
    BY <1>1 DEF IInv, TodoInv
  <1>3. HeadInv'
    BY <1>1 DEF IInv, HeadInv, Calling, Call
  <1>4. HeldInv' /\ ActiveInv'
    BY <1>1, SameLine
  <1>5. CandInv'
    BY <1>1 DEF IInv, CandInv, Calling, Call
  <1>6. FullInv'
    BY <1>1 DEF IInv, FullInv, Complete
  <1>7. Stays
    BY <1>1 DEF Stays
  <1> QED
    BY <1>2, <1>3, <1>4, <1>5, <1>6, <1>7 DEF IInv

\* Every step keeps the invariant, and is seen from outside as one of these.
LEMMA EveryStep ==
  ASSUME IInv, [Next]_vars
  PROVE  /\ IInv'
         /\ \/ Stays \/ Enters \/ Leaves
            \/ \E c \in Combo : Takes(c)
            \/ \E c \in Combo, e \in AnyEvent : Swallows(c, e)
  <1>1. CASE Bubble
    BY <1>1, BubbleStep DEF Stays
  <1>2. CASE Capture
    BY <1>2, CaptureStep DEF Stays
  <1>3. CASE LetGo
    BY <1>3, LetGoStep DEF Stays
  <1>4. CASE CleanUp
    <2>1. CASE full = None \/ Crowded
      BY <1>4, <2>1, CleanUpFails DEF Stays
    <2>2. CASE full # None /\ ~Crowded
      <3>1. IInv' /\ Takes(full)
        BY <1>4, <2>2, CleanUpTakes
      <3>2. full \in Combo
        BY <3>1 DEF Takes
      <3> QED
        BY <3>1, <3>2
    <2> QED
      BY <2>1, <2>2
  <1>5. CASE ForgetFull
    BY <1>5, ForgetFullStep DEF Stays
  <1>6. CASE ReleasePressedKeys
    BY <1>6, ReleasePressedKeysStep DEF Stays
  <1>7. CASE ReleaseKey
    <2>1. CASE Taker(Call.event.key) = 0
      BY <1>7, <2>1, ReleaseGoesOn DEF Stays
    <2>2. CASE Taker(Call.event.key) # 0
      <3> DEFINE c == active[Taker(Call.event.key)].combo
      <3>1. IInv' /\ Swallows(c, Call.event)
        BY <1>7, <2>2, ReleaseEaten
      <3>2. c \in Combo /\ Call.event \in AnyEvent
        BY <3>1 DEF Swallows, Swallowed
      <3> HIDE DEF c
      <3> QED
        BY <3>1, <3>2
    <2> QED
      BY <2>1, <2>2
  <1>8. CASE Deliver
    BY <1>8, DeliverStep
  <1>9. CASE UpdateTask
    BY <1>9, UpdateTaskStep DEF Stays
  <1>10. CASE Timeout
    BY <1>10, TimeoutStep DEF Stays, Timeout, keymap, history
  <1>11. CASE Tick
    BY <1>11, TickStep DEF Stays, Tick, listener, keymap, history
  <1>12. ASSUME NEW k \in Key, KeyEvent(k) PROVE IInv' /\ Enters
    BY <1>12, KeyEventStep DEF Enters
  <1>13. CASE Elsewhere
    <2>1. TypeOK'
      <3>1. others' \in 0 .. MaxOthers
        BY <1>13, ComboAssumption DEF IInv, TypeOK, Elsewhere
      <3>2. lastTapped' \in Int
        BY <1>13 DEF IInv, TypeOK, Elsewhere
      <3>3. layer' \in {0, 1} /\ disturbed' \in BOOLEAN
        BY <1>13 DEF IInv, TypeOK, Elsewhere
      <3> QED
        BY <1>13, <3>1, <3>2, <3>3 DEF IInv, TypeOK, Elsewhere
    <2> QED
      BY <1>13, <2>1, UntouchedStep DEF Elsewhere
  <1>14. CASE UNCHANGED vars
    <2>1. TypeOK'
      BY <1>14 DEF IInv, TypeOK, vars
    <2> QED
      BY <1>14, <2>1, UntouchedStep DEF vars
  <1> QED
    BY <1>1, <1>2, <1>3, <1>4, <1>5, <1>6, <1>7, <1>8, <1>9, <1>10, <1>11, <1>12, <1>13, <1>14
    DEF Next, Run

\* The line of events is orderly, the active combos are apart, the candidates fit what
\* is captured, and each call stands where it may, in every reachable state.
THEOREM Bookkeeping == Spec => []IInv
  <1>1. Init => IInv
    BY InitInv
  <1>2. IInv /\ [Next]_vars => IInv'
    BY EveryStep
  <1> QED
    BY <1>1, <1>2, PTL DEF Spec

LEMMA NoIndex ==
  ASSUME NEW S, NEW s \in Seq(S), 1 .. Len(s) = {}
  PROVE  s = <<>>
  <1>1. PICK L \in Nat : L = Len(s)
    OBVIOUS
  <1>2. L = 0
    <2>1. L # 0 => 1 \in 1 .. L
      OBVIOUS
    <2> QED
      BY <1>1, <2>1
  <1> QED
    BY <1>1, <1>2, EmptySeq

\* Once every key is up, and no call is left, nothing is held, no key is pressed for the
\* keymap, and no combo is active or on.
LEMMA RestIsEmpty ==
  ASSUME IInv
  PROVE  AllDelivered
  <1> SUFFICES ASSUME Quiet, down = {}
               PROVE  Held = <<>> /\ passed = {} /\ on = {} /\ active = <<>>
    BY DEF AllDelivered
  <1>1. Held = pressed /\ Releases(pressed) = {} /\ down = Base \cup PressKeys(pressed)
    BY AtRest
  <1>2. pressed \in Seq(Press) /\ active \in Seq(Entry)
    BY DEF IInv, TypeOK, Entry
  <1>3. passed = {} /\ EatenKeys = {} /\ PressKeys(pressed) = {}
    BY <1>1 DEF Base
  <1>4. Presses(pressed) = {}
    BY <1>3 DEF PressKeys
  <1>5. 1 .. Len(pressed) = {}
    BY <1>1, <1>4 DEF Presses, Releases
  <1>6. pressed = <<>>
    BY <1>2, <1>5, NoIndex
  <1>7. \A i \in 1 .. Len(active) : active[i].keys # {}
    BY DEF IInv, ActiveInv
  <1>8. 1 .. Len(active) = {}
    BY <1>3, <1>7 DEF EatenKeys
  <1>9. active = <<>>
    BY <1>2, <1>8, NoIndex
  <1>10. on = {}
    BY <1>8 DEF IInv, ActiveInv
  <1> QED
    BY <1>1, <1>3, <1>6, <1>9, <1>10

\* combo.c lets go of everything: the types hold, and when every key is up, every press
\* has reached the keymap or a combo, and every release after it.
THEOREM CombosLetGo == Spec => []ComboSound
  <1>1. IInv => ComboSound
    BY RestIsEmpty DEF ComboSound, IInv
  <1> QED
    BY <1>1, Bookkeeping, PTL

-----------------------------------------------------------------------------
(* What it is from outside: KeyPipe *)

LEMMA TakenKeys ==
  ASSUME IInv
  PROVE  \A k : k \in EatenKeys <=> \E c \in Combo : k \in Taken[c]
  <1>1. active \in Seq(Entry)
    BY DEF IInv, TypeOK, Entry
  <1>2. \A i \in 1 .. Len(active) : active[i].combo \in Combo
    <2> SUFFICES ASSUME NEW i \in 1 .. Len(active) PROVE active[i].combo \in Combo
      OBVIOUS
    <2>1. active[i] \in Entry
      BY <1>1
    <2> QED
      BY <2>1, EntryIs
  <1>3. \A c \in Combo : \A k :
          k \in Taken[c] <=> \E i \in 1 .. Len(active) : active[i].combo = c /\ k \in active[i].keys
    BY <1>1, TakenIs
  <1> QED
    BY <1>2, <1>3 DEF EatenKeys

LEMMA GreatestOne ==
  ASSUME NEW L \in Nat, NEW I \in SUBSET (1 .. L), I # {}
  PROVE  \E i \in I : \A j \in I : i >= j
  <1> DEFINE T == {L - i : i \in I}
  <1>1. T \in SUBSET Nat /\ T # {}
    OBVIOUS
  <1>2. \A i \in I : L - i \in T
    OBVIOUS
  <1>3. \A t \in T : \E i \in I : t = L - i
    OBVIOUS
  <1> HIDE DEF T
  <1>4. PICK t \in T : \A u \in T : t <= u
    BY <1>1, LeastOne
  <1>5. PICK i \in I : t = L - i
    BY <1>3
  <1>6. ASSUME NEW j \in I PROVE i >= j
    <2>1. L - i <= L - j
      BY <1>2, <1>4, <1>5
    <2> QED
      BY <2>1
  <1> QED
    BY <1>6

\* While only presses wait, the keys that went in and are down are those of down.
LEMMA DownIs ==
  ASSUME IInv, Releases(Held) = {}, NEW k
  PROVE  Outside!IsDown(k) = (k \in down)
  <1>1. Orderly(Held, Base, down, now) /\ Held \in Seq(AnyEvent)
    BY HeldFront DEF IInv, HeldInv
  <1>2. PICK L \in Nat : L = Len(Held)
    BY <1>1
  <1>3. \A i \in 1 .. L : Held[i].down
    BY <1>2 DEF Releases
  <1>4. down = Base \cup PressKeys(Held) /\ PressKeys(Held) = {Held[i].key : i \in 1 .. L}
    <2>1. ReleaseKeys(Held) = {} /\ Presses(Held) = 1 .. L
      BY <1>2, <1>3 DEF ReleaseKeys, Presses
    <2> QED
      BY <1>1, <2>1 DEF Orderly, PressKeys
  <1> DEFINE I == {i \in 1 .. L : Held[i].key = k}
             latest == IF I # {} THEN Outside!Max(I) ELSE 0
  <1>5. Outside!IsDown(k) = IF latest # 0 THEN Held[latest].down
                            ELSE k \in passed \/ \E c \in Combo : k \in Taken[c]
    BY <1>2 DEF Outside!IsDown, Outside!SelectLastInSeq
  <1>6. CASE I = {}
    <2>1. k \notin PressKeys(Held) /\ latest = 0
      BY <1>4, <1>6
    <2> QED
      BY <1>4, <1>5, <2>1, TakenKeys DEF Base
  <1>7. CASE I # {}
    <2>1. PICK n \in I : \A j \in I : n >= j
      <3>1. I \in SUBSET (1 .. L)
        OBVIOUS
      <3> HIDE DEF I
      <3> QED
        BY <1>7, <3>1, GreatestOne
    <2>2. Outside!Max(I) \in I
      <3> HIDE DEF I
      <3> QED
        BY <2>1 DEF Outside!Max
    <2>3. latest \in 1 .. L /\ latest # 0 /\ Held[latest].key = k
      BY <1>7, <2>2
    <2>4. Held[latest].down = TRUE /\ k \in PressKeys(Held)
      <3>1. Held[latest] \in AnyEvent
        BY <1>1, <1>2, <2>3
      <3> QED
        BY <1>3, <1>4, <2>3, <3>1, EventFields
    <2> QED
      BY <1>4, <1>5, <2>3, <2>4
  <1> QED
    BY <1>6, <1>7

LEMMA EnterMaps ==
  ASSUME IInv, Enters
  PROVE  \E e \in Outside!Event : Outside!Enter(e)
  <1>1. PICK e \in AnyEvent : /\ e.down = (e.key \notin down) /\ Held' = Append(Held, e)
                              /\ Releases(Held) = {}
    BY DEF Enters
  <1>2. Outside!IsDown(e.key) = (e.key \in down)
    BY <1>1, DownIs
  <1>3. Taken' = Taken /\ UNCHANGED <<passed, on>>
    BY DEF Enters, Taken
  <1>4. e \in Outside!Event /\ e.down \in BOOLEAN
    BY EventFields DEF AnyEvent, Outside!Event
  <1>5. e.down # Outside!IsDown(e.key)
    BY <1>1, <1>2
  <1> QED
    BY <1>1, <1>3, <1>4, <1>5 DEF Outside!Enter

LEMMA LeaveMaps ==
  ASSUME Leaves
  PROVE  Outside!Leave
  <1>1. Taken' = Taken
    BY DEF Leaves, Taken
  <1> QED
    BY <1>1 DEF Leaves, Outside!Leave

\* What the array of a new entry has taken.
LEMMA TakesMaps ==
  ASSUME IInv, NEW c \in Combo, Takes(c)
  PROVE  Outside!Eat(c)
  <1> DEFINE a == [combo |-> c, keys |-> Conf[c].keys]
  <1>1. active \in Seq(Entry) /\ a \in Entry /\ a.combo = c /\ a.keys = Conf[c].keys
    <2>1. Conf[c].keys \subseteq Key
      BY ConfType
    <2> QED
      BY <2>1 DEF IInv, TypeOK, Entry
  <1>2. active' = Append(active, a)
    BY DEF Takes
  <1> HIDE DEF a
  <1>3. PICK M \in Nat : M = Len(active)
    BY <1>1
  <1>4. /\ active' \in Seq(Entry) /\ Len(active') = M + 1 /\ active'[M + 1] = a
        /\ \A i \in 1 .. M : active'[i] = active[i]
    BY <1>1, <1>2, <1>3
  <1>5. /\ \A d, x : x \in TakenOf(active, d) <=>
              \E i \in 1 .. M : active[i].combo = d /\ x \in active[i].keys
        /\ \A d, x : x \in TakenOf(active', d) <=>
              \E i \in 1 .. M + 1 : active'[i].combo = d /\ x \in active'[i].keys
    <2>1. \A d, x : x \in TakenOf(active, d) <=>
            \E i \in 1 .. Len(active) : active[i].combo = d /\ x \in active[i].keys
      BY ONLY <1>1, TakenIs
    <2>2. \A d, x : x \in TakenOf(active', d) <=>
            \E i \in 1 .. Len(active') : active'[i].combo = d /\ x \in active'[i].keys
      BY ONLY <1>4, TakenIs
    <2> QED
      BY ONLY <1>3, <1>4, <2>1, <2>2
  <1>6. /\ \A i \in 1 .. M : i \in 1 .. M + 1
        /\ \A i \in 1 .. M + 1 : i = M + 1 \/ i \in 1 .. M
        /\ M + 1 \in 1 .. M + 1
    OBVIOUS
  <1>7. TakenOf(active, c) = {}
    <2>1. \A i \in 1 .. M : active[i].combo # c
      BY <1>3 DEF Takes
    <2> QED
      BY ONLY <1>5, <2>1
  <1>8. TakenOf(active', c) = Conf[c].keys
    <2>1. \A i \in 1 .. M : active'[i].combo # c
      BY <1>3, <1>4 DEF Takes
    <2>2. \A x : x \in TakenOf(active', c) <=> x \in active'[M + 1].keys
      BY ONLY <1>1, <1>4, <1>5, <1>6, <2>1
    <2> QED
      BY <1>1, <1>4, <2>2
  <1>9. ASSUME NEW d \in Combo, d # c PROVE TakenOf(active', d) = TakenOf(active, d)
    <2>1. active'[M + 1].combo # d
      BY <1>1, <1>4, <1>9
    <2>2. \A x : x \in TakenOf(active', d) <=> x \in TakenOf(active, d)
      BY ONLY <1>4, <1>5, <1>6, <2>1
    <2> QED
      BY <2>2
  <1>10. /\ Taken = [d \in Combo |-> TakenOf(active, d)]
         /\ Taken' = [d \in Combo |-> TakenOf(active', d)]
    BY TakenIs DEF Taken, TakenOf
  <1>11. Taken[c] = {} /\ Taken' = [Taken EXCEPT ![c] = Conf[c].keys]
    BY <1>7, <1>8, <1>9, <1>10
  <1>12. Size(c) \in Nat /\ Len(Held) \in Nat /\ Size(c) <= Len(Held) /\ Size(c) = Cardinality(Conf[c].keys)
    BY ConfType, HeldFront DEF Takes, Size
  <1>13. Outside!Cardinality(Conf[c].keys) = Size(c)
    BY DEF Outside!Cardinality, Cardinality, Size
  <1> QED
    BY <1>11, <1>12, <1>13 DEF Takes, Outside!Eat

LEMMA SwallowsMaps ==
  ASSUME NEW c \in Combo, NEW e \in AnyEvent, Swallows(c, e)
  PROVE  \E i \in DOMAIN Held : Outside!EatUp(c, i)
  <1>1. PICK L \in Nat : L = Len(Held')
    BY DEF Swallows
  <1>2. Held' \in Seq(AnyEvent) /\ Held = Append(Held', e)
    BY DEF Swallows
  <1> DEFINE p == Held'
  <1>3. p \in Seq(AnyEvent) /\ L = Len(p) /\ Held = Append(p, e)
    BY <1>1, <1>2
  <1> HIDE DEF p
  <1>4. /\ Held \in Seq(AnyEvent) /\ Len(Held) = L + 1 /\ Held[L + 1] = e /\ DOMAIN Held = 1 .. L + 1
        /\ \A i \in 1 .. L : Held[i] = p[i]
    BY <1>3
  <1>5. SubSeq(Held, 1, L) = p /\ SubSeq(Held, L + 2, L + 1) = <<>>
    BY <1>3, <1>4
  <1>6. Outside!RemoveAt(Held, L + 1) = p
    <2>1. p \o <<>> = p /\ (L + 1) - 1 = L /\ (L + 1) + 1 = L + 2
      BY <1>3
    <2> QED
      BY <1>4, <1>5, <2>1 DEF Outside!RemoveAt
  <1>7. Outside!EatUp(c, L + 1)
    BY <1>4, <1>6 DEF Swallows, Swallowed, Outside!EatUp, p
  <1> QED
    BY <1>4, <1>7

\* combo.c keeps the promise of KeyPipe: events go through in their order and
\* unchanged, and a combo takes its own keys only, and later the releases of these.
THEOREM CombosArePipe == Spec => Pipe
  <1>1. Init => Outside!Start
    <2> SUFFICES ASSUME Init PROVE Outside!Start
      OBVIOUS
    <2>1. todo \in Seq(Calls) /\ pressed \in Seq(Press) /\ todo = <<>> /\ pressed = <<>>
      BY DEF Init
    <2>2. Held = <<>>
      BY <2>1, HeldIs
    <2>3. active \in Seq(Entry) /\ Len(active) = 0
      BY DEF Init
    <2>4. ASSUME NEW c \in Combo PROVE TakenOf(active, c) = {}
      <3>1. \A k : k \in TakenOf(active, c) <=>
              \E i \in 1 .. Len(active) : active[i].combo = c /\ k \in active[i].keys
        <4>1. active \in Seq(Entry)
          BY <2>3
        <4> QED
          BY ONLY <4>1, TakenIs
      <3>2. \A k : k \notin TakenOf(active, c)
        BY <2>3, <3>1
      <3> QED
        BY <3>2
    <2>5. Taken = [c \in Combo |-> {}]
      BY <2>4, TakenIs
    <2> QED
      BY <2>2, <2>5 DEF Init, Outside!Start
  <1>2. IInv /\ [Next]_vars => [Outside!Flow]_(Outside!pipe)
    <2> SUFFICES ASSUME IInv, [Next]_vars PROVE [Outside!Flow]_(Outside!pipe)
      OBVIOUS
    <2>1. CASE Stays
      BY <2>1 DEF Stays, Outside!pipe, Taken
    <2>2. CASE Enters
      BY <2>2, EnterMaps DEF Outside!Flow
    <2>3. CASE Leaves
      BY <2>3, LeaveMaps DEF Outside!Flow
    <2>4. ASSUME NEW c \in Combo, Takes(c) PROVE Outside!Flow
      BY <2>4, TakesMaps DEF Outside!Flow
    <2>5. ASSUME NEW c \in Combo, NEW e \in AnyEvent, Swallows(c, e) PROVE Outside!Flow
      BY <2>5, SwallowsMaps DEF Outside!Flow
    <2> QED
      BY <2>1, <2>2, <2>3, <2>4, <2>5, EveryStep
  <1> QED
    BY <1>1, <1>2, Bookkeeping, PTL DEF Spec, Pipe, Outside!Pipe
-----------------------------------------------------------------------------
(* A combo that runs still applies *)

\* c applied when the first of the captured presses came: in scope on the layer, and no
\* letter just before. Unless others have disturbed that, it does now.
Fresh(c) ==
  /\ pressed # <<>> /\ c \in scope
  /\ ~disturbed => ActiveOnLayer(c) /\ ~IsQuickTap(c, pressed[1].time)

\* A key of c went on, or does so next: c cannot be completed before it is up.
Spoiled(c) ==
  \E k \in Conf[c].keys :
    k \in passed \/ (Calling("pass") /\ Call.event.down /\ Call.event.key = k)

\* The cleanup that a release asked for is over, and the release itself is to come.
PastCleanup(c) == Releasing(c) /\ c.op \in {"flush", "key-up"}
Past == \E j \in 1 .. Len(todo) : PastCleanup(todo[j])

\* A release that goes on at once, for no press was raised anew.
Short(c) == c.op = "key-up" /\ c.released <= 1
UpSoon == \E j \in 1 .. Len(todo) : Short(todo[j])

\* No combo can run before a release has cleaned up.
Stuck == Crowded /\ ~Past

\* Candidates may outlive their presses: when no more combo can be active, cleanup
\* flushes twice, and what is captured during the first flush loses its candidates
\* neither in the second nor behind it.
ApplyInv ==
  /\ \A c \in DOMAIN candidates : Fresh(c) \/ Spoiled(c) \/ Stuck
  /\ full # None => Fresh(full) \/ ForgetDue \/ Stuck
  /\ Calling("pass") \/ UpSoon => candidates = Nobody \/ Crowded

\* The calls after a step are those it makes and those that were to come.
LEMMA CallsThen ==
  ASSUME IInv, todo # <<>>, NEW calls \in Seq(Calls), Then(calls)
  PROVE  /\ Past' => Past \/ \E i \in 1 .. Len(calls) : PastCleanup(calls[i])
         /\ UpSoon' => \/ UpSoon /\ Call.op = "pass"
                       \/ \E i \in 1 .. Len(calls) : Short(calls[i])
         /\ Call.op # "forget" /\ ForgetDue => ForgetDue'
         /\ calls = <<>> => ~Calling("pass")'
         /\ calls # <<>> => todo' # <<>> /\ Call' = calls[1]
  <1>1. /\ todo \in Seq(Calls) /\ Call = todo[1] /\ Tail(todo) \in Seq(Calls)
        /\ AllInPlace(todo, pressed = <<>>, Crowded)
    BY TheCall DEF IInv, TodoInv
  <1>2. PICK n \in Nat : n = Len(calls)
    OBVIOUS
  <1>3. PICK m \in Nat : m = Len(todo) /\ m >= 1
    BY <1>1
  <1>4. PICK t : /\ t = Tail(todo) /\ t \in Seq(Calls) /\ Len(t) = m - 1
                 /\ \A i \in 1 .. m - 1 : t[i] = todo[i + 1]
    <2>1. Len(Tail(todo)) = m - 1 /\ \A i \in 1 .. m - 1 : Tail(todo)[i] = todo[i + 1]
      <3>1. todo \in Seq(Calls) /\ todo # <<>>
        BY <1>1
      <3>2. Len(Tail(todo)) = Len(todo) - 1 /\ \A i \in 1 .. Len(todo) - 1 : Tail(todo)[i] = todo[i + 1]
        BY ONLY <3>1, HeadTailProperties
      <3> QED
        BY <1>3, <3>2
    <2> QED
      BY <1>1, <2>1
  <1>5. /\ todo' = calls \o t /\ Len(todo') = n + (m - 1)
        /\ \A j \in 1 .. n + (m - 1) : todo'[j] = IF j <= n THEN calls[j] ELSE t[j - n]
    <2>1. todo' = calls \o t
      BY <1>4 DEF Then
    <2>2. /\ Len(calls \o t) = n + (m - 1)
          /\ \A j \in 1 .. n + (m - 1) : (calls \o t)[j] = IF j <= n THEN calls[j] ELSE t[j - n]
      <3>1. /\ Len(calls \o t) = Len(calls) + Len(t)
            /\ \A j \in 1 .. Len(calls) + Len(t) :
                 (calls \o t)[j] = IF j <= Len(calls) THEN calls[j] ELSE t[j - Len(calls)]
        <4>1. calls \in Seq(Calls) /\ t \in Seq(Calls)
          BY <1>4
        <4> QED
          BY ONLY <4>1, ConcatProperties
      <3> QED
        BY <1>2, <1>4, <3>1
    <2> QED
      BY <2>1, <2>2
  <1>6. ASSUME NEW j \in 1 .. Len(todo')
        PROVE  \/ \E i \in 1 .. n : todo'[j] = calls[i]
               \/ \E i \in 1 .. m : i # 1 /\ todo'[j] = todo[i] /\ i = j - n + 1
    <2>1. CASE j <= n
      BY <1>2, <1>5, <2>1
    <2>2. CASE ~(j <= n)
      <3>1. j - n \in 1 .. m - 1 /\ (j - n) + 1 \in 1 .. m /\ (j - n) + 1 # 1
        BY <1>2, <1>3, <1>5, <2>2
      <3> QED
        BY <1>4, <1>5, <2>2, <3>1
    <2> QED
      BY <2>1, <2>2
  <1>7. ASSUME NEW i \in 1 .. m, i # 1
        PROVE  \E j \in 1 .. Len(todo') : todo'[j] = todo[i]
    <2>1. (i - 1) + n \in 1 .. n + (m - 1) /\ ~((i - 1) + n <= n) /\ ((i - 1) + n) - n = i - 1
          /\ i - 1 \in 1 .. m - 1 /\ (i - 1) + 1 = i
      BY <1>2, <1>3, <1>7
    <2> QED
      BY <1>4, <1>5, <2>1
  <1>8. Past' => Past \/ \E i \in 1 .. Len(calls) : PastCleanup(calls[i])
    <2> SUFFICES ASSUME Past' PROVE Past \/ \E i \in 1 .. Len(calls) : PastCleanup(calls[i])
      OBVIOUS
    <2>1. PICK j \in 1 .. Len(todo') : PastCleanup(todo'[j])
      BY DEF Past, PastCleanup, Releasing
    <2> QED
      BY <1>2, <1>3, <1>6, <2>1 DEF Past
  <1>9. UpSoon' => (UpSoon /\ Call.op = "pass") \/ \E i \in 1 .. Len(calls) : Short(calls[i])
    <2> SUFFICES ASSUME UpSoon'
                 PROVE  (UpSoon /\ Call.op = "pass") \/ \E i \in 1 .. Len(calls) : Short(calls[i])
      OBVIOUS
    <2>1. PICK j \in 1 .. Len(todo') : Short(todo'[j])
      BY DEF UpSoon, Short
    <2>2. CASE \E i \in 1 .. n : todo'[j] = calls[i]
      BY <1>2, <2>1, <2>2
    <2>3. ASSUME NEW i \in 1 .. m, i # 1, todo'[j] = todo[i]
          PROVE  UpSoon /\ Call.op = "pass"
      <3>1. Short(todo[i])
        BY <2>1, <2>3
      <3> QED
        BY <1>1, <1>3, <2>3, <3>1 DEF UpSoon, Short, AllInPlace, InPlace
    <2> QED
      BY <1>6, <2>2, <2>3
  <1>10. Call.op # "forget" /\ ForgetDue => ForgetDue'
    <2> SUFFICES ASSUME Call.op # "forget", ForgetDue PROVE ForgetDue'
      OBVIOUS
    <2>1. PICK i \in 1 .. m : todo[i].op = "forget"
      BY <1>3 DEF ForgetDue
    <2>2. i # 1
      BY <1>1, <2>1
    <2> QED
      BY <1>7, <2>1, <2>2 DEF ForgetDue
  <1>11. ASSUME calls = <<>> PROVE ~Calling("pass")'
    <2> SUFFICES ASSUME todo' # <<>>, Head(todo').op = "pass" PROVE FALSE
      BY DEF Calling
    <2>1. n = 0 /\ m - 1 >= 1 /\ 1 \in 1 .. n + (m - 1) /\ 2 \in 1 .. m
      <3>1. n = 0
        BY <1>2, <1>11
      <3>2. todo' = t
        BY <1>4, <1>5, <1>11
      <3> QED
        BY <1>3, <1>4, <3>1, <3>2
    <2>2. todo' = t /\ Head(t) = t[1] /\ t[1] = todo[2]
      BY <1>4, <1>5, <1>11, <2>1
    <2> QED
      BY <1>1, <1>3, <2>1, <2>2 DEF AllInPlace, InPlace
  <1>12. ASSUME calls # <<>> PROVE todo' # <<>> /\ Call' = calls[1]
    <2>1. n >= 1 /\ 1 \in 1 .. n + (m - 1)
      BY <1>2, <1>3, <1>12
    <2>2. Len(todo') >= 1 /\ todo'[1] = calls[1] /\ todo' \in Seq(Calls)
      BY <1>2, <1>3, <1>4, <1>5, <2>1
    <2> QED
      BY <2>2 DEF Call
  <1> QED
    BY <1>8, <1>9, <1>10, <1>11, <1>12

LEMMA OneCallThen ==
  ASSUME IInv, todo # <<>>, NEW c \in Calls, Then(<<c>>)
  PROVE  /\ Past' => Past \/ PastCleanup(c)
         /\ UpSoon' => (UpSoon /\ Call.op = "pass") \/ Short(c)
         /\ Call.op # "forget" /\ ForgetDue => ForgetDue'
         /\ todo' # <<>> /\ Call' = c
  <1> DEFINE calls == <<c>>
  <1>1. /\ calls \in Seq(Calls) /\ calls # <<>> /\ Len(calls) = 1 /\ calls[1] = c
        /\ \A i \in 1 .. Len(calls) : calls[i] = c
    OBVIOUS
  <1>2. Then(calls)
    OBVIOUS
  <1> HIDE DEF calls
  <1>3. /\ Past' => Past \/ \E i \in 1 .. Len(calls) : PastCleanup(calls[i])
        /\ UpSoon' => (UpSoon /\ Call.op = "pass") \/ \E i \in 1 .. Len(calls) : Short(calls[i])
        /\ Call.op # "forget" /\ ForgetDue => ForgetDue'
        /\ todo' # <<>> /\ Call' = calls[1]
    BY <1>1, <1>2, CallsThen
  <1> QED
    BY <1>1, <1>3

LEMMA NoCallThen ==
  ASSUME IInv, todo # <<>>, Then(<<>>)
  PROVE  /\ Past' => Past
         /\ UpSoon' => UpSoon /\ Call.op = "pass"
         /\ Call.op # "forget" /\ ForgetDue => ForgetDue'
         /\ ~Calling("pass")'
  <1> DEFINE calls == <<>>
  <1>1. calls \in Seq(Calls) /\ calls = <<>> /\ ~\E i \in 1 .. Len(calls) : TRUE
    OBVIOUS
  <1>2. Then(calls)
    OBVIOUS
  <1> HIDE DEF calls
  <1>3. /\ Past' => Past \/ \E i \in 1 .. Len(calls) : PastCleanup(calls[i])
        /\ UpSoon' => (UpSoon /\ Call.op = "pass") \/ \E i \in 1 .. Len(calls) : Short(calls[i])
        /\ Call.op # "forget" /\ ForgetDue => ForgetDue'
        /\ ~Calling("pass")'
    BY <1>1, <1>2, CallsThen
  <1> QED
    BY <1>1, <1>3

\* A step that changes neither the captured presses nor what went on.
LEMMA StillApply ==
  ASSUME IInv, ApplyInv, ~Calling("pass"), UNCHANGED <<pressed, passed, layer, lastTapped, scope, disturbed, active>>,
         DOMAIN candidates' \subseteq DOMAIN candidates, full' \in {full, None},
         Past' => Past, ForgetDue => ForgetDue' \/ full' = None,
         Calling("pass")' \/ UpSoon' => candidates' = Nobody \/ Crowded
  PROVE  ApplyInv'
  <1>1. Crowded' = Crowded
    BY DEF Crowded
  <1>2. ASSUME NEW c, Fresh(c) PROVE Fresh(c)'
    BY <1>2 DEF Fresh, ActiveOnLayer, IsQuickTap
  <1>3. ASSUME NEW c, Spoiled(c) PROVE Spoiled(c)'
    BY <1>3 DEF Spoiled
  <1>4. Stuck => Stuck'
    BY <1>1 DEF Stuck
  <1>5. ASSUME NEW c \in DOMAIN candidates' PROVE (Fresh(c) \/ Spoiled(c) \/ Stuck)'
    <2>1. Fresh(c) \/ Spoiled(c) \/ Stuck
      BY DEF ApplyInv
    <2> QED
      BY <1>2, <1>3, <1>4, <2>1
  <1>6. ASSUME full' # None PROVE Fresh(full)' \/ ForgetDue' \/ Stuck'
    <2>1. PICK c : c = full /\ c # None
      BY <1>6
    <2>2. full' = c
      BY <1>6, <2>1
    <2>3. Fresh(c) \/ ForgetDue \/ Stuck
      BY <2>1 DEF ApplyInv
    <2>4. Fresh(c)' \/ ForgetDue' \/ Stuck'
      BY <1>2, <1>4, <1>6, <2>3
    <2> QED
      BY <2>2, <2>4 DEF Fresh, ActiveOnLayer, IsQuickTap
  <1> QED
    BY <1>1, <1>5, <1>6 DEF ApplyInv

\* At rest no call is left, and the calls that come in then are none of these.
LEMMA AtRestApply ==
  ASSUME IInv, ApplyInv, Quiet, UNCHANGED <<pressed, passed, layer, lastTapped, scope, disturbed, active, full>>,
         DOMAIN candidates' \subseteq DOMAIN candidates, todo' \in Seq(Calls),
         \A j \in 1 .. Len(todo') : todo'[j].op \in {"raise", "cleanup", "update"}
  PROVE  ApplyInv'
  <1>1. ~ForgetDue /\ ~Calling("pass")
    BY DEF Quiet, ForgetDue, Calling
  <1>2. ~Past' /\ ~UpSoon'
    BY DEF Past, PastCleanup, UpSoon, Short, Releasing
  <1>3. ~Calling("pass")'
    <2> SUFFICES ASSUME todo' # <<>>, Head(todo').op = "pass" PROVE FALSE
      BY DEF Calling
    <2>1. 1 \in 1 .. Len(todo') /\ Head(todo') = todo'[1]
      OBVIOUS
    <2> QED
      BY <2>1
  <1> QED
    BY <1>1, <1>2, <1>3, StillApply

LEMMA InputApplies ==
  ASSUME IInv, ApplyInv, Tick \/ Timeout \/ \E k \in Key : KeyEvent(k)
  PROVE  ApplyInv'
  <1>1. CASE Tick
    <2>1. Quiet /\ todo' = <<>> /\ UNCHANGED <<pressed, passed, layer, lastTapped, scope, disturbed, active, full, candidates>>
      BY <1>1 DEF Tick, Quiet, listener, keymap, history
    <2> QED
      BY <2>1, AtRestApply
  <1>2. CASE Timeout
    <2>1. Quiet /\ UNCHANGED <<pressed, passed, layer, lastTapped, scope, disturbed, active, full>>
      BY <1>2 DEF Timeout, keymap, history
    <2>2. /\ DOMAIN candidates' \subseteq DOMAIN candidates
          /\ todo' \in {<<>>, <<Cleanup(NoEvent), Update>>, <<Update>>}
      BY <1>2 DEF Timeout, Quiet, Keep
    <2>3. /\ Cleanup(NoEvent) \in Calls /\ Cleanup(NoEvent).op = "cleanup"
          /\ Update \in Calls /\ Update.op = "update"
      <3>1. NoEvent \in Waiting
        BY DEF Waiting
      <3>2. Cleanup(NoEvent) \in Calls /\ Update \in Calls
        BY <3>1, CallTypes
      <3> QED
        BY <3>2 DEF Cleanup, Update
    <2>4. /\ todo' \in Seq(Calls)
          /\ \A j \in 1 .. Len(todo') : todo'[j].op \in {"raise", "cleanup", "update"}
      <3> DEFINE a == Cleanup(NoEvent)
                 b == Update
      <3>1. a \in Calls /\ b \in Calls /\ a.op = "cleanup" /\ b.op = "update"
        BY <2>3
      <3>2. todo' \in {<<>>, <<a, b>>, <<b>>}
        BY <2>2
      <3> HIDE DEF a, b
      <3>3. PICK t : t = todo'
        OBVIOUS
      <3>4. CASE t = <<>>
        BY <3>3, <3>4
      <3>5. CASE t = <<b>>
        BY <3>1, <3>3, <3>5
      <3>6. CASE t = <<a, b>>
        BY <3>1, <3>3, <3>6
      <3> QED
        BY ONLY <3>2, <3>3, <3>4, <3>5, <3>6
    <2> QED
      BY <2>1, <2>2, <2>4, AtRestApply
  <1>3. ASSUME NEW k \in Key, KeyEvent(k) PROVE ApplyInv'
    <2> DEFINE e == [key |-> k, down |-> k \notin down, time |-> now]
    <2>1. /\ Quiet /\ todo' = <<Raise(e)>>
          /\ UNCHANGED <<pressed, passed, layer, lastTapped, scope, disturbed, active, full, candidates>>
      BY <1>3 DEF KeyEvent, listener, keymap, history
    <2>2. e \in AnyEvent
      BY DEF IInv, TypeOK, AnyEvent
    <2>3. Raise(e) \in Calls /\ Raise(e).op = "raise"
      <3> HIDE DEF e
      <3> QED
        BY <2>2, CallTypes DEF Raise
    <2> HIDE DEF e
    <2> DEFINE r == Raise(e)
    <2>4. todo' = <<r>> /\ r \in Calls /\ r.op = "raise"
      BY <2>1, <2>3
    <2> HIDE DEF r
    <2>5. /\ todo' \in Seq(Calls) /\ DOMAIN candidates' \subseteq DOMAIN candidates
          /\ \A j \in 1 .. Len(todo') : todo'[j].op \in {"raise", "cleanup", "update"}
      BY <2>1, <2>4
    <2> QED
      BY <2>1, <2>5, AtRestApply
  <1> QED
    BY <1>1, <1>2, <1>3

\* A call that makes at most one other, which is none of these, or ends them all.
LEMMA CallApplies ==
  ASSUME IInv, ApplyInv, Bubble \/ LetGo \/ ForgetFull \/ UpdateTask
  PROVE  ApplyInv'
  <1> DEFINE e == Call.event
  <1>1. todo # <<>> /\ Call \in Calls
    BY TheCall DEF Bubble, LetGo, ForgetFull, UpdateTask, Calling
  <1>2. CASE Bubble
    <2>1. /\ Call.op = "raise" /\ e.down /\ candidates = Nobody /\ Then(<<Pass(e)>>)
          /\ UNCHANGED <<pressed, passed, layer, lastTapped, scope, disturbed, active, full, candidates>>
      BY <1>2 DEF Bubble, Calling, Call, listener, keymap, history
    <2>2. e \in AnyEvent
      BY <1>1, <2>1, CallFields
    <2> DEFINE c == Pass(e)
    <2>3. c \in Calls /\ c.op = "pass"
      BY <2>2, CallTypes DEF Pass
    <2> HIDE DEF c
    <2>4. Then(<<c>>)
      BY <2>1 DEF c
    <2>5. (Past' => Past) /\ (ForgetDue => ForgetDue')
      BY <1>1, <2>1, <2>3, <2>4, OneCallThen DEF PastCleanup
    <2>6. ~Calling("pass") /\ DOMAIN candidates' \subseteq DOMAIN candidates
      BY <2>1 DEF Calling, Call
    <2> QED
      BY <2>1, <2>5, <2>6, StillApply
  <1>3. CASE LetGo
    <2>1. /\ Call.op = "raise" /\ ~e.down /\ Then(<<Cleanup(e)>>)
          /\ UNCHANGED <<pressed, passed, layer, lastTapped, scope, disturbed, active, full, candidates>>
      BY <1>3 DEF LetGo, OnUp, Calling, Call, listener, keymap, history
    <2>2. e \in Waiting
      BY <1>1, <2>1, CallFields DEF AnyEvent, Release, Waiting
    <2> DEFINE c == Cleanup(e)
    <2>3. c \in Calls /\ c.op = "cleanup"
      BY <2>2, CallTypes DEF Cleanup
    <2> HIDE DEF c
    <2>4. Then(<<c>>)
      BY <2>1 DEF c
    <2>5. /\ (Past' => Past) /\ (ForgetDue => ForgetDue') /\ ~UpSoon'
          /\ todo' # <<>> /\ Call' = c
      BY <1>1, <2>1, <2>3, <2>4, OneCallThen DEF PastCleanup, Short
    <2>6. ~Calling("pass") /\ ~Calling("pass")' /\ DOMAIN candidates' \subseteq DOMAIN candidates
      BY <2>1, <2>3, <2>5 DEF Calling, Call
    <2> QED
      BY <2>1, <2>5, <2>6, StillApply
  <1>4. CASE ForgetFull \/ UpdateTask
    <2>1. /\ Call.op \in {"forget", "update"} /\ Then(<<>>)
          /\ UNCHANGED <<pressed, passed, layer, lastTapped, scope, disturbed, active, candidates>>
          /\ full' = IF Call.op = "forget" THEN None ELSE full
      BY <1>4 DEF ForgetFull, UpdateTask, Calling, Call, listener, keymap, history
    <2>3. /\ (Past' => Past) /\ (ForgetDue => ForgetDue' \/ full' = None) /\ ~UpSoon'
          /\ ~Calling("pass")'
      BY <1>1, <2>1, NoCallThen
    <2>4. ~Calling("pass") /\ DOMAIN candidates' \subseteq DOMAIN candidates /\ full' \in {full, None}
      BY <2>1 DEF Calling, Call
    <2> QED
      BY <2>1, <2>3, <2>4, StillApply
  <1> QED
    BY <1>2, <1>3, <1>4

LEMMA CleanUpApplies ==
  ASSUME IInv, ApplyInv, CleanUp
  PROVE  ApplyInv'
  <1>1. todo # <<>> /\ Call.op = "cleanup" /\ candidates' = Nobody
    BY DEF CleanUp, Calling, Call
  <1>2. DOMAIN candidates' = {}
    BY <1>1 DEF Nobody
  <1>3. full' = None \/ ForgetDue'
    <2>1. CASE full # None /\ ~Crowded
      BY <2>1 DEF CleanUp, Crowded
    <2>2. CASE full = None
      BY <2>2 DEF CleanUp
    <2>3. CASE full # None /\ Crowded
      <3> DEFINE calls == <<Flush(NoEvent), Forget, Flush(Call.then)>>
      <3>1. Then(calls)
        BY <2>3 DEF CleanUp, Crowded
      <3>2. Call.then \in Waiting
        BY <1>1, TheCall, CallFields
      <3>3. Flush(NoEvent) \in Calls /\ Forget \in Calls /\ Flush(Call.then) \in Calls
        BY <3>2, CallTypes DEF Waiting
      <3>4. Forget.op = "forget"
        BY DEF Forget
      <3> DEFINE a == Flush(NoEvent)
                 b == Forget
                 c == Flush(Call.then)
      <3>5. /\ todo' = <<a, b, c>> \o Tail(todo)
            /\ a \in Calls /\ b \in Calls /\ c \in Calls /\ b.op = "forget"
        BY <3>1, <3>3, <3>4 DEF Then
      <3>6. Tail(todo) \in Seq(Calls)
        BY <1>1, TheCall
      <3> HIDE DEF a, b, c
      <3>7. todo'[2] = b /\ 2 \in 1 .. Len(todo')
        BY ONLY <3>5, <3>6
      <3> QED
        BY <3>5, <3>7 DEF ForgetDue
    <2> QED
      BY <2>1, <2>2, <2>3
  <1> QED
    BY <1>1, <1>2, <1>3 DEF ApplyInv

\* A captured press joins those before it, so what applied still does; the first one
\* was looked up. A candidate that is spoiled has a key no captured press can be for.
LEMMA CaptureApplies ==
  ASSUME IInv, ApplyInv, Capture
  PROVE  ApplyInv'
  <1> DEFINE e == Call.event
             live == Live(e)
             S == DOMAIN live
             q == Append(pressed, e)
             complete == S # {} /\ Size(Foremost(S)) = Len(pressed')
             settled == S = {} \/ (Cardinality(S) = 1 /\ complete)
             calls == IF settled THEN <<Cleanup(NoEvent)>> ELSE <<>>
  <1>0. /\ todo # <<>> /\ Call.op = "raise" /\ e.down
        /\ candidates # Nobody \/ S # {}
        /\ candidates' = live
        /\ pressed' = (IF Len(pressed) # MaxPerKey THEN Append(pressed, e) ELSE pressed)
        /\ full' = (IF complete THEN Foremost(S) ELSE full)
        /\ Then(calls \o (IF Len(pressed) # MaxPerKey THEN <<>> ELSE <<Pass(e)>>))
        /\ UNCHANGED <<active, lastTapped, passed, layer>>
        /\ scope' = (IF pressed = <<>> THEN {c \in Combo : ActiveOnLayer(c) /\ ~IsQuickTap(c, e.time)}
                     ELSE scope)
        /\ disturbed' = (IF pressed = <<>> THEN FALSE ELSE disturbed)
    BY DEF Capture, Live, input, keymap, history, Calling, Call
  <1>1. /\ e \in Press /\ Len(pressed) \in Nat /\ q \in Seq(Press) /\ Len(q) = Len(pressed) + 1
        /\ pressed \in Seq(Press) /\ q[Len(pressed) + 1] = e
        /\ \A i \in 1 .. Len(pressed) : q[i] = pressed[i]
        /\ \A i \in 1 .. Len(q) : q[i].key \notin Base
    BY <1>0, RaisedPress, TheCall
  <1>2. Len(pressed) # MaxPerKey
    BY <1>0, CaptureFits, <1>1, ComboAssumption
  <1>3. pressed' = q /\ Then(calls) /\ calls \in Seq(Calls)
    <2>1. Cleanup(NoEvent) \in Calls
      BY CallTypes DEF Waiting
    <2> DEFINE c == Cleanup(NoEvent)
    <2>2. c \in Calls /\ calls = IF settled THEN <<c>> ELSE <<>>
      BY <2>1
    <2> HIDE DEF c, settled
    <2>3. calls \in Seq(Calls) /\ calls \o <<>> = calls
      BY <2>2
    <2> QED
      BY <1>0, <1>2, <2>3
  <1>4. (Past' => Past) /\ (ForgetDue => ForgetDue') /\ ~UpSoon' /\ ~Calling("pass")'
    <2>1. CASE settled
      <3> DEFINE c == Cleanup(NoEvent)
      <3>1. c \in Calls /\ c.op = "cleanup" /\ Then(<<c>>)
        BY <1>3, <2>1, CallTypes DEF Waiting, Cleanup
      <3> HIDE DEF c
      <3>2. /\ (Past' => Past) /\ (ForgetDue => ForgetDue') /\ ~UpSoon'
            /\ todo' # <<>> /\ Call' = c
        BY <1>0, <3>1, OneCallThen DEF PastCleanup, Short
      <3> QED
        BY <3>1, <3>2 DEF Calling, Call
    <2>2. CASE ~settled
      <3>1. Then(<<>>)
        BY <1>3, <2>2
      <3> QED
        BY <1>0, <3>1, NoCallThen
    <2> QED
      BY <2>1, <2>2
  <1>5. S \subseteq Combo /\ \A c \in S :
          /\ candidates # Nobody => c \in DOMAIN candidates
          /\ candidates = Nobody => ActiveOnLayer(c) /\ ~IsQuickTap(c, e.time)
    BY <1>0, LiveCandidates
  <1>6. candidates = Nobody => pressed = <<>>
    BY <1>0, LiveCandidates
  <1>7. Crowded' = Crowded
    BY <1>0 DEF Crowded
  <1>8. ASSUME NEW c, Fresh(c) PROVE Fresh(c)'
    <2>1. pressed # <<>> /\ q # <<>> /\ q[1] = pressed[1]
      BY <1>1, <1>8 DEF Fresh
    <2> QED
      BY <1>0, <1>3, <1>8, <2>1 DEF Fresh, ActiveOnLayer, IsQuickTap
  <1>9. ASSUME NEW c, Spoiled(c) PROVE Spoiled(c)' /\ \E k \in Conf[c].keys : k \in passed
    BY <1>0, <1>9 DEF Spoiled, Calling, Call
  <1>10. Stuck => Stuck'
    BY <1>4, <1>7 DEF Stuck
  <1>11. ASSUME NEW c \in S PROVE Fresh(c)' \/ Spoiled(c)' \/ Stuck'
    <2>1. CASE candidates = Nobody
      <3>1. c \in Combo /\ ActiveOnLayer(c) /\ ~IsQuickTap(c, e.time) /\ pressed = <<>>
        BY <1>5, <1>6, <2>1
      <3>2. q # <<>> /\ q[1] = e
        BY <1>1, <3>1
      <3> QED
        BY <1>0, <1>3, <3>1, <3>2 DEF Fresh, ActiveOnLayer, IsQuickTap
    <2>2. CASE candidates # Nobody
      <3>1. c \in DOMAIN candidates
        BY <1>5, <2>2
      <3> QED
        BY <1>8, <1>9, <1>10, <3>1 DEF ApplyInv
    <2> QED
      BY <2>1, <2>2
  <1>12. ASSUME full' # None PROVE Fresh(full)' \/ ForgetDue' \/ Stuck'
    <2>1. CASE complete
      <3>1. PICK c : c = Foremost(S)
        OBVIOUS
      <3>2. c \in S /\ c \in Combo /\ full' = c /\ Size(c) = Len(pressed) + 1
        BY <1>0, <1>1, <1>3, <1>5, <2>1, <3>1, ForemostIn
      <3>3. Complete(c, q)
        BY <1>0, <3>2, CaptureCompletes
      <3>4. ~\E k \in Conf[c].keys : k \in passed
        BY <1>1, <3>3 DEF Complete, Base
      <3>5. Fresh(c)' \/ Stuck'
        <4>1. ~Spoiled(c)'
          BY <1>0, <1>4, <3>4 DEF Spoiled
        <4> QED
          BY <1>11, <3>2, <4>1
      <3> QED
        BY <3>2, <3>5 DEF Fresh, ActiveOnLayer, IsQuickTap
    <2>2. CASE ~complete
      <3>1. PICK c : c = full /\ full' = c /\ c # None
        BY <1>0, <1>12, <2>2
      <3>2. Fresh(c) \/ ForgetDue \/ Stuck
        BY <3>1 DEF ApplyInv
      <3>3. Fresh(c)' \/ ForgetDue' \/ Stuck'
        BY <1>4, <1>8, <1>10, <3>2
      <3> QED
        BY <3>1, <3>3 DEF Fresh, ActiveOnLayer, IsQuickTap
    <2> QED
      BY <2>1, <2>2
  <1>13. \A c \in DOMAIN candidates' : (Fresh(c) \/ Spoiled(c) \/ Stuck)'
    BY <1>0, <1>11
  <1> QED
    BY <1>4, <1>12, <1>13 DEF ApplyInv

\* What is flushed first goes on next, and spoils what it was captured for.
LEMMA FlushApplies ==
  ASSUME IInv, ApplyInv, ReleasePressedKeys
  PROVE  ApplyInv'
  <1> DEFINE up == IF Call.then = NoEvent THEN <<>> ELSE <<KeyUp(Call.then, Len(pressed))>>
             anew == [i \in 1 .. Len(pressed) |-> Anew(i)]
             calls == anew \o up
  <1>0. /\ todo # <<>> /\ Call.op = "flush" /\ Then(calls) /\ pressed' = <<>>
        /\ UNCHANGED <<candidates, full, active, lastTapped, passed, layer>>
    BY DEF ReleasePressedKeys, input, keymap, history, Calling, Call
  <1>1. TypeOK /\ HeadInv /\ CandInv
    BY DEF IInv
  <1>2. pressed \in Seq(Press) /\ Call \in Calls /\ Call.then \in Waiting
    BY <1>0, TheCall, CallFields
  <1>3. PICK L \in Nat : L = Len(pressed)
    BY <1>2
  <1>4. /\ anew \in Seq(Calls) /\ Len(anew) = L
        /\ \A i \in 1 .. L : anew[i] = IF i = 1 THEN Pass(pressed[i]) ELSE Raise(pressed[i])
    <2>1. \A i \in 1 .. L : pressed[i] \in AnyEvent
      BY <1>2, <1>3, ReleaseIsEvent
    <2>2. \A i \in 1 .. L : Anew(i) \in Calls
      BY <2>1, CallTypes DEF Anew
    <2> QED
      BY <1>3, <2>2 DEF Anew
  <1>5. /\ up \in Seq(Calls)
        /\ \A i \in 1 .. Len(up) : up[i].op = "key-up" /\ PastCleanup(Call)
    <2>1. CASE Call.then = NoEvent
      BY <2>1
    <2>2. CASE Call.then # NoEvent
      <3> DEFINE c == KeyUp(Call.then, L)
      <3>1. c \in Calls /\ c.op = "key-up"
        BY <1>2, <2>2, CallTypes DEF Waiting, KeyUp
      <3>2. PastCleanup(Call)
        BY <1>0, <2>2 DEF PastCleanup, Releasing
      <3>3. up = <<c>>
        BY <1>3, <2>2
      <3> HIDE DEF c, up
      <3> QED
        BY <3>1, <3>2, <3>3
    <2> QED
      BY <2>1, <2>2
  <1> HIDE DEF anew, up
  <1>6. /\ calls \in Seq(Calls) /\ Len(calls) = Len(anew) + Len(up)
        /\ \A j \in 1 .. Len(anew) + Len(up) :
             calls[j] = IF j <= Len(anew) THEN anew[j] ELSE up[j - Len(anew)]
    BY <1>4, <1>5, ConcatProperties
  <1>7. ASSUME NEW j \in 1 .. Len(calls), PastCleanup(calls[j]) PROVE PastCleanup(Call)
    <2>1. CASE j <= L
      <3>1. calls[j] = anew[j] /\ j \in 1 .. L
        BY <1>3, <1>4, <1>6, <2>1
      <3>2. calls[j].op \in {"pass", "raise"}
        BY <1>4, <3>1 DEF Pass, Raise
      <3> QED
        BY <1>7, <3>2 DEF PastCleanup
    <2>2. CASE ~(j <= L)
      <3>1. Len(up) \in Nat
        BY <1>5
      <3>2. j - L \in 1 .. Len(up)
        BY <1>3, <1>4, <1>6, <2>2, <3>1
      <3> QED
        BY <1>5, <3>2
    <2> QED
      BY <2>1, <2>2
  <1>8. L >= 1 => calls # <<>> /\ calls[1] = Pass(pressed[1])
    <2> SUFFICES ASSUME L >= 1 PROVE calls # <<>> /\ calls[1] = Pass(pressed[1])
      OBVIOUS
    <2>1. Len(up) \in Nat
      BY <1>5
    <2>2. 1 \in 1 .. Len(anew) + Len(up) /\ 1 <= Len(anew) /\ Len(calls) >= 1
      BY <1>4, <1>6, <2>1
    <2> QED
      BY <1>4, <1>6, <2>2
  <1> HIDE DEF calls
  <1>9. /\ Past' => Past
        /\ ForgetDue => ForgetDue'
        /\ L >= 1 => todo' # <<>> /\ Call' = Pass(pressed[1])
    <2>1. PastCleanup(Call) => Past
      <3>1. 1 \in 1 .. Len(todo) /\ Call = todo[1]
        BY <1>0, TheCall
      <3> QED
        BY <3>1 DEF Past
    <2> QED
      BY <1>0, <1>6, <1>7, <1>8, <2>1, CallsThen
  <1>10. candidates = Nobody \/ Crowded
    BY <1>0, <1>1 DEF HeadInv, Calling, Call
  <1>11. Crowded' = Crowded
    BY <1>0 DEF Crowded
  <1>12. ASSUME NEW c \in DOMAIN candidates PROVE Spoiled(c)' \/ Stuck'
    <2>1. Crowded
      BY <1>10 DEF Nobody
    <2>2. CASE Stuck
      BY <1>9, <1>11, <2>2 DEF Stuck
    <2>3. CASE Fresh(c)
      <3>1. pressed # <<>>
        BY <2>3 DEF Fresh
      <3>2. L >= 1 /\ pressed[1] \in Press
        BY <1>2, <1>3, <3>1
      <3>3. pressed[1].key \in Conf[c].keys
        BY <1>1, <1>3, <3>2 DEF CandInv
      <3>4. Calling("pass")' /\ Call'.event.down /\ Call'.event.key = pressed[1].key
        BY <1>9, <3>2, PressFields DEF Calling, Call, Pass
      <3> QED
        BY <3>3, <3>4 DEF Spoiled
    <2>4. CASE Spoiled(c)
      BY <1>0, <2>4 DEF Spoiled, Calling, Call
    <2> QED
      BY <2>2, <2>3, <2>4 DEF ApplyInv
  <1>13. full' # None => ForgetDue'
    BY <1>0, <1>1, <1>9 DEF HeadInv, Calling, Call
  <1>14. \A c \in DOMAIN candidates' : (Fresh(c) \/ Spoiled(c) \/ Stuck)'
    BY <1>0, <1>12
  <1> QED
    BY <1>0, <1>10, <1>11, <1>13, <1>14 DEF ApplyInv

\* The release runs: if a combo takes it, more may be active, but what no longer
\* applies is spoiled; if it goes on at once, no more may be.
LEMMA ReleaseApplies ==
  ASSUME IInv, ApplyInv, ReleaseKey
  PROVE  ApplyInv'
  <1> DEFINE e == Call.event
  <1>0. /\ todo # <<>> /\ Call.op = "key-up"
        /\ UNCHANGED <<pressed, candidates, full, lastTapped, passed, layer, scope, disturbed>>
    BY DEF ReleaseKey, input, keymap, history, Calling, Call
  <1>1. /\ e \in Release /\ Call.released \in Nat /\ Tail(todo) = <<>> /\ ~ForgetDue /\ Releasing(Call)
        /\ Call = todo[1] /\ 1 \in 1 .. Len(todo)
    BY <1>0, KeyUpCall, TheCall
  <1>2. Past /\ (Call.released <= 1 => UpSoon)
    BY <1>0, <1>1 DEF Past, PastCleanup, UpSoon, Short
  <1>3. ASSUME NEW c, Fresh(c) PROVE Fresh(c)'
    BY <1>0, <1>3 DEF Fresh, ActiveOnLayer, IsQuickTap
  <1>4. ASSUME NEW c, Spoiled(c) PROVE Spoiled(c)'
    BY <1>0, <1>4 DEF Spoiled, Calling, Call
  <1>5. \A c \in DOMAIN candidates' : (Fresh(c) \/ Spoiled(c) \/ Stuck)'
    BY <1>0, <1>2, <1>3, <1>4 DEF ApplyInv, Stuck
  <1>6. full' # None => Fresh(full)'
    <2> SUFFICES ASSUME full' # None PROVE Fresh(full)'
      OBVIOUS
    <2>1. PICK c : c = full /\ full' = c /\ c # None
      BY <1>0
    <2>2. Fresh(c)
      BY <1>1, <1>2, <2>1 DEF ApplyInv, Stuck
    <2>3. Fresh(c)'
      BY <1>3, <2>2
    <2> QED
      BY <2>1, <2>3 DEF Fresh, ActiveOnLayer, IsQuickTap
  <1>7. CASE Taker(e.key) # 0
    <2>1. Then(<<>>)
      BY <1>7 DEF ReleaseKey
    <2>2. ~Calling("pass")' /\ ~UpSoon'
      BY <1>0, <2>1, NoCallThen
    <2> QED
      BY <1>5, <1>6, <2>2 DEF ApplyInv
  <1>8. CASE Taker(e.key) = 0
    <2> DEFINE c == UpBehind(e, Call.released)
    <2>1. Then(<<c>>) /\ UNCHANGED active
      BY <1>8 DEF ReleaseKey
    <2>2. c \in Calls /\ c.op \in {"raise", "pass"} /\ (c.op = "pass" => Call.released <= 1)
      <3>1. e \in AnyEvent
        BY <1>1, ReleaseIsEvent
      <3> QED
        BY <1>1, <3>1, CallTypes DEF UpBehind, Raise, Pass
    <2> HIDE DEF c
    <2>3. ~UpSoon' /\ todo' # <<>> /\ Call' = c
      BY <1>0, <2>1, <2>2, OneCallThen DEF Short
    <2>4. Calling("pass")' => candidates = Nobody \/ Crowded
      BY <1>2, <2>2, <2>3 DEF Calling, Call, ApplyInv
    <2>5. candidates' = candidates /\ Crowded' = Crowded
      BY <1>0, <2>1 DEF Crowded
    <2> QED
      BY <1>5, <1>6, <2>3, <2>4, <2>5 DEF ApplyInv
  <1> QED
    BY <1>7, <1>8

\* An event goes on with nothing captured: a press spoils, a release leaves no more
\* combos to be active until another one cleans up.
LEMMA DeliverApplies ==
  ASSUME IInv, ApplyInv, Deliver
  PROVE  ApplyInv'
  <1> DEFINE e == Call.event
  <1>0. /\ todo # <<>> /\ Call.op = "pass" /\ Then(<<>>)
        /\ passed' = (IF e.down THEN passed \cup {e.key} ELSE passed \ {e.key})
        /\ UNCHANGED <<pressed, candidates, full, active>>
    BY DEF Deliver, input, history, Calling, Call
  <1>1. /\ HeadInv /\ FullInv /\ TypeOK /\ Calling("pass")
    BY <1>0 DEF IInv, Calling, Call
  <1>2. pressed = <<>>
    BY <1>1 DEF HeadInv
  <1>3. /\ Past' => Past
        /\ UpSoon' => UpSoon
        /\ ForgetDue => ForgetDue'
        /\ ~Calling("pass")'
    BY <1>0, NoCallThen
  <1>4. candidates = Nobody \/ Crowded
    BY <1>1 DEF ApplyInv
  <1>5. Crowded' = Crowded
    BY <1>0 DEF Crowded
  <1>6. ASSUME NEW c \in DOMAIN candidates PROVE Spoiled(c)' \/ Stuck'
    <2>1. Crowded
      BY <1>4 DEF Nobody
    <2>2. CASE e.down
      <3>1. Spoiled(c) \/ Stuck
        BY <1>2 DEF ApplyInv, Fresh
      <3>2. Spoiled(c) => Spoiled(c)'
        BY <1>0, <2>2 DEF Spoiled
      <3> QED
        BY <1>3, <1>5, <3>1, <3>2 DEF Stuck
    <2>3. CASE ~e.down
      <3>1. Releasing(Call)
        BY <1>0, <2>3 DEF Releasing
      <3>2. Tail(todo) = <<>>
        BY <1>0, <3>1, TheCall
      <3>3. todo' = <<>>
        BY <1>0, <3>2 DEF Then
      <3>4. ~Past'
        BY <3>3 DEF Past
      <3> QED
        BY <1>5, <2>1, <3>4 DEF Stuck
    <2> QED
      BY <2>2, <2>3
  <1>7. full' # None => ForgetDue'
    <2>1. ~Complete(full, pressed)
      BY <1>2 DEF Complete
    <2> QED
      BY <1>0, <1>1, <1>3, <2>1 DEF FullInv
  <1>8. \A c \in DOMAIN candidates' : (Fresh(c) \/ Spoiled(c) \/ Stuck)'
    BY <1>0, <1>6
  <1> QED
    BY <1>0, <1>3, <1>4, <1>5, <1>7, <1>8 DEF ApplyInv

\* Whatever others do to the layer and to the last letter is a disturbance.
LEMMA ElsewhereApplies ==
  ASSUME IInv, ApplyInv, Elsewhere
  PROVE  ApplyInv'
  <1>0. /\ UNCHANGED <<pressed, candidates, full, active, passed, todo, scope>>
        /\ disturbed' = TRUE
    BY DEF Elsewhere
  <1>1. ASSUME NEW c, Fresh(c) PROVE Fresh(c)'
    BY <1>0, <1>1 DEF Fresh
  <1>2. ASSUME NEW c, Spoiled(c) PROVE Spoiled(c)'
    BY <1>0, <1>2 DEF Spoiled, Calling, Call
  <1>3. /\ Stuck' = Stuck /\ UpSoon' = UpSoon /\ ForgetDue' = ForgetDue /\ Crowded' = Crowded
        /\ Calling("pass")' = Calling("pass")
    BY <1>0 DEF Stuck, Past, UpSoon, Crowded, ForgetDue, Calling, PastCleanup, Releasing, Short
  <1>4. full' # None => Fresh(full)' \/ ForgetDue' \/ Stuck'
    <2> SUFFICES ASSUME full' # None PROVE Fresh(full)' \/ ForgetDue' \/ Stuck'
      OBVIOUS
    <2>1. PICK c : c = full /\ full' = c /\ c # None
      BY <1>0
    <2>2. Fresh(c)' \/ ForgetDue' \/ Stuck'
      BY <1>1, <1>3, <2>1 DEF ApplyInv
    <2> QED
      BY <2>1, <2>2 DEF Fresh, ActiveOnLayer, IsQuickTap
  <1>5. \A c \in DOMAIN candidates' : (Fresh(c) \/ Spoiled(c) \/ Stuck)'
    BY <1>0, <1>1, <1>2, <1>3 DEF ApplyInv
  <1> QED
    BY <1>0, <1>3, <1>4, <1>5 DEF ApplyInv

LEMMA ApplyStep ==
  ASSUME IInv, ApplyInv, [Next]_vars
  PROVE  ApplyInv'
  <1>1. CASE UNCHANGED vars
    <2>1. /\ UNCHANGED <<pressed, candidates, full, active, passed, layer, lastTapped, todo, scope, disturbed>>
      BY <1>1 DEF vars
    <2> QED
      BY <2>1 DEF ApplyInv, Fresh, Spoiled, Stuck, Past, UpSoon, Crowded, ForgetDue, Calling,
        Call, ActiveOnLayer, IsQuickTap, PastCleanup, Releasing, Short
  <1> QED
    BY <1>1, InputApplies, CallApplies, CleanUpApplies, CaptureApplies, FlushApplies,
      ReleaseApplies, DeliverApplies, ElsewhereApplies DEF Next, Run

\* A combo that begins is the one that was complete, and it was not given up.
LEMMA RunsIfApplies ==
  ASSUME IInv, ApplyInv, Next, NEW c \in on' \ on
  PROVE  /\ c \in scope
         /\ ~disturbed => ActiveOnLayer(c) /\ lastTapped + Conf[c].idle <= pressed[1].time
  <1>1. CleanUp
    <2>1. ASSUME ~CleanUp PROVE on' \subseteq on
      BY <2>1 DEF Next, Run, Bubble, Capture, LetGo, ForgetFull, ReleasePressedKeys,
        ReleaseKey, Deliver, UpdateTask, Timeout, KeyEvent, Tick, Elsewhere, keymap
    <2> QED
      BY <2>1
  <1>2. full # None /\ ~Crowded /\ c = full
    BY <1>1 DEF CleanUp, Crowded
  <1>3. TypeOK /\ TodoInv /\ FullInv
    BY DEF IInv
  <1>4. ~ForgetDue
    BY <1>2, <1>3 DEF ForgetDue, TodoInv, AllInPlace, InPlace
  <1>5. Fresh(c)
    BY <1>2, <1>4 DEF ApplyInv, Stuck
  <1>6. c \in Combo /\ pressed \in Seq(Press) /\ pressed # <<>> /\ lastTapped \in Int
    BY <1>2, <1>3, <1>5 DEF TypeOK, Fresh
  <1>7. pressed[1].time \in Int /\ Conf[c].idle \in Int
    <2>1. pressed[1] \in Press
      BY <1>6
    <2> QED
      BY <1>6, <2>1, PressFields, ConfType
  <1> QED
    BY <1>5, <1>6, <1>7 DEF Fresh, IsQuickTap

\* A combo is checked against the layer and the last letter when its first key is pressed,
\* and never again. It runs only if it applied then: a candidate that outlives its presses
\* is never complete while a combo can begin. Nor do the calls for the keys themselves
\* change the layer or let a letter go on until it runs or is given up; others may.
THEOREM CombosStillApply == Spec => StillApplies
  <1>1. Init => ApplyInv
    BY DEF Init, ApplyInv, Calling, UpSoon, Nobody
  <1>2. IInv /\ IInv' /\ ApplyInv /\ [Next]_vars => ApplyInv'
    BY ApplyStep
  <1>3. IInv /\ ApplyInv /\ [Next]_vars =>
          [\A c \in on' \ on :
             /\ c \in scope
             /\ ~disturbed => ActiveOnLayer(c) /\ lastTapped + Conf[c].idle <= pressed[1].time]_vars
    <2>1. CASE UNCHANGED vars
      BY <2>1
    <2>2. ASSUME IInv, ApplyInv, Next
          PROVE  \A c \in on' \ on :
                   /\ c \in scope
                   /\ ~disturbed => ActiveOnLayer(c) /\ lastTapped + Conf[c].idle <= pressed[1].time
      BY <2>2, RunsIfApplies
    <2> QED
      BY <2>1, <2>2
  <1> QED
    BY <1>1, <1>2, <1>3, Bookkeeping, PTL DEF Spec, StillApplies
====
