-------------------------- MODULE StickyKey_proofs --------------------------
(***************************************************************************)
(* Sticky keys for any number of slots, keys and settings, as deep as      *)
(* their handlers nest: nothing is pressed twice, released twice or left   *)
(* behind, the next key is modified and, with quick release, only it.      *)
(*                                                                         *)
(* Pressing a sticky binding raises a keycode event that may put another   *)
(* sticky key to use. This must not go round in a circle (Grounded).       *)
(*                                                                         *)
(* First sequences of calls, then the invariant, then what each handler    *)
(* does to its parts.                                                      *)
(***************************************************************************)
EXTENDS StickyKey, FiniteSetTheorems, SequenceTheorems, WellFoundedInduction, TLAPS

-----------------------------------------------------------------------------
(* The calls for a set of slots *)

Below(S, s) == {t \in S : t < s}

LEMMA BelowCounts ==
  ASSUME NEW S \in SUBSET Nat, IsFiniteSet(S), NEW s \in S
  PROVE  /\ IsFiniteSet(Below(S, s)) /\ Cardinality(Below(S, s)) \in Nat
         /\ Cardinality(S) \in Nat /\ Cardinality(Below(S, s)) < Cardinality(S)
         /\ \A t \in S : s < t => Cardinality(Below(S, s)) < Cardinality(Below(S, t))
  <1>1. ASSUME NEW T, IsFiniteSet(T), s \in T, Below(S, s) \subseteq T
        PROVE  Cardinality(Below(S, s)) < Cardinality(T)
    <2>1. Below(S, s) \subseteq T \ {s}
      BY <1>1 DEF Below
    <2>2. IsFiniteSet(T \ {s}) /\ Cardinality(T \ {s}) = Cardinality(T) - 1
      BY <1>1, FS_RemoveElement
    <2>3. Cardinality(Below(S, s)) <= Cardinality(T \ {s}) /\ IsFiniteSet(Below(S, s))
      BY <2>1, <2>2, FS_Subset
    <2>4. Cardinality(Below(S, s)) \in Nat /\ Cardinality(T) \in Nat
      BY <1>1, <2>3, FS_CardinalityType
    <2> QED
      BY <2>2, <2>3, <2>4
  <1>2. ASSUME NEW t \in S PROVE IsFiniteSet(Below(S, t)) /\ Cardinality(Below(S, t)) \in Nat
    <2>1. Below(S, t) \subseteq S
      BY DEF Below
    <2>2. IsFiniteSet(Below(S, t))
      BY <2>1, FS_Subset
    <2> QED
      BY <2>2, FS_CardinalityType
  <1>3. Cardinality(S) \in Nat
    BY FS_CardinalityType
  <1>4. Cardinality(Below(S, s)) < Cardinality(S)
    <2>1. Below(S, s) \subseteq S
      BY DEF Below
    <2> QED
      BY <1>1, <2>1
  <1>5. ASSUME NEW t \in S, s < t
        PROVE  Cardinality(Below(S, s)) < Cardinality(Below(S, t))
    <2>0. ASSUME NEW u \in Below(S, s) PROVE u \in Below(S, t)
      <3>1. u \in S /\ u < s /\ u \in Nat /\ s \in Nat /\ t \in Nat
        BY <2>0 DEF Below
      <3>2. u < t
        BY <1>5, <3>1
      <3> QED
        BY <3>1, <3>2 DEF Below
    <2>1. s \in Below(S, t) /\ Below(S, s) \subseteq Below(S, t)
      BY <1>5, <2>0 DEF Below
    <2> QED
      BY <1>1, <1>2, <2>1
  <1> QED
    BY <1>2, <1>3, <1>4, <1>5

\* A set of numbers is gone through from its first to its last, each one once.
LEMMA NthOnce ==
  ASSUME NEW S \in SUBSET Nat, IsFiniteSet(S)
  PROVE  /\ Cardinality(S) \in Nat
         /\ \A n \in 1 .. Cardinality(S) : Nth(S, n) \in S
         /\ \A m, n \in 1 .. Cardinality(S) : Nth(S, m) = Nth(S, n) => m = n
         /\ \A s \in S : \E n \in 1 .. Cardinality(S) : Nth(S, n) = s
  <1>0. Cardinality(S) \in Nat
    BY FS_CardinalityType
  <1> DEFINE C == Cardinality(S)
             f == [s \in S |-> Cardinality(Below(S, s)) + 1]
  <1>1. ASSUME NEW s \in S, NEW t \in S, Cardinality(Below(S, s)) = Cardinality(Below(S, t))
        PROVE  s = t
    <2>1. /\ Cardinality(Below(S, s)) \in Nat /\ Cardinality(Below(S, t)) \in Nat
          /\ s < t => Cardinality(Below(S, s)) < Cardinality(Below(S, t))
          /\ t < s => Cardinality(Below(S, t)) < Cardinality(Below(S, s))
      BY BelowCounts
    <2> QED
      BY <1>1, <2>1
  <1>2. ASSUME NEW s \in S PROVE f[s] \in 1 .. C
    BY <1>0, BelowCounts
  <1>3. f \in Injection(S, 1 .. C)
    <2>1. f \in [S -> 1 .. C]
      BY <1>2
    <2>2. ASSUME NEW s \in S, NEW t \in S, f[s] = f[t] PROVE s = t
      <3>1. Cardinality(Below(S, s)) \in Nat /\ Cardinality(Below(S, t)) \in Nat
        BY BelowCounts
      <3>2. Cardinality(Below(S, s)) = Cardinality(Below(S, t))
        BY <2>2, <3>1
      <3> QED
        BY <1>1, <3>2
    <2> HIDE DEF f
    <2> QED
      BY <2>1, <2>2 DEF Injection, IsInjective
  <1>4. IsFiniteSet(1 .. C) /\ Cardinality(1 .. C) = C
    BY <1>0, FS_Interval
  <1>5. f \in Surjection(S, 1 .. C)
    <2> HIDE DEF f
    <2> QED
      BY <1>3, <1>4, FS_Injection
  <1>6. ASSUME NEW n \in 1 .. C
        PROVE  Nth(S, n) \in S /\ Cardinality(Below(S, Nth(S, n))) = n - 1
    <2>1. PICK s \in S : f[s] = n
      BY <1>5 DEF Surjection
    <2>2. Cardinality(Below(S, s)) = n - 1
      BY <1>0, <2>1, BelowCounts
    <2> QED
      BY <2>2 DEF Nth, Below
  <1>7. ASSUME NEW m \in 1 .. C, NEW n \in 1 .. C, Nth(S, m) = Nth(S, n) PROVE m = n
    BY <1>0, <1>6, <1>7
  <1>8. ASSUME NEW s \in S PROVE \E n \in 1 .. C : Nth(S, n) = s
    <2>1. f[s] \in 1 .. C /\ f[s] - 1 = Cardinality(Below(S, s))
      BY <1>0, <1>2, BelowCounts
    <2> QED
      BY <1>1, <1>6, <2>1
  <1> QED
    BY <1>0, <1>6, <1>7, <1>8

Members(s) == {s[n] : n \in 1 .. Len(s)}

\* Every two calls of a sequence, in its order, are a pair of Q.
Pairs(s, Q) == \A m, n \in 1 .. Len(s) : m < n => <<s[m], s[n]>> \in Q

\* So are every call of one set and every call of another.
Across(X, Y, Q) == \A x \in X, y \in Y : <<x, y>> \in Q

LEMMA AcrossBoth ==
  ASSUME NEW W, NEW X, NEW Y, NEW Q, Across(W, Y, Q), Across(X, Y, Q)
  PROVE  Across(W \cup X, Y, Q)
  BY DEF Across

LEMMA OneCall ==
  ASSUME NEW C, NEW x \in C
  PROVE  <<x>> \in Seq(C) /\ Members(<<x>>) = {x} /\ \A Q : Pairs(<<x>>, Q)
  <1>1. <<x>> \in Seq(C) /\ Len(<<x>>) = 1 /\ <<x>>[1] = x
    OBVIOUS
  <1>2. 1 .. Len(<<x>>) = {1}
    BY <1>1
  <1>3. Members(<<x>>) = {x}
    BY <1>1, <1>2 DEF Members
  <1>4. \A Q : Pairs(<<x>>, Q)
    BY <1>1 DEF Pairs
  <1> QED
    BY <1>1, <1>3, <1>4

LEMMA NoCall ==
  ASSUME NEW C
  PROVE  <<>> \in Seq(C) /\ Members(<<>>) = {} /\ \A Q : Pairs(<<>>, Q)
  <1>1. <<>> \in Seq(C) /\ Len(<<>>) = 0 /\ 1 .. 0 = {}
    OBVIOUS
  <1> QED
    BY <1>1 DEF Members, Pairs

LEMMA JoinedCalls ==
  ASSUME NEW C, NEW a \in Seq(C), NEW b \in Seq(C)
  PROVE  /\ a \o b \in Seq(C) /\ Members(a \o b) = Members(a) \cup Members(b)
         /\ \A Q : Pairs(a, Q) /\ Pairs(b, Q)
                     /\ (\A x \in Members(a), y \in Members(b) : <<x, y>> \in Q)
                   => Pairs(a \o b, Q)
  <1> DEFINE w == a \o b
             m == Len(a)
             n == Len(b)
  <1>1. m \in Nat /\ n \in Nat
    OBVIOUS
  <1>2. /\ w \in Seq(C) /\ Len(w) = m + n
        /\ \A k \in 1 .. m + n : w[k] = IF k <= m THEN a[k] ELSE b[k - m]
    BY ConcatProperties
  <1> HIDE DEF w, m, n
  <1>3. ASSUME NEW k \in 1 .. m PROVE k \in 1 .. Len(w) /\ w[k] = a[k]
    <2>1. k \in 1 .. m + n /\ k <= m
      BY <1>1
    <2> QED
      BY <1>2, <2>1
  <1>4. ASSUME NEW k \in 1 .. n PROVE m + k \in 1 .. Len(w) /\ w[m + k] = b[k]
    <2>1. m + k \in 1 .. m + n /\ ~(m + k <= m) /\ (m + k) - m = k
      BY <1>1
    <2> QED
      BY <1>2, <2>1
  <1>5. ASSUME NEW k \in 1 .. Len(w)
        PROVE  \/ k \in 1 .. m /\ w[k] = a[k]
               \/ k > m /\ k - m \in 1 .. n /\ w[k] = b[k - m]
    <2>1. k \in 1 .. m + n
      BY <1>2
    <2>2. CASE k <= m
      <3>1. k \in 1 .. m
        BY <1>1, <2>1, <2>2
      <3> QED
        BY <1>3, <3>1
    <2>3. CASE ~(k <= m)
      <3>1. k > m /\ k - m \in 1 .. n
        BY <1>1, <2>1, <2>3
      <3> QED
        BY <1>2, <2>1, <2>3, <3>1
    <2> QED
      BY <2>2, <2>3
  <1>6. Members(w) = Members(a) \cup Members(b)
    <2>1. Members(w) \subseteq Members(a) \cup Members(b)
      BY <1>5 DEF Members, m, n
    <2>2. Members(a) \subseteq Members(w)
      BY <1>3 DEF Members, m
    <2>3. Members(b) \subseteq Members(w)
      BY <1>4 DEF Members, n
    <2> QED
      BY <2>1, <2>2, <2>3
  <1>7. ASSUME NEW Q, Pairs(a, Q), Pairs(b, Q),
               \A x \in Members(a), y \in Members(b) : <<x, y>> \in Q
        PROVE  Pairs(w, Q)
    <2> SUFFICES ASSUME NEW k \in 1 .. Len(w), NEW l \in 1 .. Len(w), k < l
                 PROVE  <<w[k], w[l]>> \in Q
      BY DEF Pairs
    <2>1. CASE l \in 1 .. m /\ w[l] = a[l]
      <3>1. ~(k > m)
        BY <1>1, <1>2, <2>1
      <3>2. k \in 1 .. m /\ w[k] = a[k]
        BY <1>5, <3>1
      <3> QED
        BY <1>7, <2>1, <3>2 DEF Pairs, m
    <2>2. CASE l > m /\ l - m \in 1 .. n /\ w[l] = b[l - m]
      <3>1. CASE k \in 1 .. m /\ w[k] = a[k]
        <4>1. w[k] \in Members(a) /\ w[l] \in Members(b)
          BY <2>2, <3>1 DEF Members, m, n
        <4> QED
          BY <1>7, <4>1
      <3>2. CASE k > m /\ k - m \in 1 .. n /\ w[k] = b[k - m]
        <4>1. k - m < l - m
          BY <1>1, <1>2
        <4> QED
          BY <1>7, <2>2, <3>2, <4>1 DEF Pairs, n
      <3> QED
        BY <1>5, <3>1, <3>2
    <2> QED
      BY <1>5, <2>1, <2>2
  <1> QED
    BY <1>2, <1>6, <1>7 DEF w

\* The first call and the rest.
LEMMA FirstAndRest ==
  ASSUME NEW C, NEW s \in Seq(C), s # <<>>
  PROVE  /\ Head(s) \in C /\ Tail(s) \in Seq(C)
         /\ Members(s) = {Head(s)} \cup Members(Tail(s))
         /\ \A Q : Pairs(s, Q) => /\ Pairs(Tail(s), Q)
                                  /\ \A y \in Members(Tail(s)) : <<Head(s), y>> \in Q
  <1> DEFINE h == Head(s)
             t == Tail(s)
             n == Len(s)
  <1>1. /\ n \in Nat /\ n >= 1 /\ h = s[1] /\ h \in C /\ t \in Seq(C) /\ Len(t) = n - 1
        /\ \A k \in 1 .. Len(t) : t[k] = s[k + 1]
    BY HeadTailProperties
  <1> HIDE DEF h, t, n
  <1>2. ASSUME NEW k \in 1 .. Len(t)
        PROVE  k + 1 \in 1 .. n /\ 1 < k + 1 /\ 1 \in 1 .. n /\ t[k] = s[k + 1]
    BY <1>1
  <1>3. ASSUME NEW k \in 1 .. n, k # 1 PROVE k - 1 \in 1 .. Len(t) /\ t[k - 1] = s[k]
    <2>1. k - 1 \in 1 .. Len(t) /\ (k - 1) + 1 = k
      BY <1>1, <1>3
    <2> QED
      BY <1>1, <2>1
  <1>4. Members(s) = {h} \cup Members(t)
    <2>1. Members(s) \subseteq {h} \cup Members(t)
      BY <1>1, <1>3 DEF Members, n
    <2>2. h \in Members(s)
      BY <1>1 DEF Members, n
    <2>3. Members(t) \subseteq Members(s)
      BY <1>2 DEF Members, n
    <2> QED
      BY <2>1, <2>2, <2>3
  <1>5. ASSUME NEW Q, Pairs(s, Q)
        PROVE  Pairs(t, Q) /\ \A y \in Members(t) : <<h, y>> \in Q
    <2>1. ASSUME NEW k \in 1 .. Len(t), NEW l \in 1 .. Len(t), k < l
          PROVE  <<t[k], t[l]>> \in Q
      <3>1. k + 1 < l + 1
        BY <1>1, <2>1
      <3> QED
        BY <1>2, <1>5, <3>1 DEF Pairs, n
    <2>2. ASSUME NEW k \in 1 .. Len(t) PROVE <<h, t[k]>> \in Q
      <3>1. <<s[1], s[k + 1]>> \in Q
        BY <1>2, <1>5 DEF Pairs, n
      <3> QED
        BY <1>1, <1>2, <3>1
    <2> QED
      BY <2>1, <2>2 DEF Pairs, Members
  <1> QED
    BY <1>1, <1>4, <1>5 DEF h, t

-----------------------------------------------------------------------------
(* Which key may put which sticky key to use *)

SCode == {Setup[p].code : p \in Sticky}

MayCatch(p, c) == Setup[p].code # c /\ ~(Setup[p].ignoreMods /\ c \in Modifier)

IsRank(r) ==
  \A p \in Sticky, c \in SCode : MayCatch(p, c) => r[c] < r[Setup[p].code]

\* No sticky key is put to use, over others, by its own press or release.
Grounded == \E r \in [SCode -> Nat] : IsRank(r)

Height == CHOOSE r \in [SCode -> Nat] : IsRank(r)

Level(c) == IF c \in SCode THEN Height[c] + 1 ELSE 0

\* A sticky key is above the key that puts it to use.
LEMMA LevelUp ==
  ASSUME Grounded
  PROVE  /\ \A c : Level(c) \in Nat
         /\ \A p \in Sticky : Level(Setup[p].code) > 0
         /\ \A p \in Sticky : \A c : MayCatch(p, c) => Level(c) < Level(Setup[p].code)
         /\ Level(None) = 0
  <1>1. Height \in [SCode -> Nat] /\ IsRank(Height)
    BY DEF Grounded, Height
  <1>2. \A c : Level(c) \in Nat
    BY <1>1 DEF Level
  <1>3. ASSUME NEW p \in Sticky
        PROVE  Setup[p].code \in SCode /\ Level(Setup[p].code) = Height[Setup[p].code] + 1
                 /\ Height[Setup[p].code] \in Nat
    BY <1>1 DEF Level, SCode
  <1>4. ASSUME NEW p \in Sticky PROVE Level(Setup[p].code) > 0
    BY <1>3
  <1>5. ASSUME NEW p \in Sticky, NEW c, MayCatch(p, c)
        PROVE  Level(c) < Level(Setup[p].code)
    <2>1. CASE c \in SCode
      <3>1. Height[c] < Height[Setup[p].code] /\ Height[c] \in Nat
        BY <1>1, <1>5, <2>1 DEF IsRank
      <3> QED
        BY <1>3, <2>1, <3>1 DEF Level
    <2>2. CASE c \notin SCode
      BY <1>4, <2>2 DEF Level
    <2> QED
      BY <2>1, <2>2
  <1>6. Level(None) = 0
    BY StickyAssumption DEF Level, SCode
  <1> QED
    BY <1>2, <1>4, <1>5, <1>6

-----------------------------------------------------------------------------
(* The invariant *)

CodeCall == [op : {"event", "listen"}, code : Code, down : BOOLEAN]
PassCall == [op : {"pass"}, code : Code, down : BOOLEAN, want : SUBSET Sticky]
UseCall == [op : {"press", "release"}, slot : Slot]
StoreCall == [op : {"store"}, pos : Sticky]
Call == CodeCall \cup PassCall \cup UseCall \cup StoreCall

IsEvent(x) == x.op \in {"event", "listen"}
IsCode(x) == x.op \in {"event", "listen", "pass"}
IsUse(x) == x.op \in {"press", "release"}
IsDown(x) == x.op = "press" \/ (IsEvent(x) /\ x.down)

Pending == Members(todo)
Now == Head(todo)
Rest == Members(Tail(todo))

\* A call presses or releases a slot at most at this level.
Floor(x) ==
  IF IsCode(x) THEN Level(x.code)
  ELSE IF IsUse(x) THEN Level(slots[x.slot].modified) ELSE 0

\* What a call raises is above all that is still to be made after it; so no
\* handler comes upon a slot that an outer one has yet to press or release.
Rel(x, y) ==
  /\ x.op # "store"
  /\ IsEvent(x) => Level(x.code) > Floor(y)
  /\ IsUse(x) => Level(Conf(x.slot).code) > Floor(y)
  /\ IsUse(y) /\ IsDown(x) => slots[y.slot].modified # None
  /\ IsUse(x) /\ IsUse(y) /\ x.slot = y.slot => x.op = "press" /\ y.op = "release"
  /\ x.op = "release" /\ y.op = "pass" => slots[x.slot].pos \notin y.want
  /\ x.op = "pass" /\ y.op = "press" => slots[y.slot].pos \notin x.want
  /\ IsCode(x) /\ IsCode(y) => x.code \in SCode

Agree == {q \in Call \X Call : Rel(q[1], q[2])}

LineInv == todo \in Seq(Call) /\ Pairs(todo, Agree)

\* Something is holding the keycode.
Held(c) ==
  \/ \E k \in Key \cap down : CodeOf[k] = c
  \/ \E q \in Sticky : out[q] > 0 /\ Setup[q].code = c

Good(x) ==
  /\ IsUse(x) => x.slot \in InUse
  /\ x.op = "press" /\ Conf(x.slot).lazy => slots[x.slot].modified # None
  /\ x.op = "pass" => \A p \in x.want : \E i \in Found(p) : slots[i].modified = x.code
  /\ x.op = "store" => x.pos \in down /\ \A i \in Found(x.pos) : ReleaseSlot(i) \in Pending
  /\ IsEvent(x) /\ x.down => Held(x.code)

GoodInv == \A x \in Pending : Good(x)

\* A position has one slot; a slot is used for a key that it may be used for.
SlotInv ==
  /\ \A i \in InUse : slots[i].pos \in Sticky
  /\ \A i \in InUse : slots[i].modified # None => MayCatch(slots[i].pos, slots[i].modified)
  /\ \A i, j \in InUse : slots[i].pos = slots[j].pos => i = j

\* A binding is pressed if it has a slot, unless the press is still to come.
Pressed(i) ==
  /\ Conf(i).lazy => slots[i].modified # None
  /\ PressSlot(i) \notin Pending

OutInv ==
  /\ \A p \in Sticky : out[p] = IF \E i \in Found(p) : Pressed(i) THEN 1 ELSE 0
  /\ \A p \in orphan : Setup[p].lazy

TimerInv ==
  \A i \in timers :
    /\ i \in InUse /\ slots[i].started /\ slots[i].modified = None
    /\ PressSlot(i) \notin Pending /\ ReleaseSlot(i) \notin Pending

\* A slot that has begun to end has something that will end it.
Leaves(i) == ReleaseSlot(i) \in Pending
EndsSoon(c) == \E x \in Pending : IsEvent(x) /\ ~x.down /\ x.code = c

StartOf(i) ==
  /\ slots[i].pos \in down \/ slots[i].started \/ Leaves(i)
  /\ slots[i].started /\ slots[i].modified = None => i \in timers \/ slots[i].late \/ Leaves(i)
  /\ slots[i].started /\ slots[i].modified # None =>
       Leaves(i) \/ Held(slots[i].modified) \/ EndsSoon(slots[i].modified)

StartInv == \A i \in InUse : StartOf(i)

IInv == TypeOK /\ LineInv /\ GoodInv /\ SlotInv /\ OutInv /\ TimerInv /\ StartInv

-----------------------------------------------------------------------------
(* Calls and their records *)

LEMMA CallParts ==
  /\ \A x \in Call : /\ x.op \in {"event", "listen", "pass", "press", "release", "store"}
                     /\ IsCode(x) => x.code \in Code /\ x.down \in BOOLEAN
                     /\ x.op = "pass" => x.want \in SUBSET Sticky
                     /\ IsUse(x) => x.slot \in Slot
                     /\ x.op = "store" => x.pos \in Sticky
                     /\ x.op = "press" => x = PressSlot(x.slot)
                     /\ x.op = "release" => x = ReleaseSlot(x.slot)
                     /\ x.op = "store" => x = Store(x.pos)
  /\ None \notin Code /\ SCode \subseteq Code
  <1>1. ASSUME NEW x \in CodeCall
        PROVE  x.op \in {"event", "listen"} /\ x.code \in Code /\ x.down \in BOOLEAN
    BY DEF CodeCall
  <1>2. ASSUME NEW x \in PassCall
        PROVE  x.op = "pass" /\ x.code \in Code /\ x.down \in BOOLEAN /\ x.want \in SUBSET Sticky
    BY DEF PassCall
  <1>3. ASSUME NEW x \in UseCall
        PROVE  /\ x.op \in {"press", "release"} /\ x.slot \in Slot
               /\ x.op = "press" => x = PressSlot(x.slot)
               /\ x.op = "release" => x = ReleaseSlot(x.slot)
    BY DEF UseCall, PressSlot, ReleaseSlot
  <1>4. ASSUME NEW x \in StoreCall
        PROVE  x.op = "store" /\ x.pos \in Sticky /\ x = Store(x.pos)
    BY DEF StoreCall, Store
  <1>5. None \notin Code /\ SCode \subseteq Code
    BY StickyAssumption DEF Code, SCode
  <1>6. ASSUME NEW x \in Call
        PROVE  x \in CodeCall \/ x \in PassCall \/ x \in UseCall \/ x \in StoreCall
    BY DEF Call
  <1> QED
    BY <1>1, <1>2, <1>3, <1>4, <1>5, <1>6 DEF IsCode, IsUse

\* The records are told apart by their first field.
LEMMA CallKinds ==
  /\ \A i \in Slot : /\ PressSlot(i) \in Call /\ PressSlot(i).op = "press" /\ PressSlot(i).slot = i
                     /\ ReleaseSlot(i) \in Call /\ ReleaseSlot(i).op = "release"
                     /\ ReleaseSlot(i).slot = i
  /\ \A p \in Sticky : Store(p) \in Call /\ Store(p).op = "store" /\ Store(p).pos = p
  /\ \A c \in Code, d \in BOOLEAN :
       /\ Event(c, d) \in Call /\ Event(c, d).op = "event"
       /\ Event(c, d).code = c /\ Event(c, d).down = d
       /\ Listen(c, d) \in Call /\ Listen(c, d).op = "listen"
       /\ Listen(c, d).code = c /\ Listen(c, d).down = d
       /\ \A w \in SUBSET Sticky :
            /\ Pass(c, d, w) \in Call /\ Pass(c, d, w).op = "pass"
            /\ Pass(c, d, w).code = c /\ Pass(c, d, w).down = d /\ Pass(c, d, w).want = w
  <1>1. \A i \in Slot : /\ PressSlot(i) \in UseCall /\ PressSlot(i).op = "press"
                        /\ PressSlot(i).slot = i
                        /\ ReleaseSlot(i) \in UseCall /\ ReleaseSlot(i).op = "release"
                        /\ ReleaseSlot(i).slot = i
    BY DEF PressSlot, ReleaseSlot, UseCall
  <1>2. \A p \in Sticky : Store(p) \in StoreCall /\ Store(p).op = "store" /\ Store(p).pos = p
    BY DEF Store, StoreCall
  <1>3. ASSUME NEW c \in Code, NEW d \in BOOLEAN
        PROVE  /\ Event(c, d) \in CodeCall /\ Event(c, d).op = "event"
               /\ Event(c, d).code = c /\ Event(c, d).down = d
               /\ Listen(c, d) \in CodeCall /\ Listen(c, d).op = "listen"
               /\ Listen(c, d).code = c /\ Listen(c, d).down = d
    BY DEF Event, Listen, CodeCall
  <1>4. ASSUME NEW c \in Code, NEW d \in BOOLEAN, NEW w \in SUBSET Sticky
        PROVE  /\ Pass(c, d, w) \in PassCall /\ Pass(c, d, w).op = "pass"
               /\ Pass(c, d, w).code = c /\ Pass(c, d, w).down = d /\ Pass(c, d, w).want = w
    BY DEF Pass, PassCall
  <1> QED
    BY <1>1, <1>2, <1>3, <1>4 DEF Call

LEMMA PassKind ==
  ASSUME NEW c \in Code, NEW d \in BOOLEAN, NEW w \in SUBSET Sticky
  PROVE  /\ Pass(c, d, w) \in Call /\ Pass(c, d, w).op = "pass"
         /\ Pass(c, d, w).code = c /\ Pass(c, d, w).down = d /\ Pass(c, d, w).want = w
  BY CallKinds

\* The pairs of two records of calls.
LEMMA AgreeIs ==
  ASSUME NEW x \in Call, NEW y \in Call
  PROVE  (<<x, y>> \in Agree <=> Rel(x, y)) /\ (<<x, y>> \in Agree' <=> Rel(x, y)')
  BY DEF Agree


\* The calls that press or release the slots of a set.
LEMMA UseCalls ==
  ASSUME NEW S \in SUBSET Slot
  PROVE  /\ ForEach(S, ReleaseSlot) \in Seq(Call)
         /\ Members(ForEach(S, ReleaseSlot)) = {ReleaseSlot(i) : i \in S}
         /\ \A Q : (\A i, j \in S : i # j => <<ReleaseSlot(i), ReleaseSlot(j)>> \in Q)
                     => Pairs(ForEach(S, ReleaseSlot), Q)
         /\ ForEach(S, PressSlot) \in Seq(Call)
         /\ Members(ForEach(S, PressSlot)) = {PressSlot(i) : i \in S}
         /\ \A Q : (\A i, j \in S : i # j => <<PressSlot(i), PressSlot(j)>> \in Q)
                     => Pairs(ForEach(S, PressSlot), Q)
  <1> DEFINE C == Cardinality(S)
             r == ForEach(S, ReleaseSlot)
             s == ForEach(S, PressSlot)
  <1>1. S \in SUBSET Nat /\ IsFiniteSet(S)
    <2>1. IsFiniteSet(Slot) /\ Slot \subseteq Nat
      BY StickyAssumption, FS_Interval DEF Slot
    <2> QED
      BY <2>1, FS_Subset
  <1>2. /\ C \in Nat /\ \A n \in 1 .. C : Nth(S, n) \in S
        /\ \A m, n \in 1 .. C : Nth(S, m) = Nth(S, n) => m = n
        /\ \A i \in S : \E n \in 1 .. C : Nth(S, n) = i
    BY <1>1, NthOnce
  <1>3. r = [n \in 1 .. C |-> ReleaseSlot(Nth(S, n))] /\ s = [n \in 1 .. C |-> PressSlot(Nth(S, n))]
    BY DEF ForEach
  <1> HIDE DEF r, s, C
  <1>4. \A n \in 1 .. C : ReleaseSlot(Nth(S, n)) \in Call /\ PressSlot(Nth(S, n)) \in Call
    BY <1>2, CallKinds
  <1>5. /\ r \in [1 .. C -> Call] /\ s \in [1 .. C -> Call]
        /\ \A n \in 1 .. C : r[n] = ReleaseSlot(Nth(S, n)) /\ s[n] = PressSlot(Nth(S, n))
    BY <1>3, <1>4
  <1>6. r \in Seq(Call) /\ s \in Seq(Call) /\ Len(r) = C /\ Len(s) = C
    BY <1>2, <1>5
  <1>7. Members(r) = {ReleaseSlot(i) : i \in S} /\ Members(s) = {PressSlot(i) : i \in S}
    <2>1. Members(r) \subseteq {ReleaseSlot(i) : i \in S} /\ Members(s) \subseteq {PressSlot(i) : i \in S}
      BY <1>2, <1>5, <1>6 DEF Members
    <2>2. ASSUME NEW i \in S PROVE ReleaseSlot(i) \in Members(r) /\ PressSlot(i) \in Members(s)
      <3>1. PICK n \in 1 .. C : Nth(S, n) = i
        BY <1>2
      <3> QED
        BY <1>5, <1>6, <3>1 DEF Members
    <2> QED
      BY <2>1, <2>2
  <1>8. ASSUME NEW m \in 1 .. C, NEW n \in 1 .. C, m < n
        PROVE  Nth(S, m) \in S /\ Nth(S, n) \in S /\ Nth(S, m) # Nth(S, n)
    BY <1>2, <1>8
  <1>9. ASSUME NEW Q, \A i, j \in S : i # j => <<ReleaseSlot(i), ReleaseSlot(j)>> \in Q
        PROVE  Pairs(r, Q)
    BY <1>5, <1>6, <1>8, <1>9 DEF Pairs
  <1>10. ASSUME NEW Q, \A i, j \in S : i # j => <<PressSlot(i), PressSlot(j)>> \in Q
         PROVE  Pairs(s, Q)
    BY <1>5, <1>6, <1>8, <1>10 DEF Pairs
  <1> QED
    BY <1>6, <1>7, <1>9, <1>10 DEF r, s

-----------------------------------------------------------------------------
(* The first call and the calls it leaves *)

LEMMA Stack ==
  ASSUME LineInv, todo # <<>>
  PROVE  /\ Now \in Call /\ Rest \subseteq Call /\ Pending = {Now} \cup Rest
         /\ \A y \in Rest : Rel(Now, y)
  <1>1. todo \in Seq(Call) /\ Pairs(todo, Agree)
    BY DEF LineInv
  <1>2. /\ Now \in Call /\ Tail(todo) \in Seq(Call) /\ Pending = {Now} \cup Rest
        /\ \A y \in Rest : <<Now, y>> \in Agree
    BY <1>1, FirstAndRest DEF Now, Rest, Pending
  <1>3. Rest \subseteq Call
    BY <1>2 DEF Rest, Members
  <1> QED
    BY <1>2, <1>3, AgreeIs

\* The calls in hand still agree, if the slots they use are left alone.
LEMMA StillAgree ==
  ASSUME LineInv, NEW s \in Seq(Call), Pairs(s, Agree),
         \A x \in Members(s) : IsUse(x) => slots'[x.slot] = slots[x.slot]
  PROVE  Pairs(s, Agree')
  <1> SUFFICES ASSUME NEW m \in 1 .. Len(s), NEW n \in 1 .. Len(s), m < n
               PROVE  <<s[m], s[n]>> \in Agree'
    BY DEF Pairs
  <1> DEFINE x == s[m]
             y == s[n]
  <1>1. x \in Call /\ y \in Call /\ x \in Members(s) /\ y \in Members(s)
    BY DEF Members
  <1>2. <<x, y>> \in Agree
    BY DEF Pairs
  <1> HIDE DEF x, y
  <1>3. Rel(x, y)
    BY <1>1, <1>2, AgreeIs
  <1>4. IsUse(x) => slots'[x.slot] = slots[x.slot]
    BY <1>1
  <1>5. IsUse(y) => slots'[y.slot] = slots[y.slot]
    BY <1>1
  <1>6. Floor(y)' = Floor(y)
    BY <1>5 DEF Floor
  <1>7. Rel(x, y)'
    BY <1>3, <1>4, <1>5, <1>6 DEF Rel, Conf, IsUse, IsEvent, IsCode, IsDown
  <1> QED
    BY <1>1, <1>7, AgreeIs DEF x, y

LEMMA StackNext ==
  ASSUME LineInv, todo # <<>>, NEW new \in Seq(Call), todo' = new \o Tail(todo),
         \A x \in Rest : IsUse(x) => slots'[x.slot] = slots[x.slot],
         Pairs(new, Agree'), Across(Members(new), Rest, Agree')
  PROVE  LineInv' /\ Pending' = Members(new) \cup Rest
  <1>1. todo \in Seq(Call) /\ Pairs(todo, Agree)
    BY DEF LineInv
  <1>2. Tail(todo) \in Seq(Call) /\ Pairs(Tail(todo), Agree)
    BY <1>1, FirstAndRest
  <1>3. Pairs(Tail(todo), Agree')
    BY <1>2, StillAgree DEF Rest
  <1>4. /\ new \o Tail(todo) \in Seq(Call)
        /\ Members(new \o Tail(todo)) = Members(new) \cup Members(Tail(todo))
        /\ Pairs(new \o Tail(todo), Agree')
    <2> DEFINE t == Tail(todo)
               A == Agree'
    <2>1. /\ t \in Seq(Call) /\ Pairs(t, A)
          /\ \A x \in Members(new), y \in Members(t) : <<x, y>> \in A
      BY <1>2, <1>3 DEF Rest, Across
    <2>2. Pairs(new, A)
      OBVIOUS
    <2> HIDE DEF t, A
    <2>3. /\ new \o t \in Seq(Call) /\ Members(new \o t) = Members(new) \cup Members(t)
          /\ \A Q : Pairs(new, Q) /\ Pairs(t, Q)
                     /\ (\A x \in Members(new), y \in Members(t) : <<x, y>> \in Q)
                   => Pairs(new \o t, Q)
      BY <2>1, JoinedCalls
    <2> QED
      BY <2>1, <2>2, <2>3 DEF t, A
  <1> QED
    BY <1>4 DEF LineInv, Pending, Rest


\* Two groups of calls that agree.
LEMMA JoinAgree ==
  ASSUME NEW a \in Seq(Call), NEW b \in Seq(Call), Pairs(a, Agree'), Pairs(b, Agree'),
         Across(Members(a), Members(b), Agree')
  PROVE  /\ a \o b \in Seq(Call) /\ Members(a \o b) = Members(a) \cup Members(b)
         /\ Pairs(a \o b, Agree')
  <1> DEFINE A == Agree'
  <1>1. Pairs(a, A) /\ Pairs(b, A) /\ \A x \in Members(a), y \in Members(b) : <<x, y>> \in A
    BY DEF Across
  <1> HIDE DEF A
  <1>2. /\ a \o b \in Seq(Call) /\ Members(a \o b) = Members(a) \cup Members(b)
        /\ \A Q : Pairs(a, Q) /\ Pairs(b, Q)
                   /\ (\A x \in Members(a), y \in Members(b) : <<x, y>> \in Q)
                 => Pairs(a \o b, Q)
    BY JoinedCalls
  <1> QED
    BY <1>1, <1>2 DEF A

\* The calls around one event, for the slots it concerns, agree with each other.
LEMMA Siblings ==
  ASSUME Grounded, NEW c \in Code, NEW i \in Slot, NEW j \in Slot,
         slots'[i].pos \in Sticky, MayCatch(slots'[i].pos, c), slots'[j].modified \in {None, c}
  PROVE  /\ i # j => <<ReleaseSlot(i), ReleaseSlot(j)>> \in Agree'
         /\ i # j /\ slots'[j].modified = c => <<PressSlot(i), PressSlot(j)>> \in Agree'
         /\ slots'[j].modified = c => <<PressSlot(i), ReleaseSlot(j)>> \in Agree'
         /\ \A d \in BOOLEAN, w \in SUBSET Sticky :
              /\ <<ReleaseSlot(i), Listen(c, d)>> \in Agree'
              /\ <<PressSlot(i), Pass(c, d, w)>> \in Agree'
              /\ <<Pass(c, d, w), ReleaseSlot(i)>> \in Agree'
  <1> DEFINE L == Level(Setup[slots'[i].pos].code)
  <1>1. L > Level(c) /\ L > 0 /\ Level(None) = 0 /\ c # None
    BY LevelUp, CallParts
  <1>2. L > Level(slots'[j].modified) /\ L = Level(Conf(i).code)'
    BY <1>1 DEF Conf
  <1> HIDE DEF L
  <1>3. \A k \in {i, j} :
          /\ PressSlot(k) \in Call /\ PressSlot(k).op = "press" /\ PressSlot(k).slot = k
          /\ ReleaseSlot(k) \in Call /\ ReleaseSlot(k).op = "release" /\ ReleaseSlot(k).slot = k
    BY CallKinds
  <1>4. /\ Floor(ReleaseSlot(j))' = Level(slots'[j].modified)
        /\ Floor(PressSlot(j))' = Level(slots'[j].modified)
    BY <1>3 DEF Floor, IsCode, IsUse
  <1>5. ASSUME i # j PROVE <<ReleaseSlot(i), ReleaseSlot(j)>> \in Agree'
    <2>1. Rel(ReleaseSlot(i), ReleaseSlot(j))'
      BY <1>2, <1>3, <1>4, <1>5 DEF Rel, IsEvent, IsCode, IsUse, IsDown
    <2> QED
      BY <1>3, <2>1, AgreeIs
  <1>6. ASSUME i # j, slots'[j].modified = c PROVE <<PressSlot(i), PressSlot(j)>> \in Agree'
    <2>1. Rel(PressSlot(i), PressSlot(j))'
      BY <1>1, <1>2, <1>3, <1>4, <1>6 DEF Rel, IsEvent, IsCode, IsUse, IsDown
    <2> QED
      BY <1>3, <2>1, AgreeIs
  <1>7. ASSUME slots'[j].modified = c PROVE <<PressSlot(i), ReleaseSlot(j)>> \in Agree'
    <2>1. Rel(PressSlot(i), ReleaseSlot(j))'
      BY <1>1, <1>2, <1>3, <1>4, <1>7 DEF Rel, IsEvent, IsCode, IsUse, IsDown
    <2> QED
      BY <1>3, <2>1, AgreeIs
  <1>8. ASSUME NEW d \in BOOLEAN, NEW w \in SUBSET Sticky
        PROVE  /\ <<ReleaseSlot(i), Listen(c, d)>> \in Agree'
               /\ <<PressSlot(i), Pass(c, d, w)>> \in Agree'
               /\ <<Pass(c, d, w), ReleaseSlot(i)>> \in Agree'
    <2>1. /\ Listen(c, d) \in Call /\ Listen(c, d).op = "listen" /\ Listen(c, d).code = c
          /\ Pass(c, d, w) \in Call /\ Pass(c, d, w).op = "pass" /\ Pass(c, d, w).code = c
      BY CallKinds
    <2>2. Floor(Listen(c, d))' = Level(c) /\ Floor(Pass(c, d, w))' = Level(c)
      BY <2>1 DEF Floor, IsCode
    <2>3. Rel(ReleaseSlot(i), Listen(c, d))'
      BY <1>1, <1>2, <1>3, <2>1, <2>2 DEF Rel, IsEvent, IsCode, IsUse, IsDown
    <2>4. Rel(PressSlot(i), Pass(c, d, w))'
      BY <1>1, <1>2, <1>3, <2>1, <2>2 DEF Rel, IsEvent, IsCode, IsUse, IsDown
    <2>5. Rel(Pass(c, d, w), ReleaseSlot(i))'
      BY <1>3, <2>1 DEF Rel, IsEvent, IsCode, IsUse, IsDown
    <2> QED
      BY <1>3, <2>1, <2>3, <2>4, <2>5, AgreeIs
  <1> QED
    BY <1>5, <1>6, <1>7, <1>8

\* The slots an event concerns are not those that outer calls use.
LEMMA Crossing ==
  ASSUME Grounded, TypeOK, LineInv, GoodInv, SlotInv, todo # <<>>, IsEvent(Now),
         NEW i \in InUse, MayCatch(slots[i].pos, Now.code),
         slots[i].modified = Now.code \/ (slots[i].modified = None /\ Now.down),
         slots'[i].pos = slots[i].pos,
         NEW y \in Rest, IsUse(y) => slots'[y.slot] = slots[y.slot]
  PROVE  /\ IsUse(y) => y.slot # i
         /\ y.op = "pass" => slots[i].pos \notin y.want
         /\ <<ReleaseSlot(i), y>> \in Agree'
         /\ Now.down => <<PressSlot(i), y>> \in Agree'
  <1>1. /\ Now \in Call /\ y \in Call /\ Rel(Now, y) /\ Good(y)
        /\ Now.code \in Code /\ Now.code # None
        /\ i \in Slot /\ slots[i].pos \in Sticky
    <2>1. Now \in Call /\ y \in Call /\ Rel(Now, y) /\ y \in Pending
      BY Stack
    <2>2. Now.code \in Code /\ Now.code # None
      BY <2>1, CallParts DEF IsEvent, IsCode
    <2> QED
      BY <2>1, <2>2 DEF GoodInv, SlotInv, InUse
  <1>2. Level(Now.code) > Floor(y) /\ Level(Now.code) \in Nat /\ Floor(y) \in Nat
    BY <1>1, LevelUp DEF Rel, Floor
  <1>3. Level(Setup[slots[i].pos].code) > Level(Now.code) /\ Level(Setup[slots[i].pos].code) \in Nat
    BY <1>1, LevelUp
  <1>4. Level(Setup[slots[i].pos].code) > Floor(y)
    BY <1>2, <1>3
  <1>5. ASSUME IsUse(y) PROVE y.slot # i
    <2>1. Floor(y) = Level(slots[y.slot].modified)
      BY <1>5 DEF Floor, IsUse, IsCode
    <2>2. slots[y.slot].modified # Now.code
      BY <1>2, <2>1
    <2>3. Now.down => slots[y.slot].modified # None
      BY <1>1, <1>5 DEF Rel, IsDown
    <2> QED
      BY <2>2, <2>3
  <1>6. ASSUME y.op = "pass" PROVE slots[i].pos \notin y.want
    <2>1. Floor(y) = Level(y.code) /\ y.code \in Code /\ y.code # None
      BY <1>1, <1>6, CallParts DEF Floor, IsCode
    <2>2. y.code # Now.code
      BY <1>2, <2>1
    <2>3. ASSUME slots[i].pos \in y.want PROVE FALSE
      <3>1. PICK j \in Found(slots[i].pos) : slots[j].modified = y.code
        BY <1>1, <1>6, <2>3 DEF Good
      <3>2. j = i
        BY <3>1 DEF Found, SlotInv
      <3> QED
        BY <2>1, <2>2, <3>1, <3>2
    <2> QED
      BY <2>3
  <1>7. /\ PressSlot(i) \in Call /\ PressSlot(i).op = "press" /\ PressSlot(i).slot = i
        /\ ReleaseSlot(i) \in Call /\ ReleaseSlot(i).op = "release" /\ ReleaseSlot(i).slot = i
    BY <1>1, CallKinds
  <1>8. Floor(y)' = Floor(y)
    BY DEF Floor
  <1>9. Level(Conf(i).code)' > Floor(y)'
    BY <1>4, <1>8 DEF Conf
  <1>10. Rel(ReleaseSlot(i), y)'
    BY <1>5, <1>6, <1>7, <1>9 DEF Rel, IsEvent, IsCode, IsUse, IsDown
  <1>11. ASSUME Now.down PROVE Rel(PressSlot(i), y)'
    <2>1. IsUse(y) => slots'[y.slot].modified # None
      BY <1>1, <1>11 DEF Rel, IsDown
    <2> QED
      BY <1>5, <1>7, <1>9, <2>1 DEF Rel, IsEvent, IsCode, IsUse, IsDown
  <1> QED
    BY <1>1, <1>5, <1>6, <1>7, <1>10, <1>11, AgreeIs


-----------------------------------------------------------------------------
(* What each step leaves to be done *)

LazyOf(S) == {i \in S : Conf(i).lazy}
OthersOf(S) == {i \in S : ~Conf(i).lazy}

\* A lazy slot that timed out is free; every other is as it was.
LEMMA ForgottenIs ==
  ASSUME TypeOK, NEW S \in SUBSET InUse, slots' = Forgotten(S)
  PROVE  /\ InUse' = InUse \ LazyOf(S)
         /\ \A i \in LazyOf(S) : slots'[i] = Free
         /\ \A i \in Slot \ LazyOf(S) : slots'[i] = slots[i]
  <1>1. \A i \in Slot : slots'[i] = IF i \in S /\ Conf(i).lazy THEN Free ELSE slots[i]
    BY DEF Forgotten, Cleared
  <1>2. S \subseteq Slot /\ Free.used = FALSE
    BY DEF InUse, Free
  <1> QED
    BY <1>1, <1>2 DEF InUse, LazyOf

EventDone(late) ==
  /\ late \in SUBSET InUse /\ late \subseteq Catches(Now.code) /\ (late # {} => Now.down)
  /\ slots' = Forgotten(late) /\ timers' = timers \ late
  /\ Pending' = {ReleaseSlot(i) : i \in OthersOf(late)} \cup {Listen(Now.code, Now.down)}
                  \cup Rest
  /\ UNCHANGED <<down, out, orphan, reach>>

\* What is known of an event that is being handled.
LEMMA EventNow ==
  ASSUME IInv, todo # <<>>, IsEvent(Now)
  PROVE  /\ Now \in Call /\ Now.code \in Code /\ Now.code # None /\ Now.down \in BOOLEAN
         /\ Catches(Now.code) \subseteq InUse /\ InUse \subseteq Slot
         /\ \A i \in Catches(Now.code) : /\ slots[i].pos \in Sticky /\ slots[i].modified = None
                                         /\ MayCatch(slots[i].pos, Now.code)
         /\ \A y \in Rest : IsUse(y) => /\ y.slot \in InUse
                                        /\ Now.down => slots[y.slot].modified # None
         /\ \A y \in Rest : IsCode(y) => Now.code \in SCode
  <1>1. Now \in Call /\ Rest \subseteq Pending /\ \A y \in Rest : Rel(Now, y)
    BY Stack DEF IInv
  <1>2. Now.code \in Code /\ Now.code # None /\ Now.down \in BOOLEAN
    BY <1>1, CallParts DEF IsEvent, IsCode
  <1>3. \A i \in Catches(Now.code) : /\ slots[i].pos \in Sticky /\ slots[i].modified = None
                                     /\ MayCatch(slots[i].pos, Now.code)
    BY DEF Catches, MayCatch, Conf, IInv, SlotInv
  <1>4. Catches(Now.code) \subseteq InUse /\ InUse \subseteq Slot
    BY DEF Catches, InUse
  <1>5. \A y \in Rest : IsUse(y) => y.slot \in InUse /\ (Now.down => slots[y.slot].modified # None)
    BY <1>1 DEF IInv, GoodInv, Good, Rel, IsDown
  <1>6. \A y \in Rest : IsCode(y) => Now.code \in SCode
    BY <1>1 DEF Rel, IsCode, IsEvent
  <1> QED
    BY <1>1, <1>2, <1>3, <1>4, <1>5, <1>6

LEMMA HandleEventNext ==
  ASSUME Grounded, IInv, HandleEvent
  PROVE  LineInv' /\ \E late : EventDone(late)
  <1>1. /\ todo # <<>> /\ Now.op = "event" /\ UNCHANGED <<down, out, orphan, reach>>
        /\ \E late \in SUBSET (IF Now.down THEN {i \in Catches(Now.code) : slots[i].due} ELSE {}) :
             /\ slots' = Forgotten(late)
             /\ timers' = timers \ late
             /\ todo' = ForEach({i \in late : ~Conf(i).lazy}, ReleaseSlot)
                          \o <<Listen(Now.code, Now.down)>> \o Tail(todo)
    BY DEF HandleEvent, Quiet, Now
  <1>2. IsEvent(Now)
    BY <1>1 DEF IsEvent
  <1>3. PICK late : /\ late \subseteq Catches(Now.code) /\ (late # {} => Now.down)
                    /\ slots' = Forgotten(late) /\ timers' = timers \ late
                    /\ todo' = ForEach(OthersOf(late), ReleaseSlot)
                                 \o <<Listen(Now.code, Now.down)>> \o Tail(todo)
    BY <1>1 DEF OthersOf
  <1> DEFINE S == OthersOf(late)
             c == Now.code
             one == <<Listen(c, Now.down)>>
             new == ForEach(S, ReleaseSlot) \o one
  <1>4. /\ Now \in Call /\ c \in Code /\ c # None /\ Now.down \in BOOLEAN
        /\ late \subseteq InUse /\ S \subseteq Slot /\ S \subseteq InUse /\ S \subseteq late
        /\ \A i \in late : /\ slots[i].pos \in Sticky /\ slots[i].modified = None
                           /\ MayCatch(slots[i].pos, c)
    BY <1>1, <1>2, <1>3, EventNow DEF OthersOf
  <1>5. \A i \in S : slots'[i] = slots[i]
    BY <1>3, <1>4, ForgottenIs DEF IInv, LazyOf, OthersOf
  <1>6. ASSUME NEW y \in Rest, IsUse(y) PROVE slots'[y.slot] = slots[y.slot]
    <2>1. y.slot \in InUse /\ InUse \subseteq Slot /\ (Now.down => slots[y.slot].modified # None)
      BY <1>1, <1>2, <1>6, EventNow
    <2>2. y.slot \notin late
      BY <1>3, <1>4, <2>1
    <2> QED
      BY <1>3, <1>4, <2>1, <2>2, ForgottenIs DEF IInv, LazyOf
  <1>7. /\ ForEach(S, ReleaseSlot) \in Seq(Call)
        /\ Members(ForEach(S, ReleaseSlot)) = {ReleaseSlot(i) : i \in S}
        /\ Pairs(ForEach(S, ReleaseSlot), Agree')
    <2>1. ASSUME NEW i \in S, NEW j \in S, i # j
          PROVE  <<ReleaseSlot(i), ReleaseSlot(j)>> \in Agree'
      BY <1>4, <1>5, <2>1, Siblings
    <2> DEFINE A == Agree'
    <2>2. \A i, j \in S : i # j => <<ReleaseSlot(i), ReleaseSlot(j)>> \in A
      BY <2>1
    <2> HIDE DEF A, S
    <2>3. /\ ForEach(S, ReleaseSlot) \in Seq(Call)
          /\ Members(ForEach(S, ReleaseSlot)) = {ReleaseSlot(i) : i \in S}
          /\ \A Q : (\A i, j \in S : i # j => <<ReleaseSlot(i), ReleaseSlot(j)>> \in Q)
                      => Pairs(ForEach(S, ReleaseSlot), Q)
      BY <1>4, UseCalls
    <2> QED
      BY <2>2, <2>3 DEF A
  <1>8. Listen(c, Now.down) \in Call /\ Listen(c, Now.down).op = "listen"
          /\ Listen(c, Now.down).code = c /\ Listen(c, Now.down).down = Now.down
    BY <1>4, CallKinds
  <1>9. one \in Seq(Call) /\ Members(one) = {Listen(c, Now.down)} /\ Pairs(one, Agree')
    BY <1>8, OneCall
  <1>10. ASSUME NEW i \in S PROVE <<ReleaseSlot(i), Listen(c, Now.down)>> \in Agree'
    BY <1>4, <1>5, Siblings
  <1>11. /\ new \in Seq(Call) /\ Members(new) = {ReleaseSlot(i) : i \in S} \cup {Listen(c, Now.down)}
         /\ Pairs(new, Agree')
    <2>1. Across(Members(ForEach(S, ReleaseSlot)), Members(one), Agree')
      BY <1>7, <1>9, <1>10 DEF Across
    <2>2. /\ new \in Seq(Call) /\ Members(new) = Members(ForEach(S, ReleaseSlot)) \cup Members(one)
          /\ Pairs(new, Agree')
      BY ONLY <1>7, <1>9, <2>1, JoinAgree
    <2> QED
      BY <1>7, <1>9, <2>2
  <1>12. ASSUME NEW y \in Rest PROVE <<Listen(c, Now.down), y>> \in Agree'
    <2>1. Rel(Now, y) /\ y \in Call
      BY <1>1, Stack DEF IInv
    <2>2. Floor(y)' = Floor(y)
      BY <1>6 DEF Floor
    <2>3. PICK x : x = Listen(c, Now.down)
      OBVIOUS
    <2>4. x \in Call /\ x.op = "listen" /\ x.code = Now.code /\ x.down = Now.down
      BY <1>8, <2>3
    <2>5. IsUse(y) => slots'[y.slot] = slots[y.slot]
      BY <1>6
    <2>6. Rel(x, y)'
      BY <1>1, <2>1, <2>2, <2>4, <2>5 DEF Rel, IsEvent, IsCode, IsUse, IsDown
    <2> QED
      BY <2>1, <2>3, <2>4, <2>6, AgreeIs
  <1>13. ASSUME NEW i \in S, NEW y \in Rest PROVE <<ReleaseSlot(i), y>> \in Agree'
    <2>1. i \in InUse /\ MayCatch(slots[i].pos, Now.code) /\ slots[i].modified = None /\ Now.down
            /\ slots'[i].pos = slots[i].pos
      BY <1>3, <1>4, <1>5
    <2>2. IsUse(y) => slots'[y.slot] = slots[y.slot]
      BY <1>6
    <2> QED
      BY <1>1, <1>2, <2>1, <2>2, Crossing DEF IInv
  <1>14. Across(Members(new), Rest, Agree')
    BY <1>11, <1>12, <1>13 DEF Across
  <1>15. LineInv' /\ Pending' = Members(new) \cup Rest
    <2>1. todo' = new \o Tail(todo) /\ LineInv
      BY <1>3 DEF IInv
    <2> HIDE DEF new
    <2> QED
      BY <1>1, <1>6, <1>11, <1>14, <2>1, StackNext
  <1>16. EventDone(late)
    BY <1>1, <1>3, <1>4, <1>11, <1>15 DEF EventDone
  <1> QED
    BY <1>15, <1>16


\* The sticky keys a key-down is to be modified by.
WantOf(S) == {slots[i].pos : i \in S}

\* What becomes of the slots when they are put to use.
LEMMA PutToUse ==
  ASSUME IInv, ListenDown
  PROVE  /\ InUse' = InUse /\ Catches(Now.code) \subseteq InUse /\ InUse \subseteq Slot
         /\ \A i \in Slot \ Catches(Now.code) : slots'[i] = slots[i]
         /\ \A i \in Slot : /\ slots'[i].pos = slots[i].pos /\ slots'[i].used = slots[i].used
                            /\ slots'[i].started = slots[i].started
                            /\ slots'[i].late = slots[i].late
         /\ \A i \in Catches(Now.code) : slots'[i].modified = Now.code
  <1> DEFINE caught == Catches(Now.code)
  <1>1. \A i \in Slot : slots'[i] = IF i \in caught THEN [slots[i] EXCEPT !.modified = Now.code]
                                    ELSE slots[i]
    BY DEF ListenDown, Now
  <1>2. \A i \in Slot : slots[i] \in [used : BOOLEAN, pos : Sticky \cup {None}, started : BOOLEAN,
                                      due : BOOLEAN, late : BOOLEAN, modified : Code \cup {None}]
    BY DEF IInv, TypeOK
  <1>3. caught \subseteq InUse /\ InUse \subseteq Slot
    BY DEF Catches, InUse
  <1> HIDE DEF caught
  <1>4. \A i \in Slot : /\ slots'[i].pos = slots[i].pos /\ slots'[i].used = slots[i].used
                        /\ slots'[i].started = slots[i].started
                        /\ slots'[i].late = slots[i].late
                        /\ i \in caught => slots'[i].modified = Now.code
    BY <1>1, <1>2
  <1>5. InUse' = InUse
    BY <1>4 DEF InUse
  <1> QED
    BY <1>1, <1>3, <1>4, <1>5 DEF caught

LEMMA ListenDownNext ==
  ASSUME Grounded, IInv, ListenDown
  PROVE  /\ LineInv' /\ todo # <<>> /\ IsEvent(Now) /\ Now.down
         /\ Pending' = {PressSlot(i) : i \in LazyOf(Catches(Now.code))}
                         \cup {Pass(Now.code, TRUE, WantOf(Catches(Now.code)))}
                         \cup {ReleaseSlot(i) : i \in Quick(Catches(Now.code))} \cup Rest
  <1> DEFINE c == Now.code
             S == Catches(c)
             one == <<Pass(c, TRUE, WantOf(S))>>
             F == ForEach(LazyOf(S), PressSlot)
             G == ForEach(Quick(S), ReleaseSlot)
             A == Agree'
  <1>1. /\ todo # <<>> /\ Now.op = "listen" /\ Now.down /\ IsEvent(Now) /\ LineInv
        /\ todo' = (F \o one) \o G \o Tail(todo)
    BY DEF ListenDown, Quiet, Now, Around, IsEvent, LazyOf, WantOf, IInv
  <1>2. /\ Now \in Call /\ c \in Code /\ c # None /\ S \subseteq InUse /\ InUse \subseteq Slot
        /\ \A i \in S : /\ slots[i].pos \in Sticky /\ slots[i].modified = None
                        /\ MayCatch(slots[i].pos, c)
    BY <1>1, EventNow
  <1>3. /\ \A i \in Slot \ S : slots'[i] = slots[i]
        /\ \A i \in S : slots'[i].pos = slots[i].pos /\ slots'[i].modified = c
    BY <1>2, PutToUse
  <1>4. ASSUME NEW y \in Rest, IsUse(y) PROVE slots'[y.slot] = slots[y.slot]
    <2>1. y.slot \in InUse /\ slots[y.slot].modified # None
      BY <1>1, <1>4, EventNow
    <2> QED
      BY <1>2, <1>3, <2>1
  <1>5. LazyOf(S) \subseteq S /\ Quick(S) \subseteq S /\ WantOf(S) \in SUBSET Sticky
    BY <1>2 DEF LazyOf, Quick, WantOf
  <1>6. /\ Pass(c, TRUE, WantOf(S)) \in Call /\ Pass(c, TRUE, WantOf(S)).op = "pass"
        /\ Pass(c, TRUE, WantOf(S)).code = c /\ Pass(c, TRUE, WantOf(S)).want = WantOf(S)
    <2>1. \A d \in BOOLEAN, w \in SUBSET Sticky :
            /\ Pass(c, d, w) \in Call /\ Pass(c, d, w).op = "pass"
            /\ Pass(c, d, w).code = c /\ Pass(c, d, w).want = w
      BY <1>2, PassKind
    <2>2. WantOf(S) \in SUBSET Sticky /\ TRUE \in BOOLEAN
      BY <1>5
    <2> HIDE DEF c, S
    <2> QED
      BY ONLY <2>1, <2>2
  <1>7. ASSUME NEW i \in S, NEW j \in S
        PROVE  /\ i # j => <<ReleaseSlot(i), ReleaseSlot(j)>> \in A
               /\ i # j => <<PressSlot(i), PressSlot(j)>> \in A
               /\ <<PressSlot(i), ReleaseSlot(j)>> \in A
               /\ <<PressSlot(i), Pass(c, TRUE, WantOf(S))>> \in A
               /\ <<Pass(c, TRUE, WantOf(S)), ReleaseSlot(j)>> \in A
    <2>1. /\ i \in Slot /\ j \in Slot /\ slots'[i].pos \in Sticky /\ MayCatch(slots'[i].pos, c)
          /\ slots'[j].pos \in Sticky /\ MayCatch(slots'[j].pos, c)
          /\ slots'[i].modified = c /\ slots'[j].modified = c
      BY <1>2, <1>3
    <2>2. /\ i # j => <<ReleaseSlot(i), ReleaseSlot(j)>> \in A
          /\ i # j => <<PressSlot(i), PressSlot(j)>> \in A
          /\ <<PressSlot(i), ReleaseSlot(j)>> \in A
          /\ <<PressSlot(i), Pass(c, TRUE, WantOf(S))>> \in A
      BY <1>2, <1>5, <2>1, Siblings
    <2>3. <<Pass(c, TRUE, WantOf(S)), ReleaseSlot(j)>> \in A
      BY <1>2, <1>5, <2>1, Siblings
    <2> QED
      BY <2>2, <2>3
  <1>8. ASSUME NEW i \in S, NEW y \in Rest
        PROVE  <<ReleaseSlot(i), y>> \in A /\ <<PressSlot(i), y>> \in A
    <2>1. /\ i \in InUse /\ MayCatch(slots[i].pos, Now.code) /\ slots[i].modified = None
          /\ slots'[i].pos = slots[i].pos /\ (IsUse(y) => slots'[y.slot] = slots[y.slot])
      BY <1>2, <1>3, <1>4
    <2> QED
      BY <1>1, <2>1, Crossing DEF IInv
  <1>9. ASSUME NEW y \in Rest PROVE <<Pass(c, TRUE, WantOf(S)), y>> \in A
    <2>1. Rel(Now, y) /\ y \in Call /\ Good(y)
      BY <1>1, Stack DEF IInv, GoodInv
    <2>2. PICK x : x = Pass(c, TRUE, WantOf(S))
      OBVIOUS
    <2>3. x \in Call /\ x.op = "pass" /\ x.code = Now.code /\ x.want = WantOf(S)
      BY <1>6, <2>2
    <2>4. ASSUME y.op = "press" PROVE slots'[y.slot].pos \notin x.want
      <3>1. y.slot \in InUse /\ slots[y.slot].modified # None
        BY <1>1, <2>4, EventNow DEF IsUse
      <3>2. ASSUME NEW i \in S, slots[i].pos = slots[y.slot].pos PROVE FALSE
        BY <1>2, <3>1, <3>2 DEF IInv, SlotInv
      <3>3. slots'[y.slot].pos = slots[y.slot].pos
        BY <1>4, <2>4 DEF IsUse
      <3> QED
        BY <2>3, <3>2, <3>3 DEF WantOf
    <2>5. IsCode(y) => x.code \in SCode
      BY <1>1, <2>3, EventNow
    <2>6. Rel(x, y)'
      BY <2>3, <2>4, <2>5 DEF Rel, IsEvent, IsCode, IsUse, IsDown
    <2> QED
      BY <2>1, <2>2, <2>3, <2>6, AgreeIs
  <1>10. one \in Seq(Call) /\ Members(one) = {Pass(c, TRUE, WantOf(S))} /\ Pairs(one, A)
    BY <1>6, OneCall
  <1>11. /\ F \in Seq(Call) /\ Members(F) = {PressSlot(i) : i \in LazyOf(S)} /\ Pairs(F, A)
         /\ G \in Seq(Call) /\ Members(G) = {ReleaseSlot(i) : i \in Quick(S)} /\ Pairs(G, A)
    <2> DEFINE X == LazyOf(S)
               Y == Quick(S)
    <2>1. /\ \A i, j \in X : i # j => <<PressSlot(i), PressSlot(j)>> \in A
          /\ \A i, j \in Y : i # j => <<ReleaseSlot(i), ReleaseSlot(j)>> \in A
          /\ X \in SUBSET Slot /\ Y \in SUBSET Slot
      BY <1>2, <1>5, <1>7
    <2> HIDE DEF A, X, Y
    <2>2. /\ ForEach(X, PressSlot) \in Seq(Call)
          /\ Members(ForEach(X, PressSlot)) = {PressSlot(i) : i \in X}
          /\ Pairs(ForEach(X, PressSlot), A)
      BY <2>1, UseCalls
    <2>3. /\ ForEach(Y, ReleaseSlot) \in Seq(Call)
          /\ Members(ForEach(Y, ReleaseSlot)) = {ReleaseSlot(i) : i \in Y}
          /\ Pairs(ForEach(Y, ReleaseSlot), A)
      BY <2>1, UseCalls
    <2> QED
      BY <2>2, <2>3 DEF X, Y
  <1>12. /\ F \o one \in Seq(Call) /\ Members(F \o one) = Members(F) \cup Members(one)
         /\ Pairs(F \o one, Agree')
    <2>1. Across(Members(F), Members(one), A)
      BY <1>5, <1>7, <1>10, <1>11 DEF Across
    <2> HIDE DEF F, one
    <2> QED
      BY <1>10, <1>11, <2>1, JoinAgree
  <1>13. /\ (F \o one) \o G \in Seq(Call)
         /\ Members((F \o one) \o G) = Members(F) \cup Members(one) \cup Members(G)
         /\ Pairs((F \o one) \o G, Agree')
    <2> DEFINE H == F \o one
    <2>1. Across(Members(H), Members(G), A)
      <3>1. Across(Members(F), Members(G), A)
        BY <1>5, <1>7, <1>11 DEF Across
      <3>2. Across(Members(one), Members(G), A)
        BY <1>5, <1>7, <1>10, <1>11 DEF Across
      <3>3. Members(H) = Members(F) \cup Members(one)
        BY <1>12
      <3> HIDE DEF F, G, H, one, A
      <3> QED
        BY <3>1, <3>2, <3>3, AcrossBoth
    <2>2. H \in Seq(Call) /\ Members(H) = Members(F) \cup Members(one) /\ Pairs(H, Agree')
      BY <1>12
    <2> HIDE DEF H, F, G, one
    <2>3. H \o G \in Seq(Call) /\ Members(H \o G) = Members(H) \cup Members(G) /\ Pairs(H \o G, Agree')
      BY <1>11, <2>1, <2>2, JoinAgree
    <2> QED
      BY <2>2, <2>3 DEF H
  <1> DEFINE new == (F \o one) \o G
  <1>14. Across(Members(new), Rest, A)
    <2>1. Across(Members(F), Rest, A) /\ Across(Members(G), Rest, A)
      BY <1>5, <1>8, <1>11 DEF Across
    <2>2. Across(Members(one), Rest, A)
      BY <1>9, <1>10 DEF Across
    <2>3. Members(new) = (Members(F) \cup Members(one)) \cup Members(G)
      BY <1>13
    <2> HIDE DEF F, G, one, new, A
    <2>4. Across(Members(F) \cup Members(one), Rest, A)
      BY <2>1, <2>2, AcrossBoth
    <2> QED
      BY <2>1, <2>3, <2>4, AcrossBoth
  <1>15. LineInv' /\ Pending' = Members(new) \cup Rest
    <2>1. new \in Seq(Call) /\ todo' = new \o Tail(todo) /\ Pairs(new, Agree')
      BY <1>1, <1>13
    <2> HIDE DEF new
    <2> QED
      BY <1>1, <1>4, <1>14, <2>1, StackNext
  <1> QED
    BY <1>1, <1>10, <1>11, <1>13, <1>15


\* One call, or none, in place of the first one; and the first calls of all.
LEMMA OneNext ==
  ASSUME LineInv, todo # <<>>, NEW x \in Call, todo' = <<x>> \o Tail(todo),
         \A y \in Rest : IsUse(y) => slots'[y.slot] = slots[y.slot],
         \A y \in Rest : <<x, y>> \in Agree'
  PROVE  LineInv' /\ Pending' = {x} \cup Rest
  <1>1. <<x>> \in Seq(Call) /\ Members(<<x>>) = {x} /\ Pairs(<<x>>, Agree')
    BY OneCall
  <1>2. Across(Members(<<x>>), Rest, Agree')
    BY <1>1 DEF Across
  <1> QED
    BY <1>1, <1>2, StackNext

LEMMA NoneNext ==
  ASSUME LineInv, todo # <<>>, todo' = Tail(todo),
         \A y \in Rest : IsUse(y) => slots'[y.slot] = slots[y.slot]
  PROVE  LineInv' /\ Pending' = Rest
  <1>1. todo \in Seq(Call) /\ Pairs(todo, Agree)
    BY DEF LineInv
  <1>2. Tail(todo) \in Seq(Call) /\ Pairs(Tail(todo), Agree)
    BY <1>1, FirstAndRest
  <1>3. Pairs(Tail(todo), Agree')
    BY <1>2, StillAgree DEF Rest
  <1> QED
    BY <1>2, <1>3 DEF LineInv, Pending, Rest

LEMMA FirstCall ==
  ASSUME NEW x \in Call, todo' = <<x>>
  PROVE  LineInv' /\ Pending' = {x}
  <1>1. <<x>> \in Seq(Call) /\ Members(<<x>>) = {x} /\ Pairs(<<x>>, Agree')
    BY OneCall
  <1> QED
    BY <1>1 DEF LineInv, Pending

LEMMA NoCallsYet ==
  /\ todo' = <<>> => LineInv' /\ Pending' = {}
  /\ todo = <<>> => Pending = {}
  <1>1. <<>> \in Seq(Call) /\ Members(<<>>) = {} /\ Pairs(<<>>, Agree')
    BY NoCall
  <1> QED
    BY <1>1 DEF LineInv, Pending

LEMMA ListenUpNext ==
  ASSUME Grounded, IInv, ListenUp
  PROVE  /\ LineInv' /\ todo # <<>> /\ IsEvent(Now) /\ ~Now.down /\ Ends(Now.code) \subseteq InUse
         /\ Pending' = {Pass(Now.code, FALSE, {})} \cup {ReleaseSlot(i) : i \in Ends(Now.code)}
                         \cup Rest
  <1> DEFINE c == Now.code
             S == Ends(c)
             one == <<Pass(c, FALSE, {})>>
             G == ForEach(S, ReleaseSlot)
             new == one \o G
             A == Agree'
  <1>1. /\ todo # <<>> /\ Now.op = "listen" /\ ~Now.down /\ IsEvent(Now) /\ LineInv
        /\ todo' = one \o G \o Tail(todo) /\ slots' = slots
    BY DEF ListenUp, Quiet, Now, IsEvent, IInv
  <1>2. /\ Now \in Call /\ c \in Code /\ c # None /\ InUse \subseteq Slot
        /\ \A y \in Rest : IsCode(y) => c \in SCode
    BY <1>1, EventNow
  <1>3. S \subseteq InUse /\ \A i \in S : /\ slots[i].pos \in Sticky /\ slots[i].modified = c
                                          /\ MayCatch(slots[i].pos, c)
    BY <1>2 DEF Ends, IInv, SlotInv
  <1>4. /\ Pass(c, FALSE, {}) \in Call /\ Pass(c, FALSE, {}).op = "pass"
        /\ Pass(c, FALSE, {}).code = c /\ Pass(c, FALSE, {}).want = {}
    <2>1. \A d \in BOOLEAN, w \in SUBSET Sticky :
            /\ Pass(c, d, w) \in Call /\ Pass(c, d, w).op = "pass"
            /\ Pass(c, d, w).code = c /\ Pass(c, d, w).want = w
      BY <1>2, PassKind
    <2> HIDE DEF c
    <2> QED
      BY <2>1
  <1>5. ASSUME NEW i \in S, NEW j \in S
        PROVE  /\ i # j => <<ReleaseSlot(i), ReleaseSlot(j)>> \in A
               /\ <<Pass(c, FALSE, {}), ReleaseSlot(j)>> \in A
    <2>1. /\ i \in Slot /\ j \in Slot /\ slots'[i].pos \in Sticky /\ MayCatch(slots'[i].pos, c)
          /\ slots'[j].pos \in Sticky /\ MayCatch(slots'[j].pos, c)
          /\ slots'[i].modified = c /\ slots'[j].modified = c
      BY <1>1, <1>2, <1>3
    <2>2. i # j => <<ReleaseSlot(i), ReleaseSlot(j)>> \in A
      BY <1>2, <2>1, Siblings
    <2>3. \A d \in BOOLEAN, w \in SUBSET Sticky : <<Pass(c, d, w), ReleaseSlot(j)>> \in A
      BY <1>2, <2>1, Siblings
    <2> HIDE DEF A
    <2> QED
      BY <2>2, <2>3
  <1>6. ASSUME NEW i \in S, NEW y \in Rest PROVE <<ReleaseSlot(i), y>> \in A
    <2>1. /\ i \in InUse /\ MayCatch(slots[i].pos, Now.code) /\ slots[i].modified = Now.code
          /\ slots'[i].pos = slots[i].pos /\ (IsUse(y) => slots'[y.slot] = slots[y.slot])
      BY <1>1, <1>3
    <2> QED
      BY <1>1, <2>1, Crossing DEF IInv
  <1>7. ASSUME NEW y \in Rest PROVE <<Pass(c, FALSE, {}), y>> \in A
    <2>1. y \in Call
      BY <1>1, Stack
    <2>2. PICK x : x = Pass(c, FALSE, {})
      OBVIOUS
    <2>3. x \in Call /\ x.op = "pass" /\ x.code = Now.code /\ x.want = {}
      BY <1>4, <2>2
    <2>4. IsCode(y) => x.code \in SCode
      BY <1>2, <2>3
    <2>5. Rel(x, y)'
      BY <2>3, <2>4 DEF Rel, IsEvent, IsCode, IsUse, IsDown
    <2> QED
      BY <2>1, <2>2, <2>3, <2>5, AgreeIs
  <1>8. one \in Seq(Call) /\ Members(one) = {Pass(c, FALSE, {})} /\ Pairs(one, A)
    BY <1>4, OneCall
  <1>9. G \in Seq(Call) /\ Members(G) = {ReleaseSlot(i) : i \in S} /\ Pairs(G, A)
    <2>1. S \in SUBSET Slot /\ \A i, j \in S : i # j => <<ReleaseSlot(i), ReleaseSlot(j)>> \in A
      BY <1>2, <1>3, <1>5
    <2> HIDE DEF A, S
    <2> QED
      BY <2>1, UseCalls
  <1>10. new \in Seq(Call) /\ Members(new) = Members(one) \cup Members(G) /\ Pairs(new, A)
    <2>1. Across(Members(one), Members(G), A)
      BY <1>5, <1>8, <1>9 DEF Across
    <2> HIDE DEF one, G
    <2> QED
      BY <1>8, <1>9, <2>1, JoinAgree
  <1>11. Across(Members(new), Rest, A)
    <2>1. Across(Members(one), Rest, A) /\ Across(Members(G), Rest, A)
      BY <1>6, <1>7, <1>8, <1>9 DEF Across
    <2> HIDE DEF one, G, new, A
    <2> QED
      BY <1>10, <2>1, AcrossBoth
  <1>12. LineInv' /\ Pending' = Members(new) \cup Rest
    <2>1. todo' = new \o Tail(todo)
      BY <1>1
    <2> HIDE DEF new
    <2> QED
      BY <1>1, <1>10, <1>11, <2>1, StackNext
  <1> QED
    BY <1>1, <1>3, <1>8, <1>9, <1>10, <1>12

LEMMA PassOnNext ==
  ASSUME IInv, PassOn
  PROVE  /\ LineInv' /\ todo # <<>> /\ Now.op = "pass" /\ Pending' = Rest
         /\ UNCHANGED <<slots, timers, down, out, orphan>>
  <1>1. /\ todo # <<>> /\ Now.op = "pass" /\ todo' = Tail(todo) /\ LineInv
        /\ UNCHANGED <<slots, timers, down, out, orphan>>
    BY DEF PassOn, Quiet, Now, IInv
  <1> QED
    BY <1>1, NoneNext

\* What is known of a slot that is being pressed or released.
LEMMA UseNow ==
  ASSUME Grounded, IInv, todo # <<>>, IsUse(Now)
  PROVE  /\ Now \in Call /\ Now.slot \in InUse /\ Now.slot \in Slot
         /\ slots[Now.slot].pos \in Sticky
         /\ Conf(Now.slot).code \in SCode /\ SCode \subseteq Code
         /\ \A y \in Rest : Level(Conf(Now.slot).code) > Floor(y)
  <1>1. Now \in Call /\ Good(Now) /\ \A y \in Rest : Rel(Now, y)
    BY Stack DEF IInv, GoodInv
  <1>2. Now.slot \in InUse /\ slots[Now.slot].pos \in Sticky
    BY <1>1 DEF Good, IInv, SlotInv
  <1> QED
    BY <1>1, <1>2, CallParts DEF Conf, SCode, Rel, InUse

LEMMA RaisedAgree ==
  ASSUME NEW c \in SCode, NEW d \in BOOLEAN, NEW y \in Call, Level(c) > Floor(y),
         IsUse(y) => slots'[y.slot] = slots[y.slot],
         IsUse(y) /\ d => slots[y.slot].modified # None
  PROVE  <<Event(c, d), y>> \in Agree'
  <1>1. /\ Event(c, d) \in Call /\ Event(c, d).op = "event"
        /\ Event(c, d).code = c /\ Event(c, d).down = d
    BY CallParts, CallKinds
  <1>2. Floor(y)' = Floor(y)
    BY DEF Floor
  <1>3. Rel(Event(c, d), y)'
    BY <1>1, <1>2 DEF Rel, IsEvent, IsCode, IsUse, IsDown
  <1> QED
    BY <1>1, <1>3, AgreeIs

LEMMA PressBindingNext ==
  ASSUME Grounded, IInv, PressBinding
  PROVE  /\ LineInv' /\ todo # <<>> /\ Now.op = "press"
         /\ Pending' = {Event(Conf(Now.slot).code, TRUE)} \cup Rest
  <1> DEFINE c == Conf(Now.slot).code
  <1>1. /\ todo # <<>> /\ Now.op = "press" /\ IsUse(Now) /\ LineInv
        /\ todo' = <<Event(c, TRUE)>> \o Tail(todo) /\ slots' = slots
    BY DEF PressBinding, Quiet, Now, IsUse, IInv
  <1>2. c \in SCode /\ \A y \in Rest : Level(c) > Floor(y)
    BY <1>1, UseNow
  <1>3. \A y \in Rest : y \in Call /\ (IsUse(y) => slots[y.slot].modified # None)
    BY <1>1, Stack DEF Rel, IsDown
  <1>4. Event(c, TRUE) \in Call
    BY <1>2, CallParts, CallKinds
  <1>5. ASSUME NEW y \in Rest PROVE <<Event(c, TRUE), y>> \in Agree'
    BY <1>1, <1>2, <1>3, RaisedAgree
  <1> HIDE DEF c
  <1>6. LineInv' /\ Pending' = {Event(c, TRUE)} \cup Rest
    BY <1>1, <1>4, <1>5, OneNext
  <1> QED
    BY <1>1, <1>6 DEF c

LEMMA ReleaseBindingNext ==
  ASSUME Grounded, IInv, ReleaseBinding
  PROVE  /\ LineInv' /\ todo # <<>> /\ Now.op = "release"
         /\ Pending' = {Event(Conf(Now.slot).code, FALSE)} \cup Rest
         /\ \A i \in Slot \ {Now.slot} : slots'[i] = slots[i]
         /\ InUse' = InUse \ {Now.slot}
         /\ \A y \in Rest : IsUse(y) => y.slot # Now.slot
  <1> DEFINE c == Conf(Now.slot).code
  <1>1. /\ todo # <<>> /\ Now.op = "release" /\ IsUse(Now) /\ LineInv
        /\ todo' = <<Event(c, FALSE)>> \o Tail(todo)
        /\ slots' = [slots EXCEPT ![Now.slot] = Free]
    BY DEF ReleaseBinding, Quiet, Now, IsUse, IInv, Cleared
  <1>2. c \in SCode /\ Now.slot \in Slot /\ \A y \in Rest : Level(c) > Floor(y)
    BY <1>1, UseNow
  <1>3. \A y \in Rest : y \in Call /\ (IsUse(y) => y.slot # Now.slot /\ y.slot \in Slot)
    BY <1>1, Stack, CallParts DEF Rel, IsUse
  <1>4. /\ \A i \in Slot \ {Now.slot} : slots'[i] = slots[i]
        /\ slots'[Now.slot] = Free
    BY <1>1, <1>2 DEF IInv, TypeOK
  <1>5. InUse' = InUse \ {Now.slot}
    BY <1>4 DEF InUse, Free
  <1>6. Event(c, FALSE) \in Call
    BY <1>2, CallParts, CallKinds
  <1>7. ASSUME NEW y \in Rest PROVE <<Event(c, FALSE), y>> \in Agree'
    BY <1>2, <1>3, <1>4, RaisedAgree
  <1>8. \A y \in Rest : IsUse(y) => slots'[y.slot] = slots[y.slot]
    BY <1>3, <1>4
  <1> HIDE DEF c
  <1>9. LineInv' /\ Pending' = {Event(c, FALSE)} \cup Rest
    BY <1>1, <1>6, <1>7, <1>8, OneNext
  <1> QED
    BY <1>1, <1>3, <1>4, <1>5, <1>9 DEF c

LEMMA LeastSlot ==
  ASSUME NEW F \in SUBSET Nat, F # {}
  PROVE  \E j \in F : \A n \in F : j <= n
  <1> DEFINE R == OpToRel(<, Nat)
  <1>0. IsWellFoundedOn(R, Nat)
    BY NatLessThanWellFounded, Zenon
  <1>1. \A m, n \in Nat : m < n => <<m, n>> \in R
    BY DEF OpToRel
  <1> HIDE DEF R
  <1>2. PICK j \in F : \A n \in F : ~(<<n, j>> \in R)
    BY <1>0, WFMin
  <1>3. ASSUME NEW n \in F PROVE j <= n
    <2>1. ~(n < j) /\ n \in Nat /\ j \in Nat
      BY <1>1, <1>2
    <2> QED
      BY <2>1
  <1> QED
    BY <1>3

LEMMA StoreSlotNext ==
  ASSUME IInv, StoreSlot
  PROVE  /\ LineInv' /\ todo # <<>> /\ Rest = {} /\ Now.op = "store" /\ Now.pos \in Sticky
         /\ Now.pos \in down /\ Found(Now.pos) = {}
         /\ \/ slots' = slots /\ Pending' = {}
            \/ \E i \in Slot \ InUse :
                 /\ slots' = [slots EXCEPT ![i] = NewSlot(Now.pos)]
                 /\ Pending' = IF Setup[Now.pos].lazy THEN {} ELSE {PressSlot(i)}
  <1>1. /\ todo # <<>> /\ Now.op = "store" /\ LineInv
        /\ \/ todo' = Tail(todo) /\ slots' = slots /\ InUse = Slot
           \/ /\ InUse # Slot
              /\ LET i == CHOOSE j \in Slot \ InUse : \A n \in Slot \ InUse : j <= n IN
                 /\ slots' = [slots EXCEPT ![i] = NewSlot(Now.pos)]
                 /\ todo' = (IF Setup[Now.pos].lazy THEN <<>> ELSE <<PressSlot(i)>>) \o Tail(todo)
    BY DEF StoreSlot, Quiet, Now, IInv
  <1>2. /\ Now \in Call /\ Rest \subseteq Call /\ Pending = {Now} \cup Rest
        /\ \A y \in Rest : Rel(Now, y)
    BY <1>1, Stack
  <1>3. Rest = {}
    BY <1>1, <1>2 DEF Rel
  <1>4. Now.pos \in Sticky /\ Now.pos \in down /\ Found(Now.pos) = {}
    <2>1. /\ Now.pos \in Sticky /\ Now.pos \in down
          /\ \A i \in Found(Now.pos) : ReleaseSlot(i) = Now
      BY <1>1, <1>2, <1>3, CallParts DEF IInv, GoodInv, Good
    <2>2. \A i \in Found(Now.pos) : ReleaseSlot(i).op = "release"
      BY CallKinds DEF Found, InUse
    <2> QED
      BY <1>1, <2>1, <2>2
  <1>5. CASE todo' = Tail(todo) /\ slots' = slots
    BY <1>1, <1>3, <1>4, <1>5, NoneNext
  <1>6. CASE /\ InUse # Slot
             /\ LET i == CHOOSE j \in Slot \ InUse : \A n \in Slot \ InUse : j <= n IN
                /\ slots' = [slots EXCEPT ![i] = NewSlot(Now.pos)]
                /\ todo' = (IF Setup[Now.pos].lazy THEN <<>> ELSE <<PressSlot(i)>>) \o Tail(todo)
    <2> DEFINE F == Slot \ InUse
               i == CHOOSE j \in F : \A n \in F : j <= n
    <2>1. F \subseteq Nat /\ F # {}
      BY <1>6, StickyAssumption DEF Slot, InUse
    <2>2. i \in F
      <3> HIDE DEF F
      <3>1. \E j \in F : \A n \in F : j <= n
        BY <2>1, LeastSlot
      <3> QED
        BY <3>1
    <2>3. /\ slots' = [slots EXCEPT ![i] = NewSlot(Now.pos)]
          /\ todo' = (IF Setup[Now.pos].lazy THEN <<>> ELSE <<PressSlot(i)>>) \o Tail(todo)
      BY <1>6
    <2> HIDE DEF i
    <2>4. CASE Setup[Now.pos].lazy
      <3>1. todo \in Seq(Call) /\ Tail(todo) \in Seq(Call)
        BY <1>1, FirstAndRest DEF LineInv
      <3>2. todo' = Tail(todo)
        BY <2>3, <2>4, <3>1
      <3>3. LineInv' /\ Pending' = {}
        BY <1>1, <1>3, <3>2, NoneNext
      <3> QED
        BY <1>1, <1>3, <1>4, <2>2, <2>3, <2>4, <3>3
    <2>5. CASE ~Setup[Now.pos].lazy
      <3>1. todo' = <<PressSlot(i)>> \o Tail(todo) /\ PressSlot(i) \in Call
        BY <2>2, <2>3, <2>5, CallKinds
      <3>2. LineInv' /\ Pending' = {PressSlot(i)}
        BY <1>1, <1>3, <3>1, OneNext
      <3> QED
        BY <1>1, <1>3, <1>4, <2>2, <2>3, <2>5, <3>2
    <2> QED
      BY <2>4, <2>5
  <1> QED
    BY <1>1, <1>5, <1>6


-----------------------------------------------------------------------------
(* What a step leaves as it was *)

SlotType == [used : BOOLEAN, pos : Sticky \cup {None}, started : BOOLEAN,
             due : BOOLEAN, late : BOOLEAN, modified : Code \cup {None}]

LEMMA SlotTypes ==
  /\ TypeOK => slots \in [Slot -> SlotType]
  /\ Free \in SlotType
  /\ \A p \in Sticky : NewSlot(p) \in SlotType
  /\ \A x \in SlotType, c \in Code : [x EXCEPT !.modified = c] \in SlotType
  /\ \A p \in Sticky : /\ NewSlot(p).used /\ NewSlot(p).pos = p /\ ~NewSlot(p).started
                       /\ NewSlot(p).modified = None
  <1>1. Free \in SlotType
    BY DEF Free, SlotType
  <1>2. \A p \in Sticky : /\ NewSlot(p) \in SlotType /\ NewSlot(p).used /\ NewSlot(p).pos = p
                          /\ ~NewSlot(p).started /\ NewSlot(p).modified = None
    BY DEF NewSlot, Free, SlotType
  <1>3. \A x \in SlotType, c \in Code : [x EXCEPT !.modified = c] \in SlotType
    BY DEF SlotType
  <1> QED
    BY <1>1, <1>2, <1>3 DEF TypeOK, SlotType

\* An outer call is as good as before, if its slots are and something still holds
\* its keycode.
LEMMA GoodRest ==
  ASSUME IInv, todo # <<>>, NEW y \in Rest, Rest \subseteq Pending',
         InUse' \subseteq InUse, \A i \in InUse' : slots'[i].pos = slots[i].pos,
         IsUse(y) => slots'[y.slot] = slots[y.slot],
         y.op = "pass" => \A i \in InUse : slots[i].modified = y.code /\ slots[i].pos \in y.want
                                             => slots'[i] = slots[i],
         Now.op = "release" => Now.slot \notin InUse',
         down' = down, IsEvent(y) /\ y.down => Held(y.code)'
  PROVE  Good(y)'
  <1>1. y \in Call /\ y \in Pending /\ Pending = {Now} \cup Rest /\ Good(y)
    BY Stack DEF IInv, GoodInv
  <1>2. ASSUME IsUse(y)
        PROVE  /\ y.slot \in InUse'
               /\ y.op = "press" /\ Conf(y.slot)'.lazy => slots'[y.slot].modified # None
    BY <1>1, <1>2 DEF Good, InUse, Conf
  <1>3. ASSUME y.op = "pass", NEW p \in y.want
        PROVE  \E i \in Found(p)' : slots'[i].modified = y.code
    <2>1. PICK i \in Found(p) : slots[i].modified = y.code
      BY <1>1, <1>3 DEF Good
    <2>2. slots'[i] = slots[i]
      BY <1>3, <2>1 DEF Found
    <2> QED
      BY <2>1, <2>2 DEF Found, InUse
  <1>4. ASSUME y.op = "store"
        PROVE  y.pos \in down' /\ \A i \in Found(y.pos)' : ReleaseSlot(i) \in Pending'
    <2>1. y.pos \in down'
      BY <1>1, <1>4 DEF Good
    <2>2. ASSUME NEW i \in Found(y.pos)' PROVE ReleaseSlot(i) \in Pending'
      <3>1. i \in Found(y.pos) /\ i \in InUse' /\ i \in Slot
        BY <2>2 DEF Found, InUse
      <3>2. ReleaseSlot(i) \in Pending
        BY <1>1, <1>4, <3>1 DEF Good
      <3>3. ReleaseSlot(i) # Now
        BY <3>1, CallKinds
      <3> QED
        BY <1>1, <3>2, <3>3
    <2> QED
      BY <2>1, <2>2
  <1> QED
    BY <1>2, <1>3, <1>4 DEF Good, IsUse, IsEvent, Conf

\* No binding was pressed or released.
LEMMA OutSame ==
  ASSUME IInv, UNCHANGED <<out, orphan>>, InUse' \subseteq InUse,
         \A i \in InUse' : slots'[i].pos = slots[i].pos /\ (Pressed(i)' <=> Pressed(i)),
         \A i \in InUse \ InUse' : ~Pressed(i)
  PROVE  OutInv'
  <1>1. ASSUME NEW p \in Sticky
        PROVE  (\E i \in Found(p)' : Pressed(i)') <=> (\E i \in Found(p) : Pressed(i))
    <2>1. ASSUME NEW i \in Found(p)', Pressed(i)' PROVE i \in Found(p) /\ Pressed(i)
      BY <2>1 DEF Found
    <2>2. ASSUME NEW i \in Found(p), Pressed(i) PROVE i \in Found(p)' /\ Pressed(i)'
      BY <2>2 DEF Found
    <2> QED
      BY <2>1, <2>2
  <1>2. ASSUME NEW p \in Sticky
        PROVE  out'[p] = IF \E i \in Found(p)' : Pressed(i)' THEN 1 ELSE 0
    BY <1>1 DEF IInv, OutInv
  <1>3. \A p \in orphan' : Setup[p].lazy
    BY DEF IInv, OutInv
  <1> QED
    BY <1>2, <1>3 DEF OutInv

LEMMA PressedSame ==
  ASSUME NEW i \in Slot, slots'[i].pos = slots[i].pos,
         Conf(i).lazy => (slots'[i].modified = None <=> slots[i].modified = None),
         PressSlot(i) \in Pending' <=> PressSlot(i) \in Pending
  PROVE  Pressed(i)' <=> Pressed(i)
  BY DEF Pressed, Conf

\* What would end a slot still does.
LEMMA StartSame ==
  ASSUME IInv, NEW i \in InUse, slots'[i].pos = slots[i].pos,
         slots'[i].started = slots[i].started, slots'[i].late = slots[i].late,
         slots'[i].modified = slots[i].modified, slots[i].pos \in down => slots[i].pos \in down',
         Leaves(i) => Leaves(i)', i \in timers => i \in timers' \/ Leaves(i)',
         NEW m, m = slots[i].modified,
         slots[i].started /\ m # None /\ (Held(m) \/ EndsSoon(m))
           => Held(m)' \/ EndsSoon(m)' \/ Leaves(i)'
  PROVE  StartOf(i)'
  <1>1. StartOf(i)
    BY DEF IInv, StartInv
  <1>2. slots'[i].modified = m
    OBVIOUS
  <1>3. slots'[i].started /\ slots'[i].modified # None =>
          Leaves(i)' \/ Held(m)' \/ EndsSoon(m)'
    BY <1>1 DEF StartOf
  <1>4. slots'[i].started /\ slots'[i].modified # None =>
          Leaves(i)' \/ Held(slots[i].modified)' \/ EndsSoon(slots[i].modified)'
    BY <1>2, <1>3 DEF Held, EndsSoon
  <1> QED
    BY <1>1, <1>4 DEF StartOf


-----------------------------------------------------------------------------
(* Each step keeps the invariant *)

LEMMA HandleEventKeeps ==
  ASSUME Grounded, IInv, HandleEvent
  PROVE  IInv'
  <1>1. todo # <<>> /\ Now.op = "event" /\ IsEvent(Now) /\ LineInv'
    BY HandleEventNext DEF HandleEvent, Quiet, Now, IsEvent
  <1>2. PICK late : EventDone(late)
    BY HandleEventNext
  <1>3. /\ Now \in Call /\ Rest \subseteq Call /\ Pending = {Now} \cup Rest
        /\ \A y \in Rest : Rel(Now, y)
    BY <1>1, Stack DEF IInv
  <1>4. /\ late \in SUBSET InUse /\ late \subseteq Catches(Now.code) /\ (late # {} => Now.down)
        /\ slots' = Forgotten(late) /\ timers' = timers \ late
        /\ Pending' = {ReleaseSlot(i) : i \in OthersOf(late)} \cup {Listen(Now.code, Now.down)}
                        \cup Rest
        /\ UNCHANGED <<down, out, orphan, reach>>
    BY <1>2 DEF EventDone
  <1>5. /\ InUse' = InUse \ LazyOf(late) /\ InUse \subseteq Slot
        /\ \A i \in LazyOf(late) : slots'[i] = Free
        /\ \A i \in Slot \ LazyOf(late) : slots'[i] = slots[i]
    BY <1>4, ForgottenIs DEF IInv, InUse
  <1>6. /\ Now.code \in Code /\ Now.code # None /\ Now.down \in BOOLEAN
        /\ \A i \in late : slots[i].modified = None /\ i \in InUse
        /\ LazyOf(late) \subseteq late /\ OthersOf(late) \subseteq late
    BY <1>1, <1>4, EventNow DEF LazyOf, OthersOf
  <1>7. ASSUME NEW y \in Rest, IsUse(y) PROVE slots'[y.slot] = slots[y.slot]
    <2>1. y.slot \in InUse /\ (Now.down => slots[y.slot].modified # None)
      BY <1>1, <1>7, EventNow
    <2> QED
      BY <1>4, <1>5, <1>6, <2>1
  <1>8. PICK l : l = Listen(Now.code, Now.down)
    OBVIOUS
  <1>9. l \in Call /\ l.op = "listen" /\ l.code = Now.code /\ l.down = Now.down
    BY <1>6, <1>8, CallKinds
  <1>10. ASSUME NEW i \in Slot
         PROVE  /\ PressSlot(i) \in Pending' <=> PressSlot(i) \in Pending
                /\ ReleaseSlot(i) \in Pending => ReleaseSlot(i) \in Pending'
                /\ ReleaseSlot(i) \in Pending' => i \in OthersOf(late) \/ ReleaseSlot(i) \in Pending
    <2>1. PressSlot(i).op = "press" /\ ReleaseSlot(i).op = "release" /\ ReleaseSlot(i).slot = i
      BY CallKinds
    <2>2. \A j \in OthersOf(late) : ReleaseSlot(j).op = "release" /\ ReleaseSlot(j).slot = j
      BY <1>5, <1>6, CallKinds
    <2>3. PressSlot(i) # Now /\ ReleaseSlot(i) # Now /\ PressSlot(i) # l /\ ReleaseSlot(i) # l
      BY <1>1, <1>9, <2>1
    <2> QED
      BY <1>3, <1>4, <1>8, <2>1, <2>2, <2>3
  <1>11. TypeOK'
    <2>1. \A i \in Slot : slots'[i] \in SlotType
      BY <1>5, SlotTypes DEF IInv
    <2>2. slots' \in [Slot -> SlotType]
      BY <1>4, <2>1 DEF Forgotten
    <2> QED
      BY <1>4, <2>2 DEF IInv, TypeOK, SlotType
  <1>12. SlotInv'
    BY <1>5 DEF IInv, SlotInv
  <1>13. GoodInv'
    <2> SUFFICES ASSUME NEW x \in Pending' PROVE Good(x)'
      BY DEF GoodInv
    <2>1. CASE x \in Rest
      <3>1. IsEvent(x) /\ x.down => Held(x.code)'
        BY <1>3, <1>4, <2>1 DEF IInv, GoodInv, Good, Held
      <3>2. \A i \in InUse : slots[i].modified # None => slots'[i] = slots[i]
        BY <1>5, <1>6
      <3>3. x.op = "pass" => \A i \in InUse : slots[i].modified = x.code => slots'[i] = slots[i]
        BY <1>3, <2>1, <3>2, CallParts DEF IsCode
      <3>4. Rest \subseteq Pending' /\ InUse' \subseteq InUse /\ down' = down
              /\ \A i \in InUse' : slots'[i].pos = slots[i].pos
        BY <1>4, <1>5
      <3> QED
        BY <1>1, <1>7, <2>1, <3>1, <3>3, <3>4, GoodRest
    <2>2. CASE x = l
      <3>1. x.down => Held(x.code)
        BY <1>1, <1>3, <1>9, <2>2 DEF IInv, GoodInv, Good
      <3>2. x.down => Held(x.code)'
        BY <1>4, <3>1 DEF Held
      <3> QED
        BY <1>9, <2>2, <3>2 DEF Good, IsUse
    <2>3. ASSUME NEW i \in OthersOf(late), x = ReleaseSlot(i) PROVE Good(x)'
      <3>1. x.op = "release" /\ x.slot = i /\ i \in InUse'
        BY <1>5, <1>6, <2>3, CallKinds DEF LazyOf, OthersOf
      <3> QED
        BY <3>1 DEF Good, IsUse, IsEvent
    <2> QED
      BY <1>4, <1>8, <2>1, <2>2, <2>3
  <1>14. OutInv'
    <2>1. ASSUME NEW i \in InUse' PROVE slots'[i].pos = slots[i].pos /\ (Pressed(i)' <=> Pressed(i))
      BY <1>5, <1>10, PressedSame
    <2>2. ASSUME NEW i \in InUse \ InUse' PROVE ~Pressed(i)
      BY <1>5, <1>6 DEF Pressed, LazyOf
    <2> QED
      BY <1>4, <1>5, <2>1, <2>2, OutSame
  <1>15. TimerInv'
    <2> SUFFICES ASSUME NEW i \in timers'
                 PROVE  /\ i \in InUse' /\ slots'[i].started /\ slots'[i].modified = None
                        /\ PressSlot(i) \notin Pending' /\ ReleaseSlot(i) \notin Pending'
      BY DEF TimerInv
    <2>1. /\ i \in InUse /\ i \notin late /\ slots[i].started /\ slots[i].modified = None
          /\ PressSlot(i) \notin Pending /\ ReleaseSlot(i) \notin Pending
      BY <1>4 DEF IInv, TimerInv
    <2> QED
      BY <1>5, <1>6, <1>10, <2>1
  <1>16. StartInv'
    <2> SUFFICES ASSUME NEW i \in InUse' PROVE StartOf(i)'
      BY DEF StartInv
    <2>1. i \in InUse /\ i \in Slot /\ slots'[i] = slots[i] /\ (i \in late => i \in OthersOf(late))
      BY <1>5, <1>6 DEF LazyOf, OthersOf
    <2>2. Leaves(i) => Leaves(i)'
      BY <1>10, <2>1 DEF Leaves
    <2>3. i \in timers => i \in timers' \/ Leaves(i)'
      BY <1>4, <2>1 DEF Leaves
    <2>4. PICK m : m = slots[i].modified
      OBVIOUS
    <2>5. ASSUME EndsSoon(m) PROVE EndsSoon(m)'
      <3>1. PICK x \in Pending : IsEvent(x) /\ ~x.down /\ x.code = m
        BY <2>5 DEF EndsSoon
      <3>2. CASE x = Now
        BY <1>4, <1>8, <1>9, <3>1, <3>2 DEF EndsSoon, IsEvent
      <3>3. CASE x \in Rest
        BY <1>4, <3>1, <3>3 DEF EndsSoon
      <3> QED
        BY <1>3, <3>2, <3>3
    <2>6. Held(m) \/ EndsSoon(m) => Held(m)' \/ EndsSoon(m)' \/ Leaves(i)'
      BY <1>4, <2>5 DEF Held
    <2> QED
      BY <1>4, <2>1, <2>2, <2>3, <2>4, <2>6, StartSame
  <1> QED
    BY <1>1, <1>11, <1>12, <1>13, <1>14, <1>15, <1>16 DEF IInv


LEMMA ListenDownKeeps ==
  ASSUME Grounded, IInv, ListenDown
  PROVE  IInv'
  <1> DEFINE S == Catches(Now.code)
  <1>1. /\ todo # <<>> /\ IsEvent(Now) /\ Now.down /\ LineInv'
        /\ Pending' = {PressSlot(i) : i \in LazyOf(S)} \cup {Pass(Now.code, TRUE, WantOf(S))}
                         \cup {ReleaseSlot(i) : i \in Quick(S)} \cup Rest
    BY ListenDownNext
  <1>2. UNCHANGED <<down, out, orphan, reach>> /\ timers' = timers \ S
    BY DEF ListenDown, Stopped, Now
  <1>3. /\ Now \in Call /\ Rest \subseteq Call /\ Pending = {Now} \cup Rest
        /\ \A y \in Rest : Rel(Now, y)
    BY <1>1, Stack DEF IInv
  <1>4. /\ Now.code \in Code /\ Now.code # None /\ S \subseteq InUse /\ InUse \subseteq Slot
        /\ \A i \in S : /\ slots[i].pos \in Sticky /\ slots[i].modified = None
                        /\ MayCatch(slots[i].pos, Now.code)
        /\ \A y \in Rest : IsUse(y) => y.slot \in InUse /\ slots[y.slot].modified # None
    BY <1>1, EventNow
  <1>5. /\ InUse' = InUse
        /\ \A i \in Slot \ S : slots'[i] = slots[i]
        /\ \A i \in Slot : /\ slots'[i].pos = slots[i].pos /\ slots'[i].used = slots[i].used
                           /\ slots'[i].started = slots[i].started
                           /\ slots'[i].late = slots[i].late
        /\ \A i \in S : slots'[i].modified = Now.code
    BY PutToUse
  <1>6. LazyOf(S) \subseteq S /\ Quick(S) \subseteq S /\ WantOf(S) \in SUBSET Sticky
    BY <1>4 DEF LazyOf, Quick, WantOf
  <1>7. \A y \in Rest : IsUse(y) => slots'[y.slot] = slots[y.slot]
    BY <1>4, <1>5
  <1>8. PICK w : w = Pass(Now.code, TRUE, WantOf(S))
    OBVIOUS
  <1>9. w \in Call /\ w.op = "pass" /\ w.code = Now.code /\ w.want = WantOf(S)
    <2>1. PICK c, v : c = Now.code /\ v = WantOf(S)
      OBVIOUS
    <2>2. c \in Code /\ v \in SUBSET Sticky /\ w = Pass(c, TRUE, v)
      BY <1>4, <1>6, <1>8, <2>1
    <2>3. w \in Call /\ w.op = "pass" /\ w.code = c /\ w.want = v
      BY <2>2 DEF Pass, PassCall, Call
    <2> QED
      BY <2>1, <2>3
  <1> HIDE DEF S
  <1>pending. \A x : x \in Pending' <=> \/ x \in Rest \/ x = w
                                \/ (\E j \in LazyOf(S) : x = PressSlot(j))
                                \/ (\E j \in Quick(S) : x = ReleaseSlot(j))
    BY <1>1, <1>8
  <1>10. ASSUME NEW i \in Slot
         PROVE  /\ PressSlot(i) \in Pending' <=> i \in LazyOf(S) \/ PressSlot(i) \in Pending
                /\ ReleaseSlot(i) \in Pending => ReleaseSlot(i) \in Pending'
                /\ ReleaseSlot(i) \in Pending' => i \in Quick(S) \/ ReleaseSlot(i) \in Pending
    <2>1. /\ PressSlot(i).op = "press" /\ PressSlot(i).slot = i
          /\ ReleaseSlot(i).op = "release" /\ ReleaseSlot(i).slot = i
      BY CallKinds
    <2>2. \A j \in S : /\ ReleaseSlot(j).op = "release" /\ ReleaseSlot(j).slot = j
                       /\ PressSlot(j).op = "press" /\ PressSlot(j).slot = j
      BY <1>4, CallKinds
    <2>3. PressSlot(i) # Now /\ ReleaseSlot(i) # Now /\ PressSlot(i) # w /\ ReleaseSlot(i) # w
      BY <1>1, <1>9, <2>1 DEF IsEvent
    <2>4. PressSlot(i) \in Pending' <=> i \in LazyOf(S) \/ PressSlot(i) \in Pending
      <3>1. ASSUME PressSlot(i) \in Pending', PressSlot(i) \notin Rest PROVE i \in LazyOf(S)
        <4>1. PICK j \in LazyOf(S) : PressSlot(i) = PressSlot(j)
          BY <1>6, <1>pending, <2>1, <2>2, <2>3, <3>1
        <4> QED
          BY <1>6, <2>1, <2>2, <4>1
      <3> QED
        BY <1>3, <1>pending, <2>3, <3>1
    <2>5. ReleaseSlot(i) \in Pending => ReleaseSlot(i) \in Pending'
      BY <1>1, <1>3, <2>3
    <2>6. ReleaseSlot(i) \in Pending' => i \in Quick(S) \/ ReleaseSlot(i) \in Pending
      <3>1. ASSUME ReleaseSlot(i) \in Pending', ReleaseSlot(i) \notin Rest PROVE i \in Quick(S)
        <4>1. PICK j \in Quick(S) : ReleaseSlot(i) = ReleaseSlot(j)
          BY <1>6, <1>pending, <2>1, <2>2, <2>3, <3>1
        <4> QED
          BY <1>6, <2>1, <2>2, <4>1
      <3> QED
        BY <1>3, <1>pending, <2>3, <3>1
    <2> QED
      BY <2>4, <2>5, <2>6
  <1>11. TypeOK'
    <2>1. \A i \in Slot : slots'[i] = IF i \in S THEN [slots[i] EXCEPT !.modified = Now.code]
                                      ELSE slots[i]
      BY DEF ListenDown, Now, S
    <2>2. ASSUME NEW i \in Slot PROVE slots'[i] \in SlotType
      <3>1. slots[i] \in SlotType
        BY SlotTypes DEF IInv
      <3>2. [slots[i] EXCEPT !.modified = Now.code] \in SlotType
        BY <1>4, <3>1, SlotTypes
      <3> QED
        BY <2>1, <3>1, <3>2
    <2>3. slots' \in [Slot -> SlotType]
      BY <2>2 DEF ListenDown
    <2> QED
      BY <1>2, <2>3 DEF IInv, TypeOK, SlotType
  <1>12. SlotInv'
    BY <1>4, <1>5 DEF IInv, SlotInv
  <1>13. GoodInv'
    <2> SUFFICES ASSUME NEW x \in Pending' PROVE Good(x)'
      BY DEF GoodInv
    <2>1. CASE x \in Rest
      <3>1. IsEvent(x) /\ x.down => Held(x.code)'
        BY <1>2, <1>3, <2>1 DEF IInv, GoodInv, Good, Held
      <3>2. \A i \in InUse : slots[i].modified # None => slots'[i] = slots[i]
        BY <1>4, <1>5
      <3>3. x.op = "pass" => \A i \in InUse : slots[i].modified = x.code => slots'[i] = slots[i]
        BY <1>3, <2>1, <3>2, CallParts DEF IsCode
      <3>4. Rest \subseteq Pending' /\ InUse' \subseteq InUse /\ down' = down
              /\ (\A i \in InUse' : slots'[i].pos = slots[i].pos) /\ Now.op # "release"
        BY <1>1, <1>2, <1>4, <1>5 DEF IsEvent
      <3> QED
        BY <1>1, <1>7, <2>1, <3>1, <3>3, <3>4, GoodRest
    <2>2. CASE x = w
      <3>1. ASSUME NEW p \in x.want PROVE \E i \in Found(p)' : slots'[i].modified = x.code
        <4>1. PICK i \in S : slots[i].pos = p
          BY <1>9, <2>2, <3>1 DEF WantOf
        <4>2. i \in Found(p)' /\ slots'[i].modified = x.code
          BY <1>4, <1>5, <1>9, <2>2, <4>1 DEF Found
        <4> QED
          BY <4>2
      <3> QED
        BY <1>9, <2>2, <3>1 DEF Good, IsUse, IsEvent
    <2>3. ASSUME NEW i \in Quick(S), x = ReleaseSlot(i) PROVE Good(x)'
      <3>1. x.op = "release" /\ x.slot = i /\ i \in InUse'
        BY <1>4, <1>5, <1>6, <2>3, CallKinds
      <3> QED
        BY <3>1 DEF Good, IsUse, IsEvent
    <2>4. ASSUME NEW i \in LazyOf(S), x = PressSlot(i) PROVE Good(x)'
      <3>1. x.op = "press" /\ x.slot = i /\ i \in InUse' /\ slots'[i].modified # None
        BY <1>4, <1>5, <1>6, <2>4, CallKinds
      <3> QED
        BY <3>1 DEF Good, IsUse, IsEvent
    <2> QED
      BY <1>1, <1>8, <2>1, <2>2, <2>3, <2>4
  <1>14. OutInv'
    <2>1. ASSUME NEW i \in InUse' PROVE slots'[i].pos = slots[i].pos /\ (Pressed(i)' <=> Pressed(i))
      <3>1. i \in Slot /\ i \in InUse /\ slots'[i].pos = slots[i].pos
        BY <1>4, <1>5
      <3>2. CASE i \notin S
        <4>1. PressSlot(i) \in Pending' <=> PressSlot(i) \in Pending
          BY <1>6, <1>10, <3>1, <3>2
        <4> QED
          BY <1>5, <3>1, <3>2, <4>1, PressedSame
      <3>3. CASE i \in S /\ ~Conf(i).lazy
        <4>1. PressSlot(i) \in Pending' <=> PressSlot(i) \in Pending
          BY <1>10, <3>1, <3>3 DEF LazyOf
        <4> QED
          BY <3>1, <3>3, <4>1, PressedSame
      <3>4. CASE i \in S /\ Conf(i).lazy
        <4>1. PressSlot(i) \in Pending'
          BY <1>10, <3>1, <3>4 DEF LazyOf
        <4> QED
          BY <1>4, <3>1, <3>4, <4>1 DEF Pressed
      <3> QED
        BY <3>1, <3>2, <3>3, <3>4
    <2> QED
      BY <1>2, <1>5, <2>1, OutSame
  <1>15. TimerInv'
    <2> SUFFICES ASSUME NEW i \in timers'
                 PROVE  /\ i \in InUse' /\ slots'[i].started /\ slots'[i].modified = None
                        /\ PressSlot(i) \notin Pending' /\ ReleaseSlot(i) \notin Pending'
      BY DEF TimerInv
    <2>1. /\ i \in InUse /\ i \notin S /\ slots[i].started /\ slots[i].modified = None
          /\ PressSlot(i) \notin Pending /\ ReleaseSlot(i) \notin Pending
      BY <1>2 DEF IInv, TimerInv
    <2> QED
      BY <1>4, <1>5, <1>6, <1>10, <2>1
  <1>16. StartInv'
    <2> SUFFICES ASSUME NEW i \in InUse' PROVE StartOf(i)'
      BY DEF StartInv
    <2>1. i \in InUse /\ i \in Slot
      BY <1>4, <1>5
    <2>2. Leaves(i) => Leaves(i)'
      BY <1>10, <2>1 DEF Leaves
    <2>3. CASE i \in S
      <3>1. Held(Now.code)
        BY <1>1, <1>3 DEF IInv, GoodInv, Good
      <3>2. PICK m : m = Now.code
        OBVIOUS
      <3>3. Held(m)'
        BY <1>2, <3>1, <3>2 DEF Held
      <3>4. slots'[i].modified = m /\ m # None
        BY <1>4, <1>5, <2>3, <3>2
      <3>5. Held(slots[i].modified)'
        BY <3>3, <3>4 DEF Held
      <3>6. slots'[i].pos \in down' \/ slots'[i].started \/ Leaves(i)'
        BY <1>2, <1>5, <2>1, <2>2 DEF IInv, StartInv, StartOf
      <3> QED
        BY <3>4, <3>5, <3>6 DEF StartOf
    <2>4. CASE i \notin S
      <3>1. slots'[i] = slots[i] /\ (i \in timers => i \in timers')
        BY <1>2, <1>5, <2>1, <2>4
      <3>2. PICK m : m = slots[i].modified
        OBVIOUS
      <3>3. ASSUME EndsSoon(m) PROVE EndsSoon(m)'
        <4>1. PICK x \in Pending : IsEvent(x) /\ ~x.down /\ x.code = m
          BY <3>3 DEF EndsSoon
        <4>2. x \in Rest
          BY <1>1, <1>3, <4>1
        <4> QED
          BY <1>1, <4>1, <4>2 DEF EndsSoon
      <3>4. Held(m) => Held(m)'
        BY <1>2 DEF Held
      <3> QED
        BY <1>2, <2>1, <2>2, <3>1, <3>2, <3>3, <3>4, StartSame
    <2> QED
      BY <2>3, <2>4
  <1> QED
    BY <1>1, <1>11, <1>12, <1>13, <1>14, <1>15, <1>16 DEF IInv

LEMMA ListenUpKeeps ==
  ASSUME Grounded, IInv, ListenUp
  PROVE  IInv'
  <1> DEFINE S == Ends(Now.code)
  <1>1. /\ todo # <<>> /\ IsEvent(Now) /\ ~Now.down /\ LineInv' /\ S \subseteq InUse
        /\ Pending' = {Pass(Now.code, FALSE, {})} \cup {ReleaseSlot(i) : i \in S} \cup Rest
    BY ListenUpNext
  <1>2. UNCHANGED <<slots, down, out, orphan, reach>> /\ timers' = timers \ S
    BY DEF ListenUp, Stopped, Now
  <1>3. /\ Now \in Call /\ Rest \subseteq Call /\ Pending = {Now} \cup Rest
        /\ \A y \in Rest : Rel(Now, y)
    BY <1>1, Stack DEF IInv
  <1>4. Now.code \in Code /\ Now.code # None /\ InUse \subseteq Slot
    BY <1>1, EventNow
  <1>5. PICK w : w = Pass(Now.code, FALSE, {})
    OBVIOUS
  <1>6. w \in Call /\ w.op = "pass" /\ w.want = {}
    <2>1. \A c \in Code, d \in BOOLEAN, v \in SUBSET Sticky :
            Pass(c, d, v) \in Call /\ Pass(c, d, v).op = "pass" /\ Pass(c, d, v).want = v
      BY PassKind
    <2> QED
      BY <1>4, <1>5, <2>1
  <1> HIDE DEF S
  <1>7. ASSUME NEW i \in Slot
        PROVE  /\ PressSlot(i) \in Pending' <=> PressSlot(i) \in Pending
               /\ ReleaseSlot(i) \in Pending => ReleaseSlot(i) \in Pending'
               /\ ReleaseSlot(i) \in Pending' => i \in S \/ ReleaseSlot(i) \in Pending
    <2>1. PressSlot(i).op = "press" /\ ReleaseSlot(i).op = "release" /\ ReleaseSlot(i).slot = i
      BY CallKinds
    <2>2. \A j \in S : ReleaseSlot(j).op = "release" /\ ReleaseSlot(j).slot = j
      BY <1>1, <1>4, CallKinds
    <2>3. PressSlot(i) # Now /\ ReleaseSlot(i) # Now /\ PressSlot(i) # w /\ ReleaseSlot(i) # w
      BY <1>1, <1>6, <2>1 DEF IsEvent
    <2>4. \A x : x \in Pending' <=> x \in Rest \/ x = w \/ \E j \in S : x = ReleaseSlot(j)
      BY <1>1, <1>5
    <2>5. ASSUME ReleaseSlot(i) \in Pending', ReleaseSlot(i) \notin Rest PROVE i \in S
      <3>1. PICK j \in S : ReleaseSlot(i) = ReleaseSlot(j)
        BY <2>3, <2>4, <2>5
      <3> QED
        BY <2>1, <2>2, <3>1
    <2>6. PressSlot(i) \in Pending' <=> PressSlot(i) \in Pending
      BY <1>3, <2>1, <2>2, <2>3, <2>4
    <2> QED
      BY <1>3, <2>3, <2>4, <2>5, <2>6
  <1>8. TypeOK' /\ SlotInv'
    BY <1>2 DEF IInv, TypeOK, SlotInv, InUse
  <1>9. GoodInv'
    <2> SUFFICES ASSUME NEW x \in Pending' PROVE Good(x)'
      BY DEF GoodInv
    <2>1. CASE x \in Rest
      <3>1. IsEvent(x) /\ x.down => Held(x.code)'
        BY <1>2, <1>3, <2>1 DEF IInv, GoodInv, Good, Held
      <3>2. /\ Rest \subseteq Pending' /\ InUse' = InUse /\ down' = down /\ Now.op # "release"
            /\ slots' = slots
        BY <1>1, <1>2 DEF IsEvent, InUse
      <3> QED
        BY <1>1, <2>1, <3>1, <3>2, GoodRest
    <2>2. CASE x = w
      BY <1>6, <2>2 DEF Good, IsUse, IsEvent
    <2>3. ASSUME NEW i \in S, x = ReleaseSlot(i) PROVE Good(x)'
      <3>1. x.op = "release" /\ x.slot = i /\ i \in InUse'
        BY <1>1, <1>2, <1>4, <2>3, CallKinds DEF InUse
      <3> QED
        BY <3>1 DEF Good, IsUse, IsEvent
    <2> QED
      BY <1>1, <1>5, <2>1, <2>2, <2>3
  <1>10. OutInv'
    <2>1. InUse' = InUse /\ slots' = slots
      BY <1>2 DEF InUse
    <2>2. ASSUME NEW i \in InUse' PROVE Pressed(i)' <=> Pressed(i)
      BY <1>4, <1>7, <2>1, PressedSame
    <2> QED
      BY <1>2, <2>1, <2>2, OutSame
  <1>11. TimerInv'
    <2> SUFFICES ASSUME NEW i \in timers'
                 PROVE  /\ i \in InUse' /\ slots'[i].started /\ slots'[i].modified = None
                        /\ PressSlot(i) \notin Pending' /\ ReleaseSlot(i) \notin Pending'
      BY DEF TimerInv
    <2>1. /\ i \in InUse /\ i \notin S /\ slots[i].started /\ slots[i].modified = None
          /\ PressSlot(i) \notin Pending /\ ReleaseSlot(i) \notin Pending
      BY <1>2 DEF IInv, TimerInv
    <2>2. i \in InUse'
      BY <1>2, <2>1 DEF InUse
    <2> QED
      BY <1>2, <1>4, <1>7, <2>1, <2>2
  <1>12. StartInv'
    <2> SUFFICES ASSUME NEW i \in InUse' PROVE StartOf(i)'
      BY DEF StartInv
    <2>1. i \in InUse /\ i \in Slot /\ slots' = slots
      BY <1>2, <1>4 DEF InUse
    <2>2. Leaves(i) => Leaves(i)'
      BY <1>7, <2>1 DEF Leaves
    <2>3. i \in S => Leaves(i)'
      BY <1>1 DEF Leaves
    <2>4. PICK m : m = slots[i].modified
      OBVIOUS
    <2>5. ASSUME EndsSoon(m), slots[i].started, m # None PROVE EndsSoon(m)' \/ Leaves(i)'
      <3>1. PICK x \in Pending : IsEvent(x) /\ ~x.down /\ x.code = m
        BY <2>5 DEF EndsSoon
      <3>2. CASE x = Now
        <4>1. i \in S
          BY <2>1, <2>4, <2>5, <3>1, <3>2 DEF S, Ends, IInv, SlotInv, MayCatch, Conf
        <4> QED
          BY <2>3, <4>1
      <3>3. CASE x \in Rest
        BY <1>1, <3>1, <3>3 DEF EndsSoon
      <3> QED
        BY <1>3, <3>2, <3>3
    <2>6. Held(m) => Held(m)'
      BY <1>2 DEF Held
    <2>7. i \in timers => i \in timers' \/ Leaves(i)'
      BY <1>2, <2>3
    <2> QED
      BY <1>2, <2>1, <2>2, <2>4, <2>5, <2>6, <2>7, StartSame
  <1> QED
    BY <1>1, <1>8, <1>9, <1>10, <1>11, <1>12 DEF IInv


LEMMA PassOnKeeps ==
  ASSUME IInv, PassOn
  PROVE  IInv'
  <1>1. /\ LineInv' /\ todo # <<>> /\ Now.op = "pass" /\ Pending' = Rest
        /\ UNCHANGED <<slots, timers, down, out, orphan>>
    BY PassOnNext
  <1>2. /\ Rest \subseteq Call /\ Pending = {Now} \cup Rest /\ InUse' = InUse /\ InUse \subseteq Slot
    BY <1>1, Stack DEF IInv, InUse
  <1>3. \A i \in Slot : /\ PressSlot(i) \in Pending' <=> PressSlot(i) \in Pending
                        /\ ReleaseSlot(i) \in Pending' <=> ReleaseSlot(i) \in Pending
    BY <1>1, <1>2, CallKinds
  <1>4. TypeOK' /\ SlotInv'
    <2>1. reach' \in [Sticky -> 0 .. 2]
      BY DEF PassOn, IInv, TypeOK
    <2> QED
      BY <1>1, <1>2, <2>1 DEF IInv, TypeOK, SlotInv
  <1>5. GoodInv'
    <2> SUFFICES ASSUME NEW x \in Rest PROVE Good(x)'
      BY <1>1 DEF GoodInv
    <2>1. IsEvent(x) /\ x.down => Held(x.code)'
      BY <1>1, <1>2 DEF IInv, GoodInv, Good, Held
    <2> QED
      BY <1>1, <1>2, <2>1, GoodRest
  <1>6. OutInv'
    <2>1. ASSUME NEW i \in InUse' PROVE Pressed(i)' <=> Pressed(i)
      BY <1>1, <1>2, <1>3, PressedSame
    <2> QED
      BY <1>1, <1>2, <2>1, OutSame
  <1>7. TimerInv'
    BY <1>1, <1>2, <1>3 DEF IInv, TimerInv
  <1>8. StartInv'
    <2> SUFFICES ASSUME NEW i \in InUse PROVE StartOf(i)'
      BY <1>2 DEF StartInv
    <2>1. PICK m : m = slots[i].modified
      OBVIOUS
    <2>2. ASSUME EndsSoon(m) PROVE EndsSoon(m)'
      BY <1>1, <1>2, <2>2 DEF EndsSoon, IsEvent
    <2>3. Held(m) => Held(m)'
      BY <1>1 DEF Held
    <2>4. Leaves(i) => Leaves(i)'
      BY <1>2, <1>3 DEF Leaves
    <2> QED
      BY <1>1, <2>1, <2>2, <2>3, <2>4, StartSame
  <1> QED
    BY <1>1, <1>4, <1>5, <1>6, <1>7, <1>8 DEF IInv

LEMMA PressBindingKeeps ==
  ASSUME Grounded, IInv, PressBinding
  PROVE  IInv'
  <1>1. /\ LineInv' /\ todo # <<>> /\ Now.op = "press" /\ IsUse(Now)
        /\ Pending' = {Event(Conf(Now.slot).code, TRUE)} \cup Rest
    BY PressBindingNext DEF IsUse
  <1>2. PICK i, q : i = Now.slot /\ q = slots[Now.slot].pos
    OBVIOUS
  <1>3. /\ out' = [out EXCEPT ![q] = @ + 1]
        /\ UNCHANGED <<slots, timers, down, orphan, reach>>
    BY <1>2 DEF PressBinding, Now
  <1>4. /\ Now \in Call /\ Now = PressSlot(i) /\ i \in InUse /\ i \in Slot /\ q \in Sticky
        /\ q = slots[i].pos /\ Conf(Now.slot).code = Setup[q].code /\ Setup[q].code \in Code
    BY <1>1, <1>2, UseNow, CallParts DEF Conf
  <1>5. /\ Rest \subseteq Call /\ Pending = {Now} \cup Rest /\ InUse' = InUse /\ InUse \subseteq Slot
        /\ \A y \in Rest : Rel(Now, y)
    BY <1>1, <1>3, Stack DEF IInv, InUse
  <1>6. PICK e : e = Event(Setup[q].code, TRUE)
    OBVIOUS
  <1>7. e \in Call /\ e.op = "event" /\ e.code = Setup[q].code /\ e.down /\ Pending' = {e} \cup Rest
    BY <1>1, <1>4, <1>6, CallKinds
  <1>8. \A j \in Slot : /\ PressSlot(j) \in Pending' <=> j # i /\ PressSlot(j) \in Pending
                        /\ ReleaseSlot(j) \in Pending' <=> ReleaseSlot(j) \in Pending
    <2> SUFFICES ASSUME NEW j \in Slot
                 PROVE  /\ PressSlot(j) \in Pending' <=> j # i /\ PressSlot(j) \in Pending
                        /\ ReleaseSlot(j) \in Pending' <=> ReleaseSlot(j) \in Pending
      OBVIOUS
    <2>1. /\ PressSlot(j).op = "press" /\ PressSlot(j).slot = j
          /\ ReleaseSlot(j).op = "release" /\ PressSlot(i).op = "press" /\ PressSlot(i).slot = i
      BY <1>4, CallKinds
    <2>2. PressSlot(i) \notin Rest
      BY <1>1, <1>2, <1>5, <2>1 DEF Rel, IsUse
    <2> QED
      BY <1>4, <1>5, <1>7, <2>1, <2>2
  <1>9. /\ \A p \in Sticky : out[p] \in Nat /\ out'[p] = IF p = q THEN out[p] + 1 ELSE out[p]
        /\ out' \in [Sticky -> Nat]
    BY <1>3, <1>4 DEF IInv, TypeOK
  <1>10. \A c : Held(c) => Held(c)'
    <2> SUFFICES ASSUME NEW c, Held(c) PROVE Held(c)'
      OBVIOUS
    <2>1. \A p \in Sticky : out[p] > 0 => out'[p] > 0
      BY <1>9
    <2> QED
      BY <1>3, <2>1 DEF Held
  <1>11. TypeOK' /\ SlotInv'
    BY <1>3, <1>5, <1>9 DEF IInv, TypeOK, SlotInv
  <1>12. GoodInv'
    <2> SUFFICES ASSUME NEW x \in Pending' PROVE Good(x)'
      BY DEF GoodInv
    <2>1. CASE x \in Rest
      <3>1. IsEvent(x) /\ x.down => Held(x.code)'
        BY <1>5, <1>10, <2>1 DEF IInv, GoodInv, Good
      <3>2. Rest \subseteq Pending' /\ InUse' = InUse /\ down' = down /\ slots' = slots
        BY <1>3, <1>5, <1>7
      <3> QED
        BY <1>1, <2>1, <3>1, <3>2, GoodRest
    <2>2. CASE x = e
      <3>1. out'[q] > 0
        BY <1>4, <1>9
      <3>2. Held(x.code)'
        BY <1>4, <1>7, <2>2, <3>1 DEF Held
      <3> QED
        BY <1>7, <2>2, <3>2 DEF Good, IsUse
    <2> QED
      BY <1>7, <2>1, <2>2
  <1>13. OutInv'
    <2>1. ASSUME NEW p \in Sticky
          PROVE  out'[p] = IF \E j \in Found(p)' : Pressed(j)' THEN 1 ELSE 0
      <3>1. \A j \in Found(p) : j \in InUse /\ j \in Slot
        BY <1>5 DEF Found
      <3>2. Found(p)' = Found(p)
        BY <1>3, <1>5 DEF Found
      <3>3. CASE p = q
        <4>1. i \in Found(p) /\ Pressed(i)'
          <5>1. Conf(i).lazy => slots[i].modified # None
            BY <1>1, <1>2, <1>5 DEF IInv, GoodInv, Good
          <5>2. PressSlot(i) \notin Pending'
            BY <1>4, <1>8
          <5> QED
            BY <1>3, <1>4, <3>3, <5>1, <5>2 DEF Pressed, Found, Conf
        <4>2. \A j \in Found(p) : j = i
          BY <1>4, <3>3 DEF Found, IInv, SlotInv
        <4>3. ~Pressed(i)
          BY <1>4, <1>5 DEF Pressed
        <4>4. out[p] = 0
          BY <4>2, <4>3 DEF IInv, OutInv
        <4> QED
          BY <1>9, <3>2, <3>3, <4>1, <4>4
      <3>4. CASE p # q
        <4>1. ASSUME NEW j \in Found(p) PROVE Pressed(j)' <=> Pressed(j)
          <5>1. j # i /\ j \in Slot
            BY <1>4, <3>1, <3>4 DEF Found
          <5>2. PressSlot(j) \in Pending' <=> PressSlot(j) \in Pending
            BY <1>8, <5>1
          <5> QED
            BY <1>3, <5>1, <5>2, PressedSame
        <4>2. out[p] = IF \E j \in Found(p) : Pressed(j) THEN 1 ELSE 0
          BY DEF IInv, OutInv
        <4> QED
          BY <1>9, <3>2, <3>4, <4>1, <4>2
      <3> QED
        BY <3>3, <3>4
    <2> QED
      BY <1>3, <2>1 DEF OutInv, IInv
  <1>14. TimerInv'
    BY <1>3, <1>5, <1>8 DEF IInv, TimerInv
  <1>15. StartInv'
    <2> SUFFICES ASSUME NEW j \in InUse PROVE StartOf(j)'
      BY <1>5 DEF StartInv
    <2>1. PICK m : m = slots[j].modified
      OBVIOUS
    <2>2. ASSUME EndsSoon(m) PROVE EndsSoon(m)'
      BY <1>1, <1>5, <1>7, <2>2 DEF EndsSoon, IsEvent
    <2>3. Leaves(j) => Leaves(j)'
      BY <1>5, <1>8 DEF Leaves
    <2> QED
      BY <1>3, <1>10, <2>1, <2>2, <2>3, StartSame
  <1> QED
    BY <1>1, <1>11, <1>12, <1>13, <1>14, <1>15 DEF IInv


LEMMA ReleaseBindingKeeps ==
  ASSUME Grounded, IInv, ReleaseBinding
  PROVE  IInv'
  <1>1. /\ LineInv' /\ todo # <<>> /\ Now.op = "release" /\ IsUse(Now)
        /\ Pending' = {Event(Conf(Now.slot).code, FALSE)} \cup Rest
        /\ \A j \in Slot \ {Now.slot} : slots'[j] = slots[j]
        /\ InUse' = InUse \ {Now.slot}
        /\ \A y \in Rest : IsUse(y) => y.slot # Now.slot
    BY ReleaseBindingNext DEF IsUse
  <1>2. PICK i, q : i = Now.slot /\ q = slots[Now.slot].pos
    OBVIOUS
  <1>3. /\ out' = [out EXCEPT ![q] = Less(@)]
        /\ orphan' = IF out[q] = 0 THEN orphan \cup {q} ELSE orphan
        /\ slots' = [slots EXCEPT ![i] = Free]
        /\ UNCHANGED <<timers, down, reach>>
    BY <1>2 DEF ReleaseBinding, Now, Cleared
  <1>4. /\ Now \in Call /\ Now = ReleaseSlot(i) /\ i \in InUse /\ i \in Slot /\ q \in Sticky
        /\ q = slots[i].pos /\ Conf(Now.slot).code = Setup[q].code /\ Setup[q].code \in Code
        /\ \A y \in Rest : Level(Setup[q].code) > Floor(y)
    BY <1>1, <1>2, UseNow, CallParts DEF Conf
  <1>5. /\ Rest \subseteq Call /\ Pending = {Now} \cup Rest /\ InUse \subseteq Slot
        /\ InUse' = InUse \ {i} /\ \A j \in Slot \ {i} : slots'[j] = slots[j]
        /\ \A y \in Rest : Rel(Now, y) /\ (IsUse(y) => y.slot # i)
    BY <1>1, <1>2, Stack DEF IInv, InUse
  <1>6. PICK e : e = Event(Setup[q].code, FALSE)
    OBVIOUS
  <1>7. e \in Call /\ e.op = "event" /\ e.code = Setup[q].code /\ ~e.down /\ Pending' = {e} \cup Rest
    BY <1>1, <1>4, <1>6, CallKinds
  <1>8. \A j \in Slot : /\ PressSlot(j) \in Pending' <=> PressSlot(j) \in Pending
                        /\ ReleaseSlot(j) \in Pending' <=> j # i /\ ReleaseSlot(j) \in Pending
    <2> SUFFICES ASSUME NEW j \in Slot
                 PROVE  /\ PressSlot(j) \in Pending' <=> PressSlot(j) \in Pending
                        /\ ReleaseSlot(j) \in Pending' <=> j # i /\ ReleaseSlot(j) \in Pending
      OBVIOUS
    <2>1. /\ PressSlot(j).op = "press" /\ ReleaseSlot(j).slot = j
          /\ ReleaseSlot(j).op = "release" /\ ReleaseSlot(i).op = "release"
          /\ ReleaseSlot(i).slot = i
      BY <1>4, CallKinds
    <2>2. ReleaseSlot(i) \notin Rest
      BY <1>5, <2>1 DEF IsUse
    <2> QED
      BY <1>4, <1>5, <1>7, <2>1, <2>2
  <1>9. PressSlot(i) \notin Pending
    <2>1. PressSlot(i).op = "press" /\ PressSlot(i).slot = i
      BY <1>4, CallKinds
    <2> QED
      BY <1>1, <1>5, <2>1 DEF IsUse
  <1>10. /\ \A p \in Sticky : out[p] \in Nat /\ out'[p] = IF p = q THEN Less(out[p]) ELSE out[p]
         /\ out' \in [Sticky -> Nat]
    BY <1>3, <1>4 DEF IInv, TypeOK, Less
  <1>11. ASSUME NEW c, Held(c) PROVE Held(c)' \/ c = Setup[q].code
    <2>1. \A p \in Sticky : out[p] > 0 => out'[p] > 0 \/ p = q
      BY <1>10
    <2> QED
      BY <1>3, <1>11, <2>1 DEF Held
  <1>12. TypeOK'
    <2>1. slots' \in [Slot -> SlotType]
      BY <1>3, SlotTypes DEF IInv
    <2> QED
      BY <1>3, <1>4, <1>10, <2>1 DEF IInv, TypeOK, SlotType
  <1>13. SlotInv'
    BY <1>5 DEF IInv, SlotInv
  <1>14. GoodInv'
    <2> SUFFICES ASSUME NEW x \in Pending' PROVE Good(x)'
      BY DEF GoodInv
    <2>1. CASE x \in Rest
      <3>1. ASSUME IsEvent(x), x.down PROVE Held(x.code)'
        <4>1. Held(x.code)
          BY <1>5, <2>1, <3>1 DEF IInv, GoodInv, Good
        <4>2. Level(Setup[q].code) > Level(x.code) /\ Level(x.code) \in Nat
          BY <1>4, <2>1, <3>1, LevelUp DEF Floor, IsCode, IsEvent
        <4>3. x.code # Setup[q].code
          BY <4>2
        <4>4. PICK c : c = x.code
          OBVIOUS
        <4> QED
          BY <1>11, <4>1, <4>3, <4>4
      <3>2. ASSUME IsUse(x) PROVE slots'[x.slot] = slots[x.slot]
        BY <1>5, <2>1, <3>2, CallParts
      <3>3. ASSUME x.op = "pass", NEW j \in InUse, slots[j].pos \in x.want
            PROVE  slots'[j] = slots[j]
        <4>1. slots[i].pos \notin x.want
          BY <1>1, <1>2, <1>5, <2>1, <3>3 DEF Rel
        <4> QED
          BY <1>5, <3>3, <4>1
      <3>4. /\ Rest \subseteq Pending' /\ InUse' \subseteq InUse /\ down' = down
            /\ (\A j \in InUse' : slots'[j].pos = slots[j].pos) /\ Now.slot \notin InUse'
        BY <1>2, <1>3, <1>5, <1>7
      <3> QED
        BY <1>1, <2>1, <3>1, <3>2, <3>3, <3>4, GoodRest
    <2>2. CASE x = e
      BY <1>7, <2>2 DEF Good, IsUse
    <2> QED
      BY <1>7, <2>1, <2>2
  <1>15. OutInv'
    <2>0. \A p \in Sticky : out[p] = IF \E j \in Found(p) : Pressed(j) THEN 1 ELSE 0
      BY DEF IInv, OutInv
    <2>1. ASSUME NEW p \in Sticky
          PROVE  out'[p] = IF \E j \in Found(p)' : Pressed(j)' THEN 1 ELSE 0
      <3>1. CASE p = q
        <4>1. Found(p)' = {}
          BY <1>4, <1>5, <3>1 DEF Found, IInv, SlotInv
        <4>2. out'[p] = 0
          BY <1>10, <2>0, <3>1 DEF Less
        <4> QED
          BY <4>1, <4>2
      <3>2. CASE p # q
        <4>1. Found(p)' = Found(p) /\ \A j \in Found(p) : j # i /\ j \in Slot
          BY <1>4, <1>5, <3>2 DEF Found
        <4>2. ASSUME NEW j \in Found(p) PROVE Pressed(j)' <=> Pressed(j)
          <5>1. j \in Slot /\ slots'[j] = slots[j]
            BY <1>5, <4>1
          <5> QED
            BY <1>8, <5>1, PressedSame
        <4> QED
          BY <1>10, <2>0, <3>2, <4>1, <4>2
      <3> QED
        BY <3>1, <3>2
    <2>2. ASSUME out[q] = 0 PROVE Setup[q].lazy
      <3>1. i \in Found(q)
        BY <1>4 DEF Found
      <3>2. ~Pressed(i)
        BY <1>4, <2>0, <2>2, <3>1
      <3> QED
        BY <1>4, <1>9, <3>2 DEF Pressed, Conf
    <2>3. \A p \in orphan' : Setup[p].lazy
      BY <1>3, <2>2 DEF IInv, OutInv
    <2> QED
      BY <2>1, <2>3 DEF OutInv
  <1>16. TimerInv'
    <2>1. ASSUME NEW j \in timers PROVE j \in InUse /\ j # i /\ j \in Slot
      BY <1>4, <1>5, <2>1 DEF IInv, TimerInv
    <2> QED
      BY <1>3, <1>5, <1>8, <2>1 DEF IInv, TimerInv
  <1>17. StartInv'
    <2> SUFFICES ASSUME NEW j \in InUse' PROVE StartOf(j)'
      BY DEF StartInv
    <2>1. j \in InUse /\ j # i /\ j \in Slot /\ slots'[j] = slots[j]
      BY <1>5
    <2>2. PICK m : m = slots[j].modified
      OBVIOUS
    <2>3. ASSUME EndsSoon(m) PROVE EndsSoon(m)'
      BY <1>1, <1>5, <1>7, <2>3 DEF EndsSoon, IsEvent
    <2>4. Leaves(j) => Leaves(j)'
      BY <1>8, <2>1 DEF Leaves
    <2>5. Held(m) => Held(m)' \/ EndsSoon(m)'
      <3>1. Setup[q].code = m => EndsSoon(m)'
        BY <1>7 DEF EndsSoon, IsEvent
      <3> QED
        BY <1>11, <3>1
    <2> QED
      BY <1>3, <2>1, <2>2, <2>3, <2>4, <2>5, StartSame
  <1> QED
    BY <1>1, <1>12, <1>13, <1>14, <1>15, <1>16, <1>17 DEF IInv

LEMMA StoreSlotKeeps ==
  ASSUME IInv, StoreSlot
  PROVE  IInv'
  <1>1. /\ LineInv' /\ todo # <<>> /\ Rest = {} /\ Now.op = "store" /\ Now.pos \in Sticky
        /\ Now.pos \in down /\ Found(Now.pos) = {}
        /\ \/ slots' = slots /\ Pending' = {}
           \/ \E i \in Slot \ InUse :
                /\ slots' = [slots EXCEPT ![i] = NewSlot(Now.pos)]
                /\ Pending' = IF Setup[Now.pos].lazy THEN {} ELSE {PressSlot(i)}
    BY StoreSlotNext
  <1>2. UNCHANGED <<timers, down, out, orphan, reach>>
    BY DEF StoreSlot
  <1>3. Pending = {Now} /\ InUse \subseteq Slot
    BY <1>1, Stack DEF IInv, InUse
  <1>4. ASSUME NEW j \in Slot PROVE PressSlot(j) \notin Pending /\ ReleaseSlot(j) \notin Pending
    <2>1. PressSlot(j).op = "press" /\ ReleaseSlot(j).op = "release"
      BY CallKinds
    <2> QED
      BY <1>1, <1>3, <2>1
  <1>5. \A m : ~EndsSoon(m) /\ (Held(m) => Held(m)')
    BY <1>1, <1>2, <1>3 DEF EndsSoon, IsEvent, Held
  <1>6. CASE slots' = slots /\ Pending' = {}
    <2>1. InUse' = InUse
      BY <1>6 DEF InUse
    <2>2. TypeOK' /\ SlotInv' /\ GoodInv' /\ TimerInv'
      BY <1>2, <1>6, <2>1 DEF IInv, TypeOK, SlotInv, GoodInv, TimerInv
    <2>3. OutInv'
      <3>1. ASSUME NEW i \in InUse' PROVE Pressed(i)' <=> Pressed(i)
        BY <1>3, <1>4, <1>6, <2>1, PressedSame
      <3> QED
        BY <1>2, <1>6, <2>1, <3>1, OutSame
    <2>4. StartInv'
      <3> SUFFICES ASSUME NEW i \in InUse PROVE StartOf(i)'
        BY <2>1 DEF StartInv
      <3>1. PICK m : m = slots[i].modified
        OBVIOUS
      <3>2. ~Leaves(i)
        BY <1>3, <1>4 DEF Leaves
      <3> QED
        BY <1>2, <1>5, <1>6, <3>1, <3>2, StartSame
    <2> QED
      BY <1>1, <2>2, <2>3, <2>4 DEF IInv
  <1>7. ASSUME NEW i \in Slot \ InUse,
               slots' = [slots EXCEPT ![i] = NewSlot(Now.pos)],
               Pending' = IF Setup[Now.pos].lazy THEN {} ELSE {PressSlot(i)}
        PROVE  IInv'
    <2>1. PICK p : p = Now.pos
      OBVIOUS
    <2>2. /\ p \in Sticky /\ p \in down /\ Found(p) = {} /\ NewSlot(p) \in SlotType
          /\ NewSlot(p).used /\ NewSlot(p).pos = p /\ ~NewSlot(p).started
          /\ NewSlot(p).modified = None
      BY <1>1, <2>1, SlotTypes
    <2>3. /\ slots' \in [Slot -> SlotType] /\ slots'[i] = NewSlot(p)
          /\ \A j \in Slot \ {i} : slots'[j] = slots[j]
      BY <1>7, <2>1, <2>2, SlotTypes DEF IInv
    <2>4. InUse' = InUse \cup {i}
      BY <2>2, <2>3 DEF InUse
    <2>5. ASSUME NEW j \in Slot
          PROVE  /\ ReleaseSlot(j) \notin Pending'
                 /\ PressSlot(j) \in Pending' <=> j = i /\ ~Setup[p].lazy
      <3>1. /\ PressSlot(j).op = "press" /\ PressSlot(j).slot = j /\ ReleaseSlot(j).op = "release"
            /\ PressSlot(i).op = "press" /\ PressSlot(i).slot = i
        BY CallKinds
      <3> QED
        BY <1>7, <2>1, <3>1
    <2>6. TypeOK'
      BY <1>2, <2>3 DEF IInv, TypeOK, SlotType
    <2>7. SlotInv'
      BY <1>3, <2>2, <2>3, <2>4 DEF IInv, SlotInv, Found
    <2>8. GoodInv'
      <3> SUFFICES ASSUME NEW x \in Pending' PROVE Good(x)'
        BY DEF GoodInv
      <3>1. x = PressSlot(i) /\ ~Setup[p].lazy
        BY <1>7, <2>1
      <3>2. x.op = "press" /\ x.slot = i
        BY <3>1, CallKinds
      <3>3. Conf(i)' = Setup[p]
        BY <2>2, <2>3 DEF Conf
      <3> QED
        BY <2>4, <3>1, <3>2, <3>3 DEF Good, IsUse, IsEvent, Conf
    <2>9. OutInv'
      <3>0. \A r \in Sticky : out[r] = IF \E j \in Found(r) : Pressed(j) THEN 1 ELSE 0
        BY DEF IInv, OutInv
      <3>1. ASSUME NEW r \in Sticky
            PROVE  out'[r] = IF \E j \in Found(r)' : Pressed(j)' THEN 1 ELSE 0
        <4>1. CASE r = p
          <5>1. Found(r)' = {i}
            BY <1>3, <2>2, <2>3, <2>4, <4>1 DEF Found
          <5>2. ~Pressed(i)'
            BY <2>2, <2>3, <2>5 DEF Pressed, Conf
          <5>3. out'[r] = 0
            BY <1>2, <2>2, <3>0, <4>1
          <5> QED
            BY <5>1, <5>2, <5>3
        <4>2. CASE r # p
          <5>1. Found(r)' = Found(r) /\ \A j \in Found(r) : j # i /\ j \in Slot
            BY <1>3, <2>2, <2>3, <2>4, <4>2 DEF Found
          <5>2. ASSUME NEW j \in Found(r) PROVE Pressed(j)' <=> Pressed(j)
            <6>1. /\ j \in Slot /\ slots'[j] = slots[j]
                  /\ PressSlot(j) \in Pending' <=> PressSlot(j) \in Pending
              BY <1>4, <2>3, <2>5, <5>1
            <6> QED
              BY <6>1, PressedSame
          <5> QED
            BY <1>2, <3>0, <5>1, <5>2
        <4> QED
          BY <4>1, <4>2
      <3> QED
        BY <1>2, <3>1 DEF OutInv, IInv
    <2>10. TimerInv'
      BY <1>2, <1>3, <2>3, <2>4, <2>5 DEF IInv, TimerInv
    <2>11. StartInv'
      <3>1. StartOf(i)'
        BY <1>2, <2>2, <2>3 DEF StartOf
      <3>2. ASSUME NEW j \in InUse PROVE StartOf(j)'
        <4>1. PICK m : m = slots[j].modified
          OBVIOUS
        <4>2. ~Leaves(j) /\ slots'[j] = slots[j]
          BY <1>3, <1>4, <2>3 DEF Leaves
        <4> QED
          BY <1>2, <1>5, <4>1, <4>2, StartSame
      <3> QED
        BY <2>4, <3>1, <3>2 DEF StartInv
    <2> QED
      BY <1>1, <2>6, <2>7, <2>8, <2>9, <2>10, <2>11 DEF IInv
  <1> QED
    BY <1>1, <1>6, <1>7


\* While nothing is being handled, no slot is waiting to be pressed or released.
LEMMA QuietNow ==
  ASSUME IInv, Quiet
  PROVE  /\ Pending = {} /\ InUse \subseteq Slot
         /\ \A i \in InUse : /\ ~Leaves(i) /\ slots[i].pos \in Sticky
                             /\ slots[i].pos \in down \/ slots[i].started
         /\ \A m : ~EndsSoon(m)
  <1>1. Pending = {}
    BY NoCallsYet DEF Quiet
  <1> QED
    BY <1>1 DEF IInv, SlotInv, StartInv, StartOf, Leaves, EndsSoon, InUse

LEMMA StickyPressKeeps ==
  ASSUME Grounded, IInv, NEW p \in Sticky, StickyPress(p)
  PROVE  IInv'
  <1> DEFINE S == Found(p)
             G == ForEach(S, ReleaseSlot)
             one == <<Store(p)>>
             A == Agree'
  <1>1. /\ Quiet /\ timers' = timers \ S /\ todo' = G \o one /\ down' = down \cup {p}
        /\ UNCHANGED <<slots, out, orphan, reach>>
    BY DEF StickyPress, Stopped
  <1>2. /\ Pending = {} /\ InUse \subseteq Slot /\ InUse' = InUse /\ S \subseteq InUse
        /\ \A i, j \in S : i = j
    BY <1>1, QuietNow DEF Found, InUse, IInv, SlotInv
  <1>3. /\ Store(p) \in Call /\ Store(p).op = "store" /\ Store(p).pos = p
        /\ \A i \in Slot : /\ ReleaseSlot(i) \in Call /\ ReleaseSlot(i).op = "release"
                           /\ ReleaseSlot(i).slot = i /\ PressSlot(i).op = "press"
    BY CallKinds
  <1>4. G \in Seq(Call) /\ Members(G) = {ReleaseSlot(i) : i \in S} /\ Pairs(G, A)
    <2>1. S \in SUBSET Slot /\ \A i, j \in S : i # j => <<ReleaseSlot(i), ReleaseSlot(j)>> \in A
      BY <1>2
    <2> HIDE DEF A, S
    <2> QED
      BY <2>1, UseCalls
  <1>5. one \in Seq(Call) /\ Members(one) = {Store(p)} /\ Pairs(one, A)
    BY <1>3, OneCall
  <1>6. ASSUME NEW i \in S PROVE <<ReleaseSlot(i), Store(p)>> \in A
    <2>1. i \in Slot /\ slots'[i].pos \in Sticky
      BY <1>1, <1>2, QuietNow
    <2>2. Level(Conf(i).code)' > 0
      BY <2>1, LevelUp DEF Conf
    <2>3. Floor(Store(p))' = 0
      BY <1>3 DEF Floor, IsCode, IsUse
    <2>4. Rel(ReleaseSlot(i), Store(p))'
      BY <1>3, <2>1, <2>2, <2>3 DEF Rel, IsEvent, IsCode, IsUse, IsDown
    <2> QED
      BY <1>3, <2>1, <2>4, AgreeIs
  <1>7. /\ G \o one \in Seq(Call) /\ Members(G \o one) = Members(G) \cup Members(one)
        /\ Pairs(G \o one, Agree')
    <2>1. Across(Members(G), Members(one), A)
      BY <1>4, <1>5, <1>6 DEF Across
    <2> HIDE DEF G, one
    <2> QED
      BY <1>4, <1>5, <2>1, JoinAgree
  <1>8. LineInv' /\ Pending' = {ReleaseSlot(i) : i \in S} \cup {Store(p)}
    BY <1>1, <1>4, <1>5, <1>7 DEF LineInv, Pending
  <1> HIDE DEF S, G, one, A
  <1>9. \A i \in Slot : /\ PressSlot(i) \notin Pending'
                        /\ ReleaseSlot(i) \in Pending' <=> i \in S
    <2>1. \A i \in S : i \in Slot
      BY <1>2
    <2> QED
      BY <1>3, <1>8, <2>1
  <1>10. TypeOK' /\ SlotInv'
    BY <1>1, <1>2 DEF IInv, TypeOK, SlotInv
  <1>11. GoodInv'
    <2> SUFFICES ASSUME NEW x \in Pending' PROVE Good(x)'
      BY DEF GoodInv
    <2>1. ASSUME NEW i \in S, x = ReleaseSlot(i) PROVE Good(x)'
      <3>1. x.op = "release" /\ x.slot = i /\ i \in InUse'
        BY <1>2, <1>3, <2>1
      <3> QED
        BY <3>1 DEF Good, IsUse, IsEvent
    <2>2. CASE x = Store(p)
      <3>1. Found(p)' = S
        BY <1>1, <1>2 DEF Found, S
      <3>2. x.op = "store" /\ x.pos = p /\ p \in down' /\ \A i \in Found(p)' : ReleaseSlot(i) \in Pending'
        BY <1>1, <1>3, <1>8, <2>2, <3>1
      <3> QED
        BY <3>2 DEF Good, IsUse, IsEvent
    <2> QED
      BY <1>8, <2>1, <2>2
  <1>12. OutInv'
    <2>1. ASSUME NEW i \in InUse' PROVE Pressed(i)' <=> Pressed(i)
      <3>1. i \in Slot /\ PressSlot(i) \notin Pending' /\ PressSlot(i) \notin Pending
        BY <1>2, <1>9
      <3> QED
        BY <1>1, <3>1, PressedSame
    <2> QED
      BY <1>1, <1>2, <2>1, OutSame
  <1>13. TimerInv'
    BY <1>1, <1>2, <1>9 DEF IInv, TimerInv
  <1>14. StartInv'
    <2> SUFFICES ASSUME NEW i \in InUse PROVE StartOf(i)'
      BY <1>2 DEF StartInv
    <2>1. PICK m : m = slots[i].modified
      OBVIOUS
    <2>2. i \in timers => i \in timers' \/ Leaves(i)'
      BY <1>1, <1>2, <1>9 DEF Leaves
    <2>3. ~Leaves(i) /\ ~EndsSoon(m)
      BY <1>1, QuietNow
    <2>4. Held(m) => Held(m)'
      BY <1>1 DEF Held
    <2> QED
      BY <1>1, <2>1, <2>2, <2>3, <2>4, StartSame
  <1> QED
    BY <1>8, <1>10, <1>11, <1>12, <1>13, <1>14 DEF IInv

\* A step that leaves the slots alone and makes at most one first call.
LEMMA KeysKeep ==
  ASSUME IInv, Quiet, UNCHANGED <<slots, timers, out, orphan, reach>>,
         down' \subseteq Sticky \cup Key, LineInv',
         \A i \in Slot : PressSlot(i) \notin Pending' /\ ReleaseSlot(i) \notin Pending',
         GoodInv', \A i \in InUse : slots[i].pos \in down => slots[i].pos \in down' \/ slots[i].started,
         \A m : Held(m) => Held(m)' \/ EndsSoon(m)'
  PROVE  IInv'
  <1>1. InUse' = InUse /\ InUse \subseteq Slot /\ Pending = {}
    BY QuietNow DEF InUse
  <1>2. TypeOK' /\ SlotInv' /\ TimerInv'
    BY <1>1 DEF IInv, TypeOK, SlotInv, TimerInv
  <1>3. OutInv'
    <2>1. ASSUME NEW i \in InUse' PROVE Pressed(i)' <=> Pressed(i)
      BY <1>1, PressedSame
    <2> QED
      BY <1>1, <2>1, OutSame
  <1>4. StartInv'
    <2> SUFFICES ASSUME NEW i \in InUse PROVE StartOf(i)'
      BY <1>1 DEF StartInv
    <2>1. PICK m : m = slots[i].modified
      OBVIOUS
    <2>2. ~Leaves(i) /\ ~EndsSoon(m) /\ (slots[i].pos \in down \/ slots[i].started) /\ StartOf(i)
      BY QuietNow DEF IInv, StartInv
    <2>3. slots[i].started /\ m # None => Held(m)' \/ EndsSoon(m)'
      BY <2>1, <2>2 DEF StartOf
    <2>4. slots[i].started /\ slots[i].modified # None =>
            Held(slots[i].modified)' \/ EndsSoon(slots[i].modified)'
      BY <2>1, <2>3 DEF Held, EndsSoon
    <2> QED
      BY <2>2, <2>4 DEF StartOf
  <1> QED
    BY <1>2, <1>3, <1>4 DEF IInv

LEMMA KeyDownKeeps ==
  ASSUME IInv, NEW k \in Key, KeyDown(k)
  PROVE  IInv'
  <1>1. /\ Quiet /\ down' = down \cup {k} /\ todo' = <<Event(CodeOf[k], TRUE)>>
        /\ UNCHANGED <<slots, timers, out, orphan, reach>>
    BY DEF KeyDown
  <1>2. PICK e : e = Event(CodeOf[k], TRUE)
    OBVIOUS
  <1>3. e \in Call /\ e.op = "event" /\ e.code = CodeOf[k] /\ e.down
    BY <1>2 DEF Event, CodeCall, Call, Code
  <1>4. LineInv' /\ Pending' = {e}
    BY <1>1, <1>2, <1>3, FirstCall
  <1>5. \A i \in Slot : PressSlot(i) \notin Pending' /\ ReleaseSlot(i) \notin Pending'
    <2>1. \A i \in Slot : PressSlot(i).op = "press" /\ ReleaseSlot(i).op = "release"
      BY CallKinds
    <2> QED
      BY <1>3, <1>4, <2>1
  <1>6. GoodInv'
    <2>1. Held(e.code)'
      BY <1>1, <1>3 DEF Held
    <2> QED
      BY <1>3, <1>4, <2>1 DEF GoodInv, Good, IsUse
  <1>7. down' \subseteq Sticky \cup Key /\ \A m : Held(m) => Held(m)'
    BY <1>1 DEF IInv, TypeOK, Held
  <1> QED
    BY <1>1, <1>4, <1>5, <1>6, <1>7, KeysKeep

LEMMA KeyUpKeeps ==
  ASSUME IInv, NEW k \in Key, KeyUp(k)
  PROVE  IInv'
  <1>1. /\ Quiet /\ down' = down \ {k} /\ todo' = <<Event(CodeOf[k], FALSE)>>
        /\ UNCHANGED <<slots, timers, out, orphan, reach>>
    BY DEF KeyUp
  <1>2. PICK e : e = Event(CodeOf[k], FALSE)
    OBVIOUS
  <1>3. e \in Call /\ e.op = "event" /\ e.code = CodeOf[k] /\ ~e.down
    BY <1>2 DEF Event, CodeCall, Call, Code
  <1>4. LineInv' /\ Pending' = {e}
    BY <1>1, <1>2, <1>3, FirstCall
  <1>5. \A i \in Slot : PressSlot(i) \notin Pending' /\ ReleaseSlot(i) \notin Pending'
    <2>1. \A i \in Slot : PressSlot(i).op = "press" /\ ReleaseSlot(i).op = "release"
      BY CallKinds
    <2> QED
      BY <1>3, <1>4, <2>1
  <1>6. GoodInv'
    BY <1>3, <1>4 DEF GoodInv, Good, IsUse, IsEvent
  <1>7. ASSUME NEW m, Held(m) PROVE Held(m)' \/ EndsSoon(m)'
    <2>1. m = CodeOf[k] => EndsSoon(m)'
      BY <1>3, <1>4 DEF EndsSoon, IsEvent
    <2> QED
      BY <1>1, <1>7, <2>1 DEF Held
  <1>8. down' \subseteq Sticky \cup Key
    BY <1>1 DEF IInv, TypeOK
  <1>9. \A i \in InUse : slots[i].pos \in down => slots[i].pos \in down'
    BY <1>1, StickyAssumption, QuietNow
  <1> QED
    BY <1>1, <1>4, <1>5, <1>6, <1>7, <1>8, <1>9, KeysKeep


LEMMA StickyReleaseKeeps ==
  ASSUME IInv, NEW p \in Sticky, StickyRelease(p)
  PROVE  IInv'
  <1>1. /\ Quiet /\ down' = down \ {p} /\ UNCHANGED <<out, orphan>>
        /\ \E late \in {FALSE, MayBeLate} :
             IF Found(p) = {}
             THEN UNCHANGED <<slots, timers, todo, reach>>
             ELSE LET i == CHOOSE j \in Found(p) : TRUE IN
                  IF slots[i].modified # None
                  THEN /\ todo' = <<ReleaseSlot(i)>>
                       /\ UNCHANGED <<slots, timers, reach>>
                  ELSE /\ slots' = [slots EXCEPT ![i] = Tapped(slots[i], late)]
                       /\ timers' = IF late THEN timers ELSE timers \cup {i}
                       /\ reach' = [reach EXCEPT ![p] = 0]
                       /\ UNCHANGED todo
    BY DEF StickyRelease
  <1>2. /\ Pending = {} /\ InUse \subseteq Slot /\ todo = <<>>
        /\ \A m : ~EndsSoon(m) /\ \A i \in InUse : ~Leaves(i)
    BY <1>1, QuietNow DEF Quiet
  <1>3. \A m : Held(m) => Held(m)'
    BY <1>1, StickyAssumption DEF Held
  <1>4. down' \subseteq Sticky \cup Key
    BY <1>1 DEF IInv, TypeOK
  <1>5. PICK late \in BOOLEAN :
             IF Found(p) = {}
             THEN UNCHANGED <<slots, timers, todo, reach>>
             ELSE LET i == CHOOSE j \in Found(p) : TRUE IN
                  IF slots[i].modified # None
                  THEN /\ todo' = <<ReleaseSlot(i)>>
                       /\ UNCHANGED <<slots, timers, reach>>
                  ELSE /\ slots' = [slots EXCEPT ![i] = Tapped(slots[i], late)]
                       /\ timers' = IF late THEN timers ELSE timers \cup {i}
                       /\ reach' = [reach EXCEPT ![p] = 0]
                       /\ UNCHANGED todo
    BY <1>1, StickyAssumption
  <1>6. CASE Found(p) = {}
    <2>1. UNCHANGED <<slots, timers, todo, reach>>
      BY <1>5, <1>6
    <2>2. LineInv' /\ Pending' = {}
      BY <1>2, <2>1, NoCallsYet
    <2>3. GoodInv'
      BY <2>2 DEF GoodInv
    <2>4. \A i \in InUse : slots[i].pos \in down => slots[i].pos \in down'
      BY <1>1, <1>6 DEF Found
    <2> QED
      BY <1>1, <1>3, <1>4, <2>1, <2>2, <2>3, <2>4, KeysKeep
  <1>7. CASE Found(p) # {}
    <2>1. PICK i : i = CHOOSE j \in Found(p) : TRUE
      OBVIOUS
    <2>2. i \in Found(p) /\ i \in InUse /\ i \in Slot /\ slots[i].pos = p
      BY <1>2, <1>7, <2>1 DEF Found
    <2>3. \A j \in InUse : j # i => (slots[j].pos \in down => slots[j].pos \in down')
      BY <1>1, <2>2 DEF IInv, SlotInv
    <2>4. CASE slots[i].modified # None
      <3>1. todo' = <<ReleaseSlot(i)>> /\ UNCHANGED <<slots, timers, reach>>
        BY <1>5, <1>7, <2>1, <2>4
      <3>2. /\ ReleaseSlot(i) \in Call /\ ReleaseSlot(i).op = "release" /\ ReleaseSlot(i).slot = i
            /\ \A j \in Slot : /\ PressSlot(j).op = "press" /\ ReleaseSlot(j).slot = j
        BY <2>2, CallKinds
      <3>3. LineInv' /\ Pending' = {ReleaseSlot(i)} /\ InUse' = InUse
        BY <3>1, <3>2, FirstCall DEF InUse
      <3>4. TypeOK' /\ SlotInv'
        BY <1>1, <1>4, <3>1, <3>3 DEF IInv, TypeOK, SlotInv
      <3>5. ASSUME NEW x \in Pending' PROVE Good(x)'
        <4>1. x.op = "release" /\ x.slot = i /\ i \in InUse'
          BY <2>2, <3>2, <3>3
        <4> QED
          BY <4>1 DEF Good, IsUse, IsEvent
      <3>6. OutInv'
        <4>1. ASSUME NEW j \in InUse' PROVE Pressed(j)' <=> Pressed(j)
          <5>1. j \in Slot /\ PressSlot(j) \notin Pending' /\ PressSlot(j) \notin Pending
            BY <1>2, <3>2, <3>3
          <5> QED
            BY <3>1, <5>1, PressedSame
        <4> QED
          BY <1>1, <3>1, <3>3, <4>1, OutSame
      <3>7. TimerInv'
        <4>1. ASSUME NEW j \in timers
              PROVE  /\ j \in InUse /\ j # i /\ j \in Slot /\ slots[j].started
                     /\ slots[j].modified = None
          BY <1>2, <2>4, <4>1 DEF IInv, TimerInv
        <4> QED
          BY <2>2, <3>1, <3>2, <3>3, <4>1 DEF TimerInv
      <3>8. StartInv'
        <4>1. StartOf(i)'
          BY <2>4, <3>1, <3>3 DEF StartOf, Leaves
        <4>2. ASSUME NEW j \in InUse, j # i PROVE StartOf(j)'
          <5>1. PICK m : m = slots[j].modified
            OBVIOUS
          <5> QED
            BY <1>2, <1>3, <2>3, <3>1, <4>2, <5>1, StartSame
        <4> QED
          BY <3>3, <4>1, <4>2 DEF StartInv
      <3> QED
        BY <3>3, <3>4, <3>5, <3>6, <3>7, <3>8 DEF IInv, GoodInv
    <2>5. CASE slots[i].modified = None
      <3>1. /\ slots' = [slots EXCEPT ![i] = Tapped(slots[i], late)]
            /\ timers' = (IF late THEN timers ELSE timers \cup {i})
            /\ reach' = [reach EXCEPT ![p] = 0]
            /\ todo' = todo
        BY <1>5, <1>7, <2>1, <2>5
      <3>2. LineInv' /\ Pending' = {}
        BY <1>2, <3>1, NoCallsYet
      <3>3. /\ slots' \in [Slot -> SlotType]
            /\ \A j \in Slot \ {i} : slots'[j] = slots[j]
            /\ slots'[i].used = slots[i].used /\ slots'[i].pos = slots[i].pos
            /\ slots'[i].modified = slots[i].modified /\ slots'[i].started /\ slots'[i].late = late
        <4>1. slots \in [Slot -> SlotType] /\ slots[i] \in SlotType
          BY <2>2, SlotTypes DEF IInv
        <4>2. /\ Tapped(slots[i], late) \in SlotType
              /\ Tapped(slots[i], late).used = slots[i].used
              /\ Tapped(slots[i], late).pos = slots[i].pos
              /\ Tapped(slots[i], late).modified = slots[i].modified
              /\ Tapped(slots[i], late).started /\ Tapped(slots[i], late).late = late
          BY <1>5, <4>1 DEF SlotType, Tapped
        <4> QED
          BY <2>2, <3>1, <4>1, <4>2
      <3>4. InUse' = InUse
        BY <2>2, <3>3 DEF InUse
      <3>5. TypeOK'
        <4>1. reach' \in [Sticky -> 0 .. 2]
          BY <3>1 DEF IInv, TypeOK
        <4> QED
          BY <1>1, <1>4, <2>2, <3>1, <3>3, <4>1 DEF IInv, TypeOK, SlotType
      <3>6. SlotInv'
        BY <1>2, <3>3, <3>4 DEF IInv, SlotInv
      <3>7. GoodInv'
        BY <3>2 DEF GoodInv
      <3>8. OutInv'
        <4>1. ASSUME NEW j \in InUse' PROVE slots'[j].pos = slots[j].pos /\ (Pressed(j)' <=> Pressed(j))
          BY <1>2, <3>2, <3>3, <3>4, PressedSame
        <4> QED
          BY <1>1, <3>4, <4>1, OutSame
      <3>9. TimerInv'
        BY <1>2, <2>2, <2>5, <3>1, <3>2, <3>3, <3>4 DEF IInv, TimerInv
      <3>10. StartInv'
        <4>1. StartOf(i)'
          BY <1>5, <2>5, <3>1, <3>3 DEF StartOf
        <4>2. ASSUME NEW j \in InUse, j # i PROVE StartOf(j)'
          <5>1. PICK m : m = slots[j].modified
            OBVIOUS
          <5>2. slots'[j] = slots[j] /\ (j \in timers => j \in timers')
            BY <1>2, <3>1, <3>3, <4>2
          <5> QED
            BY <1>2, <1>3, <2>3, <4>2, <5>1, <5>2, StartSame
        <4> QED
          BY <3>4, <4>1, <4>2 DEF StartInv
      <3> QED
        BY <3>2, <3>5, <3>6, <3>7, <3>8, <3>9, <3>10 DEF IInv
    <2> QED
      BY <2>4, <2>5
  <1> QED
    BY <1>6, <1>7

LEMMA DueKeeps ==
  ASSUME IInv, NEW i \in Slot, Due(i)
  PROVE  IInv'
  <1>1. /\ Quiet /\ i \in InUse /\ slots' = [slots EXCEPT ![i].due = TRUE]
        /\ UNCHANGED <<timers, todo, down, out, orphan, reach>>
    BY DEF Due
  <1>2. Pending = {} /\ InUse \subseteq Slot /\ todo = <<>>
    BY <1>1, QuietNow DEF Quiet
  <1>3. LineInv' /\ Pending' = {}
    BY <1>1, <1>2, NoCallsYet
  <1>4. /\ slots' \in [Slot -> SlotType]
        /\ \A j \in Slot : /\ slots'[j].used = slots[j].used /\ slots'[j].pos = slots[j].pos
                           /\ slots'[j].modified = slots[j].modified
                           /\ slots'[j].started = slots[j].started
                           /\ slots'[j].late = slots[j].late
    <2>1. slots \in [Slot -> SlotType] /\ slots[i] \in SlotType
      BY SlotTypes DEF IInv
    <2> QED
      BY <1>1, <2>1 DEF SlotType
  <1>5. InUse' = InUse
    BY <1>4 DEF InUse
  <1>6. TypeOK' /\ SlotInv' /\ GoodInv' /\ TimerInv'
    BY <1>1, <1>2, <1>3, <1>4, <1>5 DEF IInv, TypeOK, SlotType, SlotInv, GoodInv, TimerInv
  <1>7. OutInv'
    <2>1. ASSUME NEW j \in InUse' PROVE slots'[j].pos = slots[j].pos /\ (Pressed(j)' <=> Pressed(j))
      BY <1>2, <1>3, <1>4, <1>5, PressedSame
    <2> QED
      BY <1>1, <1>5, <2>1, OutSame
  <1>8. StartInv'
    <2> SUFFICES ASSUME NEW j \in InUse PROVE StartOf(j)'
      BY <1>5 DEF StartInv
    <2>1. PICK m : m = slots[j].modified
      OBVIOUS
    <2>2. ~Leaves(j) /\ ~EndsSoon(m) /\ (Held(m) => Held(m)') /\ j \in Slot
      BY <1>1, <1>2, QuietNow DEF Held
    <2> QED
      BY <1>1, <1>4, <2>1, <2>2, StartSame
  <1> QED
    BY <1>3, <1>6, <1>7, <1>8 DEF IInv

LEMMA TimerKeeps ==
  ASSUME IInv, NEW i \in Slot, Timer(i)
  PROVE  IInv'
  <1>1. /\ Quiet /\ i \in timers /\ timers' = timers \ {i} /\ UNCHANGED <<down, out, orphan, reach>>
        /\ i \in InUse /\ slots[i].modified = None
        /\ todo' = OnTimeout(i) /\ slots' = Forgotten({i})
    BY DEF Timer, IInv, TimerInv
  <1>2. /\ Pending = {} /\ InUse \subseteq Slot
        /\ \A m : ~EndsSoon(m) /\ \A j \in InUse : ~Leaves(j)
    BY <1>1, QuietNow
  <1>3. /\ ReleaseSlot(i) \in Call /\ ReleaseSlot(i).op = "release" /\ ReleaseSlot(i).slot = i
        /\ \A j \in Slot : PressSlot(j).op = "press" /\ ReleaseSlot(j).slot = j
    BY CallKinds
  <1>4. LineInv' /\ Pending' = IF Conf(i).lazy THEN {} ELSE {ReleaseSlot(i)}
    <2>1. CASE Conf(i).lazy
      <3>1. todo' = <<>>
        BY <1>1, <2>1 DEF OnTimeout
      <3> QED
        BY <2>1, <3>1, NoCallsYet
    <2>2. CASE ~Conf(i).lazy
      <3>1. todo' = <<ReleaseSlot(i)>>
        BY <1>1, <2>2 DEF OnTimeout
      <3>2. LineInv' /\ Pending' = {ReleaseSlot(i)}
        BY <1>3, <3>1, FirstCall
      <3> QED
        BY <2>2, <3>2
    <2> QED
      BY <2>1, <2>2
  <1>5. /\ InUse' = InUse \ LazyOf({i}) /\ (i \in LazyOf({i}) <=> Conf(i).lazy)
        /\ LazyOf({i}) \subseteq {i}
        /\ \A j \in LazyOf({i}) : slots'[j] = Free
        /\ \A j \in Slot \ LazyOf({i}) : slots'[j] = slots[j]
    <2>1. {i} \in SUBSET InUse
      BY <1>1
    <2> QED
      BY <1>1, <2>1, ForgottenIs DEF IInv, LazyOf
  <1>6. TypeOK'
    <2>1. \A j \in Slot : slots'[j] \in SlotType
      BY <1>5, SlotTypes DEF IInv
    <2>2. slots' \in [Slot -> SlotType]
      BY <1>1, <2>1 DEF Forgotten
    <2> QED
      BY <1>1, <2>2 DEF IInv, TypeOK, SlotType
  <1>7. SlotInv'
    <2>1. \A j \in InUse' : j \in InUse /\ slots'[j] = slots[j]
      BY <1>2, <1>5
    <2> QED
      BY <2>1 DEF IInv, SlotInv
  <1>8. ASSUME NEW x \in Pending' PROVE Good(x)'
    <2>1. x.op = "release" /\ x.slot = i /\ i \in InUse'
      BY <1>1, <1>3, <1>4, <1>5
    <2> QED
      BY <2>1 DEF Good, IsUse, IsEvent
  <1>9. OutInv'
    <2>1. ASSUME NEW j \in InUse' PROVE slots'[j].pos = slots[j].pos /\ (Pressed(j)' <=> Pressed(j))
      <3>1. j \in Slot /\ slots'[j] = slots[j] /\ PressSlot(j) \notin Pending' /\ PressSlot(j) \notin Pending
        BY <1>2, <1>3, <1>4, <1>5
      <3> QED
        BY <3>1, PressedSame
    <2>2. ASSUME NEW j \in InUse \ InUse' PROVE ~Pressed(j)
      BY <1>1, <1>5, <2>2 DEF Pressed
    <2> QED
      BY <1>1, <1>5, <2>1, <2>2, OutSame
  <1>10. TimerInv'
    <2> SUFFICES ASSUME NEW j \in timers'
                 PROVE  /\ j \in InUse' /\ slots'[j].started /\ slots'[j].modified = None
                        /\ PressSlot(j) \notin Pending' /\ ReleaseSlot(j) \notin Pending'
      BY DEF TimerInv
    <2>1. j \in InUse /\ j # i /\ j \in Slot /\ slots[j].started /\ slots[j].modified = None
      BY <1>1, <1>2 DEF IInv, TimerInv
    <2>2. j \in InUse' /\ slots'[j] = slots[j]
      BY <1>5, <2>1
    <2> QED
      BY <1>3, <1>4, <2>1, <2>2
  <1>11. StartInv'
    <2> SUFFICES ASSUME NEW j \in InUse' PROVE StartOf(j)'
      BY DEF StartInv
    <2>1. PICK m : m = slots[j].modified
      OBVIOUS
    <2>2. j \in InUse /\ j \in Slot /\ slots'[j] = slots[j] /\ (Held(m) => Held(m)')
      BY <1>1, <1>2, <1>5 DEF Held
    <2>3. j \in timers => j \in timers' \/ Leaves(j)'
      BY <1>1, <1>4, <1>5 DEF Leaves
    <2> QED
      BY <1>1, <1>2, <2>1, <2>2, <2>3, StartSame
  <1> QED
    BY <1>4, <1>6, <1>7, <1>8, <1>9, <1>10, <1>11 DEF IInv, GoodInv

-----------------------------------------------------------------------------
(* The theorems *)

LEMMA StartsSound ==
  ASSUME Init
  PROVE  IInv
  <1>1. TypeOK /\ InUse = {} /\ Pending = {}
    <2>1. InUse = {}
      BY DEF Init, InUse, Free
    <2>2. TypeOK
      BY DEF Init, TypeOK, Free
    <2>3. Pending = {}
      BY NoCallsYet DEF Init
    <2> QED
      BY <2>1, <2>2, <2>3
  <1>2. LineInv
    BY NoCall DEF Init, LineInv
  <1>3. GoodInv /\ SlotInv /\ StartInv
    BY <1>1 DEF GoodInv, SlotInv, StartInv
  <1>4. OutInv /\ TimerInv
    BY <1>1 DEF Init, OutInv, TimerInv, Found
  <1> QED
    BY <1>1, <1>2, <1>3, <1>4 DEF IInv

LEMMA IdleKeeps ==
  ASSUME IInv, UNCHANGED vars
  PROVE  IInv'
  <1>1. /\ slots' = slots /\ timers' = timers /\ todo' = todo /\ down' = down
        /\ out' = out /\ orphan' = orphan /\ reach' = reach
    BY DEF vars
  <1>2. Pending' = Pending /\ InUse' = InUse /\ Agree' = Agree
    BY <1>1 DEF Pending, InUse, Agree, Rel, Floor, Conf
  <1>3. TypeOK' /\ LineInv' /\ SlotInv'
    BY <1>1, <1>2 DEF IInv, TypeOK, LineInv, SlotInv
  <1>4. GoodInv'
    BY <1>1, <1>2 DEF IInv, GoodInv, Good, Held, Found, Conf
  <1>5. OutInv' /\ TimerInv'
    BY <1>1, <1>2 DEF IInv, OutInv, TimerInv, Pressed, Found, Conf
  <1>6. StartInv'
    BY <1>1, <1>2 DEF IInv, StartInv, StartOf, Leaves, EndsSoon, Held
  <1> QED
    BY <1>3, <1>4, <1>5, <1>6 DEF IInv

LEMMA EachStepKeeps ==
  ASSUME Grounded, IInv, [Next]_vars
  PROVE  IInv'
  <1>1. ASSUME NEW p \in Sticky, StickyPress(p) \/ StickyRelease(p) PROVE IInv'
    BY <1>1, StickyPressKeeps, StickyReleaseKeeps
  <1>2. ASSUME NEW k \in Key, KeyDown(k) \/ KeyUp(k) PROVE IInv'
    BY <1>2, KeyDownKeeps, KeyUpKeeps
  <1>3. ASSUME NEW i \in Slot, Due(i) \/ Timer(i) PROVE IInv'
    BY <1>3, DueKeeps, TimerKeeps
  <1>4. CASE HandleEvent
    BY <1>4, HandleEventKeeps
  <1>5. CASE ListenDown
    BY <1>5, ListenDownKeeps
  <1>6. CASE ListenUp
    BY <1>6, ListenUpKeeps
  <1>7. CASE PassOn
    BY <1>7, PassOnKeeps
  <1>8. CASE PressBinding
    BY <1>8, PressBindingKeeps
  <1>9. CASE ReleaseBinding
    BY <1>9, ReleaseBindingKeeps
  <1>10. CASE StoreSlot
    BY <1>10, StoreSlotKeeps
  <1>11. CASE UNCHANGED vars
    BY <1>11, IdleKeeps
  <1> QED
    BY <1>1, <1>2, <1>3, <1>4, <1>5, <1>6, <1>7, <1>8, <1>9, <1>10, <1>11 DEF Next, Handle

\* However the handlers nest: the calls still to be made are in order, and slots,
\* timers, bindings and keys agree with them. Handlers press and release bindings
\* in the middle of the listener's loops (behavior_sticky_key.c:210-330), so the
\* invariant is about every call that is still outstanding.
THEOREM Bookkeeping ==
  ASSUME Grounded
  PROVE  Spec => []IInv
  <1>1. Init => IInv
    BY StartsSound
  <1>2. IInv /\ [Next]_vars => IInv'
    BY EachStepKeeps
  <1> QED
    BY <1>1, <1>2, PTL DEF Spec

\* A binding is pressed at most once and never released unpressed unless lazy, a
\* timer belongs to a tapped key that is still to be used, and no slot is freed
\* while the listener has still to press or release it.
THEOREM SlotsAndTimers ==
  ASSUME Grounded
  PROVE  Spec => []StickySound
  <1>1. ASSUME IInv PROVE StickySound
    <2>1. TypeOK
      BY <1>1 DEF IInv
    <2>2. Paired
      BY <1>1 DEF IInv, OutInv, Paired
    <2>3. TimerOwned
      BY <1>1 DEF IInv, TimerInv, TimerOwned, InUse
    <2>4. SlotsLive
      <3> SUFFICES ASSUME NEW n \in DOMAIN todo, todo[n].op \in {"press", "release"}
                   PROVE  todo[n].slot \in InUse
        BY DEF SlotsLive
      <3>1. todo \in Seq(Call)
        BY <1>1 DEF IInv, LineInv
      <3>2. DOMAIN todo = 1 .. Len(todo)
        BY <3>1
      <3>3. todo[n] \in Pending
        BY <3>2 DEF Pending, Members
      <3> QED
        BY <1>1, <3>3 DEF IInv, GoodInv, Good, IsUse
    <2> QED
      BY <2>1, <2>2, <2>3, <2>4 DEF StickySound
  <1> QED
    BY <1>1, Bookkeeping, PTL

\* Once every handler has returned, a binding that is pressed while its own key is
\* up has a timer, or a key that is still down for it, or was let go too late.
THEOREM NothingStuck ==
  ASSUME Grounded
  PROVE  Spec => []NoStuckBinding
  <1>1. ASSUME IInv PROVE NoStuckBinding
    <2> SUFFICES ASSUME Quiet, NEW p \in Sticky \ down, out[p] # 0
                 PROVE  \E i \in Found(p) :
                          \/ i \in timers \/ slots[i].late
                          \/ slots[i].modified \in {CodeOf[k] : k \in Key \cap down}
                               \cup {Setup[q].code : q \in {r \in Sticky : out[r] > 0}}
      BY DEF NoStuckBinding
    <2>1. PICK i \in Found(p) : Pressed(i)
      BY <1>1 DEF IInv, OutInv
    <2>2. i \in InUse /\ slots[i].pos = p
      BY DEF Found
    <2>3. StartOf(i) /\ ~Leaves(i) /\ ~EndsSoon(slots[i].modified)
      BY <1>1, <2>2, QuietNow DEF IInv, StartInv
    <2>4. slots[i].started
      BY <2>2, <2>3 DEF StartOf
    <2>5. CASE slots[i].modified = None
      BY <2>3, <2>4, <2>5 DEF StartOf
    <2>6. CASE slots[i].modified # None
      BY <2>3, <2>4, <2>6 DEF StartOf, Held
    <2> QED
      BY <2>5, <2>6
  <1> QED
    BY <1>1, Bookkeeping, PTL

-----------------------------------------------------------------------------
(* The next key, and only it *)

\* The press of a key that no sticky key stands for.
Outer(x) == IsCode(x) /\ x.down /\ x.code \notin Modifier

\* A quick key that was tapped: no key has gone by until it is used, and none but
\* the one it is used for until it is released.
UsedOnce(i) ==
  slots[i].started /\ Conf(i).quick =>
    IF slots[i].modified = None THEN reach[slots[i].pos] = 0
    ELSE Leaves(i) /\ (reach[slots[i].pos] = 0 \/ \A x \in Pending : ~Outer(x))

ReachInv ==
  /\ \A i \in InUse : UsedOnce(i)
  /\ OnlyOneKey
  /\ \A x \in Pending : x.op = "pass" /\ Outer(x) => \A i \in InUse : slots[i].modified # None

\* A sticky binding presses modifiers.
OnlyModifiers == SCode \subseteq Modifier

\* Between handlers, a quick key that was tapped is still to be used.
LEMMA QuietReach ==
  ASSUME IInv, ReachInv, Quiet, InUse' \subseteq InUse,
         \A i \in InUse' : /\ slots'[i].pos = slots[i].pos
                           /\ slots'[i].modified = slots[i].modified
                           /\ \/ slots'[i].started = slots[i].started
                              \/ slots[i].modified = None /\ reach'[slots[i].pos] = 0,
         \A p \in Sticky : reach'[p] = reach[p] \/ reach'[p] = 0,
         \A x \in Pending' : x.op # "pass"
  PROVE  ReachInv'
  <1>1. ASSUME NEW i \in InUse' PROVE UsedOnce(i)'
    <2>1. i \in InUse /\ UsedOnce(i) /\ ~Leaves(i) /\ slots[i].pos \in Sticky
      BY QuietNow DEF ReachInv
    <2> QED
      BY <2>1 DEF UsedOnce, Conf
  <1>2. OnlyOneKey'
    BY DEF ReachInv, OnlyOneKey
  <1> QED
    BY <1>1, <1>2 DEF ReachInv

\* A call that puts no slot to use and raises no such press.
LEMMA BusyReach ==
  ASSUME IInv, ReachInv, todo # <<>>, InUse' \subseteq InUse,
         \A i \in InUse' : slots'[i] = slots[i], Rest \subseteq Pending', reach' = reach,
         Now.op = "release" => Now.slot \notin InUse',
         \A x \in Pending' : x \notin Rest => (Outer(x) => Outer(Now) /\ x.op # "pass")
  PROVE  ReachInv'
  <1>1. Pending = {Now} \cup Rest
    BY Stack DEF IInv
  <1>2. (\A x \in Pending : ~Outer(x)) => \A x \in Pending' : ~Outer(x)
    BY <1>1
  <1>3. ASSUME NEW i \in InUse' PROVE UsedOnce(i)'
    <2>1. i \in InUse /\ i \in Slot /\ UsedOnce(i) /\ slots'[i] = slots[i]
      BY DEF ReachInv, InUse
    <2>2. Leaves(i) => ReleaseSlot(i) \in Pending'
      BY <1>1, <2>1, CallKinds DEF Leaves
    <2>3. (\A x \in Pending : ~Outer(x)) => (\A x \in Pending : ~Outer(x))'
      BY <1>2 DEF Outer, IsCode
    <2> QED
      BY <2>1, <2>2, <2>3 DEF UsedOnce, Leaves, Conf
  <1>4. OnlyOneKey'
    BY DEF ReachInv, OnlyOneKey
  <1>5. ASSUME NEW x \in Pending', x.op = "pass", Outer(x), NEW i \in InUse'
        PROVE  slots'[i].modified # None
    <2>1. x \in Pending
      BY <1>1, <1>5
    <2> QED
      BY <1>5, <2>1 DEF ReachInv
  <1>6. (\A x \in Pending : x.op = "pass" /\ Outer(x) => \A i \in InUse : slots[i].modified # None)'
    BY <1>5 DEF Outer, IsCode
  <1> QED
    BY <1>3, <1>4, <1>6 DEF ReachInv

LEMMA ListenDownReach ==
  ASSUME Grounded, OnlyModifiers, IInv, ReachInv, ListenDown
  PROVE  ReachInv'
  <1> DEFINE caught == Catches(Now.code)
  <1>1. /\ todo # <<>> /\ IsEvent(Now) /\ Now.down
        /\ Pending' = {PressSlot(i) : i \in LazyOf(caught)}
                        \cup {Pass(Now.code, TRUE, WantOf(caught))}
                        \cup {ReleaseSlot(i) : i \in Quick(caught)} \cup Rest
    BY ListenDownNext
  <1>2. /\ InUse' = InUse /\ caught \subseteq InUse /\ InUse \subseteq Slot /\ reach' = reach
        /\ \A i \in Slot \ caught : slots'[i] = slots[i]
        /\ \A i \in Slot : slots'[i].pos = slots[i].pos /\ slots'[i].started = slots[i].started
        /\ \A i \in caught : slots'[i].modified = Now.code /\ slots[i].modified = None
    BY PutToUse DEF ListenDown, Catches
  <1>3. /\ Now \in Call /\ Now.code \in Code /\ Now.code # None
        /\ \A i \in caught : slots[i].pos \in Sticky
        /\ Pending = {Now} \cup Rest
    BY <1>1, EventNow, Stack DEF IInv
  <1>4. PICK e : e = Pass(Now.code, TRUE, WantOf(caught))
    OBVIOUS
  <1>5. /\ e.op = "pass" /\ e.code = Now.code /\ e.down
        /\ \A i \in Slot : PressSlot(i).op = "press" /\ ReleaseSlot(i).op = "release"
    BY <1>4, CallKinds DEF Pass
  <1>6. \A x \in Pending' : x \in Rest \/ x = e \/ ~IsCode(x)
    BY <1>1, <1>2, <1>4, <1>5 DEF LazyOf, Quick, IsCode
  <1>7. Outer(e) => Outer(Now)
    BY <1>1, <1>5 DEF Outer, IsCode, IsEvent
  <1>8. Rest \subseteq Pending' /\ \A i \in Quick(caught) : ReleaseSlot(i) \in Pending'
    BY <1>1
  <1> HIDE DEF caught
  <1>9. ASSUME NEW i \in InUse' PROVE UsedOnce(i)'
    <2>1. i \in InUse /\ i \in Slot /\ UsedOnce(i)
      BY <1>2 DEF ReachInv
    <2>2. CASE i \in caught
      <3>1. slots[i].started /\ Conf(i).quick => ReleaseSlot(i) \in Pending' /\ reach[slots[i].pos] = 0
        BY <1>2, <1>8, <2>1, <2>2 DEF Quick, UsedOnce
      <3> QED
        BY <1>2, <1>3, <2>1, <2>2, <3>1 DEF UsedOnce, Leaves, Conf
    <2>3. CASE i \notin caught
      <3>1. slots'[i] = slots[i]
        BY <1>2, <2>1, <2>3
      <3>2. Leaves(i) => ReleaseSlot(i) \in Pending'
        <4>1. ReleaseSlot(i) # Now
          BY <1>1, <1>5, <2>1 DEF IsEvent
        <4> QED
          BY <1>3, <1>8, <4>1 DEF Leaves
      <3>3. (\A x \in Pending : ~Outer(x)) => (\A x \in Pending : ~Outer(x))'
        BY <1>3, <1>6, <1>7 DEF Outer, IsCode
      <3> QED
        BY <1>2, <2>1, <3>1, <3>2, <3>3 DEF UsedOnce, Leaves, Conf
    <2> QED
      BY <2>2, <2>3
  <1>10. OnlyOneKey'
    BY <1>2 DEF ReachInv, OnlyOneKey
  <1>11. ASSUME NEW x \in Pending', x.op = "pass", Outer(x), NEW i \in InUse'
         PROVE  slots'[i].modified # None
    <2>1. i \in InUse /\ i \in Slot
      BY <1>2
    <2>2. CASE i \in caught
      BY <1>2, <1>3, <2>2
    <2>3. CASE x \in Rest /\ i \notin caught
      BY <1>2, <1>3, <1>11, <2>1, <2>3 DEF ReachInv
    <2>4. CASE x = e /\ i \notin caught
      <3>1. Now.code \notin Modifier
        BY <1>5, <1>11, <2>4 DEF Outer
      <3>2. Conf(i).code \in SCode
        BY <2>1 DEF Conf, SCode, IInv, SlotInv
      <3>3. slots[i].modified # None
        BY <2>1, <2>4, <3>1, <3>2 DEF Catches, OnlyModifiers, caught
      <3> QED
        BY <1>2, <2>1, <2>4, <3>3
    <2> QED
      BY <1>6, <1>11, <2>2, <2>3, <2>4 DEF IsCode
  <1>12. (\A x \in Pending : x.op = "pass" /\ Outer(x) => \A i \in InUse : slots[i].modified # None)'
    BY <1>11 DEF Outer, IsCode
  <1> QED
    BY <1>9, <1>10, <1>12 DEF ReachInv

LEMMA PassOnReach ==
  ASSUME Grounded, OnlyModifiers, IInv, ReachInv, PassOn
  PROVE  ReachInv'
  <1>1. /\ todo # <<>> /\ Now.op = "pass" /\ Pending' = Rest /\ InUse' = InUse
        /\ UNCHANGED <<slots, timers, down, out, orphan>>
    BY PassOnNext DEF InUse
  <1>2. CASE ~Outer(Now)
    <2>1. reach' = reach
      BY <1>1, <1>2 DEF PassOn, Outer, IsCode, Now
    <2> QED
      BY <1>1, <1>2, <2>1, BusyReach
  <1>3. CASE Outer(Now)
    <2>1. /\ Now \in Pending /\ Rest \subseteq Call
          /\ \A y \in Rest : Rel(Now, y)
      BY <1>1, Stack DEF IInv
    <2>2. \A i \in InUse : slots[i].modified # None
      BY <1>1, <1>3, <2>1 DEF ReachInv
    <2>3. \A y \in Rest : ~IsCode(y)
      BY <1>3, <2>1 DEF Rel, Outer, OnlyModifiers
    <2>4. \A i \in InUse : slots[i].started /\ Conf(i).quick => Leaves(i) /\ reach[slots[i].pos] = 0
      BY <1>3, <2>1, <2>2 DEF ReachInv, UsedOnce
    <2>5. \A x \in Pending' : ~IsCode(x)
      BY <1>1, <2>3
    <2>6. (\A x \in Pending : ~Outer(x))'
      BY <2>5 DEF Outer, IsCode
    <2>7. ASSUME NEW i \in InUse' PROVE UsedOnce(i)'
      <3>1. i \in InUse /\ i \in Slot
        BY <1>1, <2>7 DEF InUse
      <3>2. Leaves(i) => ReleaseSlot(i) \in Pending'
        <4>1. ReleaseSlot(i) # Now /\ Pending = {Now} \cup Rest
          BY <1>1, <3>1, CallKinds, Stack DEF IInv
        <4> QED
          BY <1>1, <4>1 DEF Leaves
      <3> QED
        BY <1>1, <2>2, <2>4, <2>6, <3>1, <3>2 DEF UsedOnce, Leaves, Conf
    <2>8. OnlyOneKey'
      <3>1. reach \in [Sticky -> 0 .. 2]
        BY DEF IInv, TypeOK
      <3>2. PICK under : under = {p \in Sticky : out[p] > 0 /\ \E i \in Found(p) : slots[i].started}
        OBVIOUS
      <3>3. reach' = [p \in Sticky |-> IF p \in under /\ reach[p] < 2 THEN reach[p] + 1 ELSE reach[p]]
        BY <1>1, <1>3, <3>2 DEF PassOn, Outer, Now
      <3>4. ASSUME NEW p \in under, Setup[p].quick PROVE p \in Sticky /\ reach[p] = 0
        BY <2>4, <3>2, <3>4 DEF Found, Conf
      <3> QED
        BY <3>1, <3>3, <3>4 DEF ReachInv, OnlyOneKey
    <2> QED
      BY <2>5, <2>7, <2>8 DEF ReachInv, Outer, IsCode
  <1> QED
    BY <1>2, <1>3

LEMMA ReachKeeps ==
  ASSUME Grounded, OnlyModifiers, IInv, ReachInv, [Next]_vars
  PROVE  ReachInv'
  <1>1. ASSUME NEW p \in Sticky, StickyPress(p) PROVE ReachInv'
    <2>1. /\ Quiet /\ todo' = ForEach(Found(p), ReleaseSlot) \o <<Store(p)>>
          /\ UNCHANGED <<slots, reach>>
      BY <1>1 DEF StickyPress
    <2>2. InUse' = InUse /\ Found(p) \in SUBSET Slot
      BY <2>1 DEF InUse, Found
    <2>3. /\ Store(p) \in Call /\ Store(p).op = "store"
          /\ \A i \in Slot : ReleaseSlot(i).op = "release"
      BY CallKinds
    <2>4. Pending' = {ReleaseSlot(i) : i \in Found(p)} \cup {Store(p)}
      <3> DEFINE G == ForEach(Found(p), ReleaseSlot)
                 one == <<Store(p)>>
      <3>1. G \in Seq(Call) /\ Members(G) = {ReleaseSlot(i) : i \in Found(p)}
        BY <2>2, UseCalls
      <3>2. one \in Seq(Call) /\ Members(one) = {Store(p)}
        BY <2>3, OneCall
      <3>3. todo' = G \o one
        BY <2>1
      <3> HIDE DEF G, one
      <3>4. Members(G \o one) = Members(G) \cup Members(one)
        BY <3>1, <3>2, JoinedCalls
      <3> QED
        BY <3>1, <3>2, <3>3, <3>4 DEF Pending
    <2>5. \A x \in Pending' : x.op # "pass"
      BY <2>2, <2>3, <2>4
    <2> QED
      BY <2>1, <2>2, <2>5, QuietReach
  <1>2. ASSUME NEW p \in Sticky, StickyRelease(p) PROVE ReachInv'
    <2>1. /\ Quiet
          /\ \E late \in {FALSE, MayBeLate} :
               IF Found(p) = {}
               THEN UNCHANGED <<slots, timers, todo, reach>>
               ELSE LET i == CHOOSE j \in Found(p) : TRUE IN
                    IF slots[i].modified # None
                    THEN /\ todo' = <<ReleaseSlot(i)>>
                         /\ UNCHANGED <<slots, timers, reach>>
                    ELSE /\ slots' = [slots EXCEPT ![i] = Tapped(slots[i], late)]
                         /\ timers' = IF late THEN timers ELSE timers \cup {i}
                         /\ reach' = [reach EXCEPT ![p] = 0]
                         /\ UNCHANGED todo
      BY <1>2 DEF StickyRelease
    <2>2. PICK i : i = CHOOSE j \in Found(p) : TRUE
      OBVIOUS
    <2>3. \/ UNCHANGED <<slots, todo, reach>>
          \/ i \in Found(p) /\ todo' = <<ReleaseSlot(i)>> /\ UNCHANGED <<slots, reach>>
          \/ /\ i \in Found(p) /\ slots[i].modified = None /\ UNCHANGED todo
             /\ reach' = [reach EXCEPT ![p] = 0]
             /\ \E late : slots' = [slots EXCEPT ![i] = Tapped(slots[i], late)]
      BY <2>1, <2>2
    <2>4. CASE UNCHANGED <<slots, todo, reach>>
      <3>1. InUse' = InUse /\ Pending' = {}
        BY <2>1, <2>4, NoCallsYet DEF InUse, Quiet
      <3> QED
        BY <2>1, <2>4, <3>1, QuietReach
    <2>5. CASE i \in Found(p) /\ todo' = <<ReleaseSlot(i)>> /\ UNCHANGED <<slots, reach>>
      <3>1. i \in Slot /\ InUse' = InUse
        BY <2>5 DEF Found, InUse
      <3>2. ReleaseSlot(i) \in Call /\ ReleaseSlot(i).op = "release"
        BY <3>1, CallKinds
      <3>3. Pending' = {ReleaseSlot(i)}
        BY <2>5, <3>2, FirstCall
      <3> QED
        BY <2>1, <2>5, <3>1, <3>2, <3>3, QuietReach
    <2>6. CASE /\ i \in Found(p) /\ slots[i].modified = None /\ UNCHANGED todo
               /\ reach' = [reach EXCEPT ![p] = 0]
               /\ \E late : slots' = [slots EXCEPT ![i] = Tapped(slots[i], late)]
      <3>1. PICK late : slots' = [slots EXCEPT ![i] = Tapped(slots[i], late)]
        BY <2>6
      <3>2. i \in Slot /\ i \in InUse /\ slots[i].pos = p /\ slots \in [Slot -> SlotType]
        BY <2>6, SlotTypes DEF Found, InUse, IInv
      <3>3. /\ Tapped(slots[i], late).used = slots[i].used
            /\ Tapped(slots[i], late).pos = slots[i].pos
            /\ Tapped(slots[i], late).modified = slots[i].modified
        BY <3>2 DEF SlotType, Tapped
      <3>4. /\ \A j \in Slot \ {i} : slots'[j] = slots[j]
            /\ slots'[i].used = slots[i].used /\ slots'[i].pos = slots[i].pos
            /\ slots'[i].modified = slots[i].modified
        BY <3>1, <3>2, <3>3
      <3>5. InUse' = InUse /\ Pending' = {}
        BY <2>1, <2>6, <3>4, NoCallsYet DEF InUse, Quiet
      <3>6. reach' \in [Sticky -> 0 .. 2] /\ reach'[p] = 0
            /\ \A q \in Sticky : reach'[q] = reach[q] \/ reach'[q] = 0
        BY <2>6 DEF IInv, TypeOK
      <3>7. ASSUME NEW j \in InUse'
            PROVE  /\ slots'[j].pos = slots[j].pos /\ slots'[j].modified = slots[j].modified
                   /\ \/ slots'[j].started = slots[j].started
                      \/ slots[j].modified = None /\ reach'[slots[j].pos] = 0
        <4>1. j \in Slot
          BY <3>5 DEF InUse
        <4> QED
          BY <2>6, <3>2, <3>4, <3>6, <4>1
      <3> QED
        BY <2>1, <3>5, <3>6, <3>7, QuietReach
    <2> QED
      BY <2>3, <2>4, <2>5, <2>6
  <1>3. ASSUME NEW k \in Key, KeyDown(k) \/ KeyUp(k) PROVE ReachInv'
    <2>1. PICK d \in BOOLEAN : Quiet /\ todo' = <<Event(CodeOf[k], d)>> /\ UNCHANGED <<slots, reach>>
      BY <1>3 DEF KeyDown, KeyUp
    <2>2. CodeOf[k] \in Code
      BY DEF Code
    <2>3. Event(CodeOf[k], d) \in Call /\ Event(CodeOf[k], d).op = "event"
      BY <2>2, CallKinds
    <2>4. Pending' = {Event(CodeOf[k], d)} /\ InUse' = InUse
      BY <2>1, <2>3, FirstCall DEF InUse
    <2> QED
      BY <2>1, <2>3, <2>4, QuietReach
  <1>4. ASSUME NEW i \in Slot, Due(i) PROVE ReachInv'
    <2>1. Quiet /\ i \in InUse /\ slots' = [slots EXCEPT ![i].due = TRUE] /\ UNCHANGED <<todo, reach>>
      BY <1>4 DEF Due
    <2>2. slots \in [Slot -> SlotType] /\ slots[i] \in SlotType
      BY SlotTypes DEF IInv
    <2>3. \A j \in Slot : /\ slots'[j].used = slots[j].used /\ slots'[j].pos = slots[j].pos
                          /\ slots'[j].modified = slots[j].modified
                          /\ slots'[j].started = slots[j].started
      BY <2>1, <2>2 DEF SlotType
    <2>4. InUse' = InUse /\ InUse \subseteq Slot /\ Pending' = {}
      BY <2>1, <2>3, NoCallsYet DEF InUse, Quiet
    <2> QED
      BY <2>1, <2>3, <2>4, QuietReach
  <1>5. ASSUME NEW i \in Slot, Timer(i) PROVE ReachInv'
    <2>1. /\ Quiet /\ i \in InUse /\ reach' = reach
          /\ todo' = OnTimeout(i) /\ slots' = Forgotten({i})
      BY <1>5 DEF Timer, IInv, TimerInv
    <2>2. /\ InUse' = InUse \ LazyOf({i})
          /\ \A j \in Slot \ LazyOf({i}) : slots'[j] = slots[j]
      BY <2>1, ForgottenIs DEF IInv
    <2>3. \A j \in InUse' : j \in Slot /\ slots'[j] = slots[j]
      BY <2>2 DEF InUse
    <2>4. \A x \in Pending' : x.op # "pass"
      <3>1. ReleaseSlot(i) \in Call /\ ReleaseSlot(i).op = "release"
        BY CallKinds
      <3>2. todo' = <<>> \/ todo' = <<ReleaseSlot(i)>>
        BY <2>1 DEF OnTimeout
      <3> QED
        BY <3>1, <3>2, FirstCall, NoCallsYet
    <2> QED
      BY <2>1, <2>2, <2>3, <2>4, QuietReach
  <1>6. CASE HandleEvent
    <2>1. todo # <<>> /\ Now.op = "event"
      BY <1>6 DEF HandleEvent, Quiet, Now
    <2>2. PICK late : EventDone(late)
      BY <1>6, HandleEventNext
    <2>3. /\ late \in SUBSET InUse /\ slots' = Forgotten(late) /\ reach' = reach
          /\ Pending' = {ReleaseSlot(i) : i \in OthersOf(late)} \cup {Listen(Now.code, Now.down)}
                          \cup Rest
      BY <2>2 DEF EventDone
    <2>4. /\ InUse' = InUse \ LazyOf(late)
          /\ \A j \in Slot \ LazyOf(late) : slots'[j] = slots[j]
      BY <2>3, ForgottenIs DEF IInv
    <2>5. \A j \in InUse' : slots'[j] = slots[j]
      BY <2>4 DEF InUse
    <2>6. PICK e : e = Listen(Now.code, Now.down)
      OBVIOUS
    <2>7. e.op = "listen" /\ e.code = Now.code /\ e.down = Now.down
      BY <2>6 DEF Listen
    <2>8. \A i \in OthersOf(late) : ReleaseSlot(i).op = "release"
      BY <2>3, CallKinds DEF OthersOf, InUse
    <2>9. \A x \in Pending' : x \notin Rest => (Outer(x) => Outer(Now) /\ x.op # "pass")
      BY <2>1, <2>3, <2>6, <2>7, <2>8 DEF Outer, IsCode
    <2> QED
      BY <2>1, <2>3, <2>4, <2>5, <2>9, BusyReach
  <1>7. CASE ListenDown
    BY <1>7, ListenDownReach
  <1>8. CASE ListenUp
    <2>1. /\ todo # <<>> /\ IsEvent(Now) /\ Ends(Now.code) \subseteq InUse
          /\ Pending' = {Pass(Now.code, FALSE, {})} \cup {ReleaseSlot(i) : i \in Ends(Now.code)}
                          \cup Rest
          /\ UNCHANGED <<slots, reach>>
      BY <1>8, ListenUpNext DEF ListenUp
    <2>2. PICK e : e = Pass(Now.code, FALSE, {})
      OBVIOUS
    <2>3. ~e.down
      BY <2>2 DEF Pass
    <2>4. \A i \in Ends(Now.code) : ReleaseSlot(i).op = "release"
      BY <2>1, CallKinds DEF InUse
    <2>5. \A x \in Pending' : x \notin Rest => ~Outer(x)
      BY <2>1, <2>2, <2>3, <2>4 DEF Outer, IsCode
    <2> QED
      BY <2>1, <2>5, BusyReach DEF InUse, IsEvent
  <1>9. CASE PassOn
    BY <1>9, PassOnReach
  <1>10. CASE PressBinding
    <2>1. /\ todo # <<>> /\ Now.op = "press" /\ UNCHANGED <<slots, reach>>
          /\ Pending' = {Event(Conf(Now.slot).code, TRUE)} \cup Rest
      BY <1>10, PressBindingNext DEF PressBinding
    <2>2. Conf(Now.slot).code \in SCode
      BY <2>1, UseNow DEF IsUse
    <2>3. ~Outer(Event(Conf(Now.slot).code, TRUE))
      BY <2>2 DEF Outer, OnlyModifiers, Event
    <2> QED
      BY <2>1, <2>3, BusyReach DEF InUse
  <1>11. CASE ReleaseBinding
    <2>1. /\ todo # <<>> /\ Now.op = "release" /\ reach' = reach
          /\ Pending' = {Event(Conf(Now.slot).code, FALSE)} \cup Rest
          /\ \A i \in Slot \ {Now.slot} : slots'[i] = slots[i]
          /\ InUse' = InUse \ {Now.slot}
      BY <1>11, ReleaseBindingNext DEF ReleaseBinding
    <2>2. \A i \in InUse' : slots'[i] = slots[i]
      BY <2>1 DEF InUse
    <2>3. ~Outer(Event(Conf(Now.slot).code, FALSE))
      BY DEF Outer, Event
    <2> QED
      BY <2>1, <2>2, <2>3, BusyReach
  <1>12. CASE StoreSlot
    <2>1. /\ todo # <<>> /\ Rest = {} /\ Now.op = "store" /\ Now.pos \in Sticky /\ reach' = reach
          /\ \/ slots' = slots /\ Pending' = {}
             \/ \E i \in Slot \ InUse :
                  /\ slots' = [slots EXCEPT ![i] = NewSlot(Now.pos)]
                  /\ Pending' = IF Setup[Now.pos].lazy THEN {} ELSE {PressSlot(i)}
      BY <1>12, StoreSlotNext DEF StoreSlot
    <2>2. Pending = {Now} /\ \A j \in InUse : j \in Slot /\ ~Leaves(j)
      <3>1. Pending = {Now}
        BY <2>1, Stack DEF IInv
      <3> QED
        BY <2>1, <3>1, CallKinds DEF Leaves, InUse
    <2>3. \A x \in Pending' : ~IsCode(x)
      BY <2>1, CallKinds DEF IsCode
    <2>4. ASSUME NEW j \in InUse' PROVE UsedOnce(j)'
      <3>1. CASE j \in InUse /\ slots'[j] = slots[j]
        BY <2>1, <2>2, <3>1 DEF ReachInv, UsedOnce, Conf
      <3>2. CASE ~slots'[j].started
        BY <3>2 DEF UsedOnce
      <3>3. slots \in [Slot -> SlotType] /\ ~NewSlot(Now.pos).started
        BY <2>1, SlotTypes DEF IInv
      <3> QED
        BY <2>1, <3>1, <3>2, <3>3 DEF InUse
    <2>5. OnlyOneKey'
      BY <2>1 DEF ReachInv, OnlyOneKey
    <2> QED
      BY <2>3, <2>4, <2>5 DEF ReachInv, Outer, IsCode
  <1>13. CASE UNCHANGED vars
    BY <1>13 DEF vars, ReachInv, UsedOnce, Leaves, Pending, InUse, Conf, OnlyOneKey
  <1> QED
    BY <1>1, <1>2, <1>3, <1>4, <1>5, <1>6, <1>7, <1>8, <1>9, <1>10, <1>11, <1>12, <1>13
       DEF Next, Handle

\* A key's press goes on with every sticky binding that it was caught by pressed,
\* also when pressing one of them raised events of its own.
LEMMA NextKeyIsModified ==
  ASSUME IInv
  PROVE  NextKeyModified
  <1> SUFFICES ASSUME ~Quiet, Now.op = "pass", NEW p \in Now.want PROVE out[p] = 1
    BY DEF NextKeyModified, Now
  <1>1. /\ todo # <<>> /\ Now \in Call /\ Now \in Pending /\ Pending = {Now} \cup Rest
        /\ \A y \in Rest : Rel(Now, y)
    BY Stack DEF IInv, Quiet
  <1>2. p \in Sticky /\ Now.code # None
    BY <1>1, CallParts DEF IsCode
  <1>3. PICK i \in Found(p) : slots[i].modified = Now.code
    BY <1>1 DEF IInv, GoodInv, Good
  <1>4. i \in Slot /\ slots[i].pos = p
    BY DEF Found, InUse
  <1>5. PressSlot(i) \notin Pending
    <2>1. PressSlot(i).op = "press" /\ PressSlot(i).slot = i
      BY <1>4, CallKinds
    <2> QED
      BY <1>1, <1>4, <2>1 DEF Rel
  <1>6. Pressed(i)
    BY <1>2, <1>3, <1>5 DEF Pressed
  <1> QED
    BY <1>2, <1>6 DEF IInv, OutInv

\* The next key gets the sticky keys, and with quick-release no second key does
\* (docs/docs/behaviors/sticky-key.md), when what they press are modifiers: a
\* sticky letter is itself a key that passes under the others.
THEOREM NextKey ==
  ASSUME Grounded, OnlyModifiers
  PROVE  Spec => []NextKeyOnly
  <1>1. Init => ReachInv
    <2> SUFFICES ASSUME Init PROVE ReachInv
      OBVIOUS
    <2>1. InUse = {} /\ Pending = {}
      BY NoCallsYet DEF Init, InUse, Free
    <2>2. OnlyOneKey
      BY DEF Init, OnlyOneKey
    <2> QED
      BY <2>1, <2>2 DEF ReachInv
  <1>2. IInv /\ ReachInv /\ [Next]_vars => ReachInv'
    BY ReachKeeps
  <1>3. IInv /\ ReachInv => NextKeyOnly
    BY NextKeyIsModified DEF NextKeyOnly, ReachInv
  <1> QED
    BY <1>1, <1>2, <1>3, Bookkeeping, PTL DEF Spec

=============================================================================
