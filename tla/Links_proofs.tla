---------------------------- MODULE Links_proofs ----------------------------
(***************************************************************************)
(* On the 2.4 GHz link reports arrive once, in order and complete, for any *)
(* sizes of the ring, of packets and of the library's quota. On Bluetooth  *)
(* a profile keeps the keys of its host, and a keyboard without a host can *)
(* be found by one or goes to sleep, for any profiles and hosts.           *)
(***************************************************************************)
EXTENDS Links, FiniteSetTheorems, SequenceTheorems, TLAPS

-----------------------------------------------------------------------------
(* Reports in line *)

Rising(s) == \A m, n \in 1 .. Len(s) : m < n => s[m] < s[n]
Before(s, t) == \A m \in 1 .. Len(s), n \in 1 .. Len(t) : s[m] < t[n]
In(x, s) == \E n \in 1 .. Len(s) : s[n] = x

\* What the host has, the packets and the ring, each rising and before the next.
Lined(g, packets, r) ==
  /\ Rising(g) /\ Rising(r) /\ Before(g, r)
  /\ \A i \in 1 .. Len(packets) :
       Rising(packets[i]) /\ Before(g, packets[i]) /\ Before(packets[i], r)
  /\ \A i, j \in 1 .. Len(packets) : i < j => Before(packets[i], packets[j])

\* A report that is still to be sent, or on its way.
Waiting(x, packets, r) == In(x, r) \/ \E i \in 1 .. Len(packets) : In(x, packets[i])

RingInv ==
  /\ got \in Seq(1 .. made) /\ ring \in Seq(1 .. made) /\ slots \in Seq(Seq(1 .. made))
  /\ Lined(got, slots, ring)
  /\ ~gaps => \A x \in 1 .. made : In(x, got) \/ Waiting(x, slots, ring)

\* A packet takes the front of the ring behind the packets before it.
LEMMA Split ==
  ASSUME NEW S \in SUBSET Nat, NEW r \in Seq(S), NEW n \in 1 .. Len(r)
  PROVE  LET a == SubSeq(r, 1, n)
             b == SubSeq(r, n + 1, Len(r))
         IN /\ a \in Seq(S) /\ Len(a) = n /\ \A k \in 1 .. n : a[k] = r[k]
            /\ b \in Seq(S) /\ Len(b) = Len(r) - n
            /\ \A k \in 1 .. Len(b) : b[k] = r[n + k]
            /\ \A x : In(x, r) <=> In(x, a) \/ In(x, b)
            /\ Rising(r) => Rising(a) /\ Rising(b) /\ Before(a, b)
  <1> DEFINE a == SubSeq(r, 1, n)
             b == SubSeq(r, n + 1, Len(r))
  <1>1. Len(r) \in Nat /\ n \in Nat /\ n <= Len(r)
    OBVIOUS
  <1>2. /\ a \in Seq(S) /\ Len(a) = n /\ \A k \in 1 .. n : a[k] = r[k]
        /\ b \in Seq(S) /\ Len(b) = Len(r) - n
        /\ \A k \in 1 .. Len(b) : b[k] = r[n + k]
    <2>1. \A k \in 1 .. Len(r) : r[k] \in S
      OBVIOUS
    <2>2. a \in Seq(S) /\ Len(a) = n /\ \A k \in 1 .. n : a[k] = r[k]
      <3>1. \A k \in 1 .. n : r[k] \in S
        BY <1>1, <2>1
      <3>2. /\ a \in Seq(S) /\ Len(a) = IF 1 <= n THEN n - 1 + 1 ELSE 0
            /\ \A k \in 1 .. n - 1 + 1 : a[k] = r[1 + k - 1]
        BY <1>1, <3>1, SubSeqProperties
      <3> HIDE DEF a
      <3>3. \A k \in 1 .. n : a[k] = r[k]
        BY <1>1, <3>2
      <3> QED
        BY <1>1, <3>2, <3>3
    <2>3. b \in Seq(S) /\ Len(b) = Len(r) - n /\ \A k \in 1 .. Len(b) : b[k] = r[n + k]
      <3> DEFINE from == n + 1
                 to == Len(r)
      <3>0. from \in Int /\ to \in Int
        BY <1>1
      <3>1. \A k \in from .. to : r[k] \in S
        BY <1>1, <2>1
      <3> HIDE DEF from, to
      <3>2. /\ SubSeq(r, from, to) \in Seq(S)
            /\ Len(SubSeq(r, from, to)) = IF from <= to THEN to - from + 1 ELSE 0
            /\ \A k \in 1 .. to - from + 1 : SubSeq(r, from, to)[k] = r[from + k - 1]
        BY <3>0, <3>1, SubSeqProperties
      <3>3. b = SubSeq(r, from, to)
        BY DEF from, to
      <3> HIDE DEF b
      <3>4. Len(b) = Len(r) - n
        BY <1>1, <3>2, <3>3 DEF from, to
      <3>5. ASSUME NEW k \in 1 .. Len(b) PROVE b[k] = r[n + k]
        <4>1. k \in 1 .. to - from + 1 /\ from + k - 1 = n + k
          BY <1>1, <3>4 DEF from, to
        <4> QED
          BY <3>2, <3>3, <4>1
      <3> QED
        BY <3>2, <3>3, <3>4, <3>5
    <2> QED
      BY <2>2, <2>3
  <1> HIDE DEF a, b
  <1>4. ASSUME NEW x, In(x, r) PROVE In(x, a) \/ In(x, b)
    <2>1. PICK k \in 1 .. Len(r) : r[k] = x
      BY <1>4 DEF In
    <2>2. CASE k <= n
      BY <1>2, <2>1, <2>2 DEF In
    <2>3. CASE k > n
      <3>1. k - n \in 1 .. Len(b) /\ n + (k - n) = k
        BY <1>1, <1>2, <2>3
      <3>2. b[k - n] = x
        BY <1>2, <2>1, <3>1
      <3> QED
        BY <3>1, <3>2 DEF In
    <2> QED
      BY <2>2, <2>3
  <1>5. ASSUME NEW x, In(x, a) \/ In(x, b) PROVE In(x, r)
    <2>1. CASE In(x, a)
      BY <1>1, <1>2, <2>1 DEF In
    <2>2. CASE In(x, b)
      <3>1. PICK k \in 1 .. Len(b) : b[k] = x
        BY <2>2 DEF In
      <3>2. n + k \in 1 .. Len(r) /\ r[n + k] = x
        BY <1>1, <1>2, <3>1
      <3> QED
        BY <3>2 DEF In
    <2> QED
      BY <1>5, <2>1, <2>2
  <1>6. ASSUME Rising(r) PROVE Rising(a) /\ Rising(b) /\ Before(a, b)
    <2>1. ASSUME NEW k \in 1 .. Len(a), NEW l \in 1 .. Len(a), k < l PROVE a[k] < a[l]
      <3>1. /\ k \in 1 .. Len(r) /\ l \in 1 .. Len(r) /\ k < l
            /\ a[k] = r[k] /\ a[l] = r[l]
        BY <1>1, <1>2, <2>1
      <3> QED
        BY ONLY <1>6, <3>1 DEF Rising
    <2>2. ASSUME NEW k \in 1 .. Len(b), NEW l \in 1 .. Len(b), k < l PROVE b[k] < b[l]
      <3>1. n + k \in 1 .. Len(r) /\ n + l \in 1 .. Len(r) /\ n + k < n + l
        BY <1>1, <1>2, <2>2
      <3> QED
        BY <1>2, <1>6, <3>1 DEF Rising
    <2>3. ASSUME NEW k \in 1 .. Len(a), NEW l \in 1 .. Len(b) PROVE a[k] < b[l]
      <3>1. k \in 1 .. Len(r) /\ n + l \in 1 .. Len(r) /\ k < n + l
        BY <1>1, <1>2
      <3> QED
        BY <1>2, <1>6, <3>1 DEF Rising
    <2>4. Rising(a) /\ Rising(b)
      BY ONLY <2>1, <2>2 DEF Rising
    <2>5. Before(a, b)
      BY ONLY <2>3 DEF Before
    <2> QED
      BY <2>4, <2>5
  <1> QED
    BY <1>2, <1>4, <1>5, <1>6 DEF a, b

LEMMA OneAtLeast ==
  ASSUME NEW S, NEW r \in Seq(S), r # <<>>
  PROVE  Cardinality(Together(r)) \in 1 .. Len(r)
  <1>1. Len(r) \in Nat \ {0} /\ 1 \in Together(r) /\ Together(r) \subseteq 1 .. Len(r)
    <2>1. Len(r) \in Nat \ {0}
      OBVIOUS
    <2> QED
      BY ONLY <2>1 DEF Together
  <1>2. IsFiniteSet(1 .. Len(r)) /\ Cardinality(1 .. Len(r)) = Len(r)
    <2>1. PICK l \in Nat \ {0} : l = Len(r)
      BY <1>1
    <2>2. IsFiniteSet(1 .. l) /\ Cardinality(1 .. l) = l
      BY FS_Interval
    <2> QED
      BY ONLY <2>1, <2>2
  <1> DEFINE c == Cardinality(Together(r))
  <1>3. IsFiniteSet(Together(r)) /\ c <= Len(r)
    <2>1. /\ IsFiniteSet(Together(r))
          /\ Cardinality(Together(r)) <= Cardinality(1 .. Len(r))
      BY ONLY <1>1, <1>2, FS_Subset
    <2> QED
      BY ONLY <1>2, <2>1 DEF c
  <1>4. c \in Nat
    BY <1>3, FS_CardinalityType
  <1>5. c # 0
    BY <1>1, <1>3, FS_EmptySet
  <1> HIDE DEF c
  <1>6. c \in 1 .. Len(r)
    <2>1. PICK l \in Nat : l = Len(r)
      BY <1>1
    <2> QED
      BY ONLY <1>3, <1>4, <1>5, <2>1
  <1> QED
    BY <1>6 DEF c

\* A round of the polling loop keeps the line, and what is waiting.
LEMMA PacketKeeps ==
  ASSUME NEW m \in Nat, NEW g \in Seq(1 .. m), NEW p,
         p.slots \in Seq(Seq(1 .. m)), p.ring \in Seq(1 .. m), Len(p.slots) <= Quota,
         Lined(g, p.slots, p.ring)
  PROVE  /\ Packet(p).slots \in Seq(Seq(1 .. m)) /\ Packet(p).ring \in Seq(1 .. m)
         /\ Len(Packet(p).slots) <= Quota /\ Len(Packet(p).ring) <= Len(p.ring)
         /\ Lined(g, Packet(p).slots, Packet(p).ring)
         /\ \A x : Waiting(x, Packet(p).slots, Packet(p).ring) <=> Waiting(x, p.slots, p.ring)
  <1>1. CASE p.ring = <<>> \/ Len(p.slots) = Quota
    BY <1>1 DEF Packet
  <1>2. CASE p.ring # <<>> /\ Len(p.slots) # Quota
    <2> DEFINE n == Cardinality(Together(p.ring))
               r == p.ring
               s == p.slots
               a == SubSeq(r, 1, n)
               b == SubSeq(r, n + 1, Len(r))
    <2>1. n \in 1 .. Len(r)
      BY <1>2, OneAtLeast
    <2>2. Packet(p).slots = Append(s, a) /\ Packet(p).ring = b
      BY <1>2 DEF Packet
    <2> HIDE DEF n
    <2>3. 1 .. m \in SUBSET Nat
      OBVIOUS
    <2>4. /\ a \in Seq(1 .. m) /\ Len(a) = n /\ \A k \in 1 .. n : a[k] = r[k]
          /\ b \in Seq(1 .. m) /\ Len(b) = Len(r) - n
          /\ \A k \in 1 .. Len(b) : b[k] = r[n + k]
          /\ \A x : In(x, r) <=> In(x, a) \/ In(x, b)
          /\ Rising(r) => Rising(a) /\ Rising(b) /\ Before(a, b)
      BY <2>1, <2>3, Split
    <2>5. s \in Seq(Seq(1 .. m)) /\ Len(s) \in Nat /\ Len(r) \in Nat /\ n \in Nat /\ Quota \in Nat
      <3>1. Quota \in Nat
        BY PptAssumption
      <3>2. s \in Seq(Seq(1 .. m)) /\ r \in Seq(1 .. m)
        OBVIOUS
      <3> HIDE DEF s, r
      <3>3. Len(s) \in Nat /\ Len(r) \in Nat
        BY <3>2
      <3>4. n \in Nat
        BY <2>1, <3>3 DEF r
      <3> QED
        BY <3>1, <3>2, <3>3, <3>4
    <2> HIDE DEF a, b, r, s
    <2> DEFINE t == Append(s, a)
    <2>6. /\ t \in Seq(Seq(1 .. m)) /\ Len(t) = Len(s) + 1 /\ t[Len(s) + 1] = a
          /\ \A k \in 1 .. Len(s) : t[k] = s[k]
      BY <2>4, <2>5, AppendProperties
    <2> HIDE DEF t
    <2>7. Len(t) <= Quota /\ Len(b) <= Len(r)
      <3>1. Len(s) <= Quota /\ Len(s) # Quota
        BY <1>2 DEF s
      <3>2. Len(t) <= Quota
        BY ONLY <2>5, <2>6, <3>1
      <3>3. Len(b) <= Len(r)
        BY ONLY <2>4, <2>5
      <3> QED
        BY ONLY <3>2, <3>3
    <2>8. Lined(g, s, r)
      BY DEF r, s
    <2>9. ASSUME NEW u, Before(u, r) PROVE Before(u, a) /\ Before(u, b)
      <3>1. ASSUME NEW j \in 1 .. Len(u), NEW k \in 1 .. Len(a) PROVE u[j] < a[k]
        <4>1. k \in 1 .. n /\ k \in 1 .. Len(r)
          <5>1. n <= Len(r)
            BY <2>1, <2>5 DEF r
          <5> QED
            BY <2>4, <2>5, <5>1
        <4>2. a[k] = r[k]
          BY <2>4, <4>1
        <4> QED
          BY <2>9, <4>1, <4>2 DEF Before
      <3>2. ASSUME NEW j \in 1 .. Len(u), NEW k \in 1 .. Len(b) PROVE u[j] < b[k]
        <4>0. Len(b) = Len(r) - n /\ k \in 1 .. Len(b) /\ b[k] = r[n + k]
          BY <2>4
        <4>1. n + k \in 1 .. Len(r) /\ b[k] = r[n + k]
          BY <2>5, <4>0
        <4> QED
          BY <2>9, <4>1 DEF Before
      <3> QED
        BY <3>1, <3>2 DEF Before
    <2>10. Lined(g, t, b)
      <3>1. Rising(g) /\ Rising(b) /\ Before(g, b)
        BY <2>4, <2>8, <2>9 DEF Lined
      <3>2. ASSUME NEW i \in 1 .. Len(t)
            PROVE  Rising(t[i]) /\ Before(g, t[i]) /\ Before(t[i], b)
        <4>1. CASE i \in 1 .. Len(s)
          BY <2>6, <2>8, <2>9, <4>1 DEF Lined
        <4>2. CASE i = Len(s) + 1
          BY <2>4, <2>6, <2>8, <2>9, <4>2 DEF Lined
        <4> QED
          BY <2>5, <2>6, <4>1, <4>2
      <3>3. ASSUME NEW i \in 1 .. Len(t), NEW j \in 1 .. Len(t), i < j PROVE Before(t[i], t[j])
        <4>1. i \in 1 .. Len(s)
          BY <2>5, <2>6, <3>3
        <4>2. CASE j \in 1 .. Len(s)
          BY <2>6, <2>8, <3>3, <4>1, <4>2 DEF Lined
        <4>3. CASE j = Len(s) + 1
          BY <2>6, <2>8, <2>9, <4>1, <4>3 DEF Lined
        <4> QED
          BY <2>5, <2>6, <4>2, <4>3
      <3> QED
        BY <3>1, <3>2, <3>3 DEF Lined
    <2>11. ASSUME NEW x PROVE Waiting(x, t, b) <=> Waiting(x, s, r)
      <3>1. ASSUME Waiting(x, t, b) PROVE Waiting(x, s, r)
        <4>1. CASE In(x, b)
          BY <2>4, <4>1 DEF Waiting
        <4>2. ASSUME NEW i \in 1 .. Len(t), In(x, t[i]) PROVE Waiting(x, s, r)
          <5>1. CASE i \in 1 .. Len(s)
            BY <2>6, <4>2, <5>1 DEF Waiting
          <5>2. CASE i = Len(s) + 1
            BY <2>4, <2>6, <4>2, <5>2 DEF Waiting
          <5> QED
            BY <2>5, <2>6, <5>1, <5>2
        <4> QED
          BY <3>1, <4>1, <4>2 DEF Waiting
      <3>2. ASSUME Waiting(x, s, r) PROVE Waiting(x, t, b)
        <4>1. CASE In(x, r)
          <5>1. CASE In(x, b)
            BY <5>1 DEF Waiting
          <5>2. CASE In(x, a)
            <6>1. Len(s) + 1 \in 1 .. Len(t)
              BY <2>5, <2>6
            <6> QED
              BY <2>6, <5>2, <6>1 DEF Waiting
          <5> QED
            BY <2>4, <4>1, <5>1, <5>2
        <4>2. ASSUME NEW i \in 1 .. Len(s), In(x, s[i]) PROVE Waiting(x, t, b)
          <5>1. i \in 1 .. Len(t) /\ t[i] = s[i]
            BY <2>5, <2>6
          <5> QED
            BY <4>2, <5>1 DEF Waiting
        <4> QED
          BY <3>2, <4>1, <4>2 DEF Waiting
      <3> QED
        BY <3>1, <3>2
    <2> QED
      BY <2>2, <2>4, <2>6, <2>7, <2>10, <2>11 DEF t, r, s
  <1> QED
    BY <1>1, <1>2

\* ... and so does the whole loop.
LEMMA PollKeeps ==
  ASSUME NEW m \in Nat, NEW r \in Seq(1 .. m), got \in Seq(1 .. m), slots \in Seq(Seq(1 .. m)),
         Len(slots) <= Quota, Lined(got, slots, r), Polled(r)
  PROVE  /\ slots' \in Seq(Seq(1 .. m)) /\ ring' \in Seq(1 .. m) /\ poll' \in BOOLEAN
         /\ Len(slots') <= Quota /\ Len(ring') <= Len(r)
         /\ Lined(got, slots', ring')
         /\ \A x : Waiting(x, slots', ring') <=> Waiting(x, slots, r)
  <1> DEFINE p == [ring |-> r, slots |-> slots]
             q == Packet(p)
             s == Packet(q)
             u == Packet(s)
             Kept(v) == /\ v.slots \in Seq(Seq(1 .. m)) /\ v.ring \in Seq(1 .. m)
                        /\ Len(v.slots) <= Quota /\ Len(v.ring) <= Len(r)
                        /\ Lined(got, v.slots, v.ring)
                        /\ \A x : Waiting(x, v.slots, v.ring) <=> Waiting(x, slots, r)
  <1>1. Kept(p)
    BY Z3
  <1>2. ASSUME NEW v, Kept(v) PROVE Kept(Packet(v))
    <2> HIDE DEF p, q, s, u
    <2>1. /\ Packet(v).slots \in Seq(Seq(1 .. m)) /\ Packet(v).ring \in Seq(1 .. m)
          /\ Len(Packet(v).slots) <= Quota /\ Len(Packet(v).ring) <= Len(v.ring)
          /\ Lined(got, Packet(v).slots, Packet(v).ring)
          /\ \A x : Waiting(x, Packet(v).slots, Packet(v).ring) <=> Waiting(x, v.slots, v.ring)
      BY <1>2, PacketKeeps
    <2>2. Len(Packet(v).ring) \in Nat /\ Len(v.ring) \in Nat /\ Len(r) \in Nat
      BY <1>2, <2>1
    <2>3. Len(Packet(v).ring) <= Len(r)
      BY <1>2, <2>1, <2>2
    <2>4. \A x : Waiting(x, Packet(v).slots, Packet(v).ring) <=> Waiting(x, slots, r)
      BY <1>2, <2>1
    <2> QED
      BY <2>1, <2>3, <2>4
  <1>3. u.ring = ring' /\ u.slots = slots' /\ poll' \in BOOLEAN
    BY DEF Polled, PollsAgain
  <1> HIDE DEF p, q, s, u, Kept
  <1>4. Kept(u)
    BY <1>1, <1>2 DEF q, s, u
  <1> QED
    BY <1>3, <1>4 DEF Kept

LEMMA Wider ==
  ASSUME NEW m \in Nat
  PROVE  /\ \A s \in Seq(1 .. m) : s \in Seq(1 .. m + 1) /\ \A k \in 1 .. Len(s) : s[k] < m + 1
         /\ \A s \in Seq(Seq(1 .. m)) : s \in Seq(Seq(1 .. m + 1))
  <1>1. 1 .. m \subseteq 1 .. m + 1
    OBVIOUS
  <1>2. \A s \in Seq(1 .. m) : s \in Seq(1 .. m + 1)
    BY <1>1, SeqMonotonic
  <1>3. Seq(1 .. m) \subseteq Seq(1 .. m + 1)
    BY <1>2
  <1>4. \A s \in Seq(Seq(1 .. m)) : s \in Seq(Seq(1 .. m + 1))
    BY <1>3, SeqMonotonic
  <1>5. ASSUME NEW s \in Seq(1 .. m), NEW k \in 1 .. Len(s) PROVE s[k] < m + 1
    <2>1. s[k] \in 1 .. m
      BY ElementOfSeq
    <2> QED
      BY <2>1
  <1> QED
    BY <1>2, <1>4, <1>5

\* A report is put behind those that wait; a full ring loses its oldest.
LEMMA PutKeeps ==
  ASSUME made \in Nat, got \in Seq(1 .. made), ring \in Seq(1 .. made),
         slots \in Seq(Seq(1 .. made)), Len(ring) <= RingSize, Lined(got, slots, ring)
  PROVE  /\ Put(made + 1) \in Seq(1 .. made + 1) /\ Len(Put(made + 1)) <= RingSize
         /\ Lined(got, slots, Put(made + 1))
         /\ Len(ring) # RingSize =>
              \A x : In(x, Put(made + 1)) <=> In(x, ring) \/ x = made + 1
  <1>0. RingSize \in Nat \ {0}
    BY PptAssumption
  <1> DEFINE r == Put(made + 1)
             S == 1 .. made + 1
             low(s) == \A k \in 1 .. Len(s) : s[k] < made + 1
  <1>1. ring \in Seq(S) /\ made + 1 \in S /\ Len(ring) \in Nat
    BY Wider
  <1>2. low(got) /\ low(ring) /\ \A i \in 1 .. Len(slots) : low(slots[i])
    <2>1. \A s \in Seq(1 .. made) : low(s)
      BY Wider
    <2>2. \A i \in 1 .. Len(slots) : slots[i] \in Seq(1 .. made)
      OBVIOUS
    <2> QED
      BY <2>1, <2>2
  <1>3. CASE Len(ring) < RingSize
    <2>1. r = Append(ring, made + 1)
      BY <1>3 DEF Put
    <2> HIDE DEF r, S
    <2>2. /\ r \in Seq(S) /\ Len(r) = Len(ring) + 1 /\ r[Len(ring) + 1] = made + 1
          /\ \A k \in 1 .. Len(ring) : r[k] = ring[k]
      BY <1>1, <2>1, AppendProperties
    <2>3. \A k \in 1 .. Len(r) : k \in 1 .. Len(ring) \/ k = Len(ring) + 1
      BY <1>1, <2>2
    <2>4. ASSUME NEW s, Before(s, ring), low(s) PROVE Before(s, r)
      BY <2>2, <2>3, <2>4 DEF Before
    <2>5. Rising(r)
      <3>1. ASSUME NEW k \in 1 .. Len(r), NEW l \in 1 .. Len(r), k < l PROVE r[k] < r[l]
        <4>1. k \in 1 .. Len(ring)
          BY <1>1, <2>2, <3>1
        <4>2. CASE l \in 1 .. Len(ring)
          BY <2>2, <3>1, <4>1, <4>2 DEF Lined, Rising
        <4>3. CASE l = Len(ring) + 1
          BY <1>2, <2>2, <4>1, <4>3
        <4> QED
          BY <2>3, <4>2, <4>3
      <3> QED
        BY <3>1 DEF Rising
    <2>6. Lined(got, slots, r)
      BY <1>2, <2>4, <2>5 DEF Lined
    <2>7. ASSUME NEW x PROVE In(x, r) <=> In(x, ring) \/ x = made + 1
      <3>1. Len(ring) + 1 \in 1 .. Len(r) /\ \A k \in 1 .. Len(ring) : k \in 1 .. Len(r)
        BY <1>1, <2>2
      <3> QED
        BY <2>2, <2>3, <3>1 DEF In
    <2>8. Len(r) <= RingSize
      BY <1>0, <1>1, <1>3, <2>2
    <2> QED
      BY <2>2, <2>6, <2>7, <2>8 DEF r, S
  <1>4. CASE ~(Len(ring) < RingSize)
    <2>1. r = Tail(ring) /\ ring # <<>> /\ Len(ring) = RingSize
      BY <1>0, <1>1, <1>4 DEF Put
    <2> HIDE DEF r, S
    <2>2. /\ r \in Seq(S) /\ Len(r) = Len(ring) - 1
          /\ \A k \in 1 .. Len(r) : r[k] = ring[k + 1]
      BY <1>1, <2>1, HeadTailProperties
    <2>3. \A k \in 1 .. Len(r) : k + 1 \in 1 .. Len(ring)
      BY <1>1, <2>2
    <2>4. ASSUME NEW s, Before(s, ring) PROVE Before(s, r)
      BY <2>2, <2>3, <2>4 DEF Before
    <2>5. ASSUME NEW k \in 1 .. Len(r), NEW l \in 1 .. Len(r), k < l PROVE r[k] < r[l]
      <3>1. k + 1 \in 1 .. Len(ring) /\ l + 1 \in 1 .. Len(ring) /\ k + 1 < l + 1
        BY <2>3, <2>5
      <3> QED
        BY <2>2, <3>1 DEF Lined, Rising
    <2>6. Lined(got, slots, r)
      BY <2>4, <2>5 DEF Lined, Rising
    <2>7. Len(r) <= RingSize
      BY <1>0, <1>1, <2>1, <2>2
    <2> QED
      BY <2>1, <2>2, <2>6, <2>7 DEF r, S
  <1> QED
    BY <1>3, <1>4

LEMMA Joined ==
  ASSUME NEW S, NEW u \in Seq(S), NEW v \in Seq(S)
  PROVE  /\ u \o v \in Seq(S) /\ Len(u \o v) = Len(u) + Len(v)
         /\ \A k \in 1 .. Len(u) : k \in 1 .. Len(u \o v) /\ (u \o v)[k] = u[k]
         /\ \A k \in 1 .. Len(v) :
              Len(u) + k \in 1 .. Len(u \o v) /\ (u \o v)[Len(u) + k] = v[k]
         /\ \A k \in 1 .. Len(u \o v) : \/ k \in 1 .. Len(u) /\ (u \o v)[k] = u[k]
                                        \/ k - Len(u) \in 1 .. Len(v) /\ (u \o v)[k] = v[k - Len(u)]
  <1> DEFINE w == u \o v
             m == Len(u)
             n == Len(v)
  <1>1. m \in Nat /\ n \in Nat
    OBVIOUS
  <1>2. /\ w \in Seq(S) /\ Len(w) = m + n
        /\ \A k \in 1 .. m + n : w[k] = IF k <= m THEN u[k] ELSE v[k - m]
    BY ConcatProperties
  <1> HIDE DEF w, m, n
  <1>3. ASSUME NEW k \in 1 .. m PROVE k \in 1 .. Len(w) /\ w[k] = u[k]
    <2>1. k \in 1 .. m + n /\ k <= m
      BY <1>1
    <2> QED
      BY <1>2, <2>1
  <1>4. ASSUME NEW k \in 1 .. n PROVE m + k \in 1 .. Len(w) /\ w[m + k] = v[k]
    <2>1. m + k \in 1 .. m + n /\ ~(m + k <= m) /\ (m + k) - m = k
      BY <1>1
    <2> QED
      BY <1>2, <2>1
  <1>5. ASSUME NEW k \in 1 .. Len(w)
        PROVE  \/ k \in 1 .. m /\ w[k] = u[k]
               \/ k - m \in 1 .. n /\ w[k] = v[k - m]
    <2>1. k \in 1 .. m + n
      BY <1>2
    <2>2. CASE k <= m
      <3>1. k \in 1 .. m
        BY <1>1, <2>1, <2>2
      <3> QED
        BY <1>3, <3>1
    <2>3. CASE ~(k <= m)
      <3>1. k - m \in 1 .. n
        BY <1>1, <2>1, <2>3
      <3> QED
        BY <1>2, <2>1, <2>3, <3>1
    <2> QED
      BY <2>2, <2>3
  <1> QED
    BY <1>2, <1>3, <1>4, <1>5 DEF w, m, n

\* The same, as one fact.
JoinOf(S, u, v) ==
  /\ u \o v \in Seq(S) /\ Len(u \o v) = Len(u) + Len(v)
  /\ \A k \in 1 .. Len(u) : k \in 1 .. Len(u \o v) /\ (u \o v)[k] = u[k]
  /\ \A k \in 1 .. Len(v) : Len(u) + k \in 1 .. Len(u \o v) /\ (u \o v)[Len(u) + k] = v[k]

LEMMA JoinedUp ==
  ASSUME NEW S, NEW u \in Seq(S), NEW v \in Seq(S)
  PROVE  JoinOf(S, u, v)
  BY Joined DEF JoinOf

\* The front packet arrives.
LEMMA AirKeeps ==
  ASSUME made \in Nat, got \in Seq(1 .. made), slots \in Seq(Seq(1 .. made)), slots # <<>>,
         NEW r, Lined(got, slots, r)
  PROVE  LET g == got \o Head(slots)
         IN  /\ g \in Seq(1 .. made) /\ Tail(slots) \in Seq(Seq(1 .. made))
             /\ Len(Tail(slots)) <= Len(slots)
             /\ Lined(g, Tail(slots), r)
             /\ \A x : In(x, g) \/ Waiting(x, Tail(slots), r) <=> In(x, got) \/ Waiting(x, slots, r)
  <1> DEFINE h == Head(slots)
             s == Tail(slots)
             g == got \o h
             n == Len(got)
  <1>1. /\ h \in Seq(1 .. made) /\ h = slots[1] /\ s \in Seq(Seq(1 .. made))
        /\ Len(s) = Len(slots) - 1 /\ \A k \in 1 .. Len(s) : s[k] = slots[k + 1]
    BY HeadTailProperties
  <1> HIDE DEF h, s
  <1>2. n \in Nat /\ Len(slots) \in Nat \ {0} /\ Len(h) \in Nat
    BY <1>1
  <1>3. /\ g \in Seq(1 .. made) /\ Len(g) = n + Len(h)
        /\ \A k \in 1 .. n : k \in 1 .. Len(g) /\ g[k] = got[k]
        /\ \A k \in 1 .. Len(h) : n + k \in 1 .. Len(g) /\ g[n + k] = h[k]
        /\ \A k \in 1 .. Len(g) : \/ k \in 1 .. n /\ g[k] = got[k]
                                  \/ k - n \in 1 .. Len(h) /\ g[k] = h[k - n]
    <2> DEFINE T == 1 .. made
    <2>1. got \in Seq(T) /\ h \in Seq(T)
      BY <1>1
    <2> HIDE DEF T
    <2>2. /\ g \in Seq(T) /\ Len(g) = n + Len(h)
          /\ \A k \in 1 .. n : k \in 1 .. Len(g) /\ g[k] = got[k]
          /\ \A k \in 1 .. Len(h) : n + k \in 1 .. Len(g) /\ g[n + k] = h[k]
      <3>1. JoinOf(T, got, h)
        BY ONLY <2>1, JoinedUp, Zenon
      <3> QED
        BY ONLY <3>1, Zenon DEF JoinOf, g, n
    <2>3. ASSUME NEW k \in 1 .. Len(g)
          PROVE  \/ k \in 1 .. n /\ g[k] = got[k]
                 \/ k - n \in 1 .. Len(h) /\ g[k] = h[k - n]
      <3> HIDE DEF g, n
      <3>1. CASE k <= n
        BY <1>2, <2>2, <3>1
      <3>2. CASE ~(k <= n)
        <4>1. k - n \in 1 .. Len(h) /\ n + (k - n) = k
          BY ONLY <1>2, <2>2, <3>2, k \in 1 .. Len(g)
        <4> QED
          BY ONLY <2>2, <4>1
      <3> QED
        BY <3>1, <3>2
    <2> QED
      BY <2>2, <2>3 DEF T
  <1> HIDE DEF g, n
  <1>4. \A k \in 1 .. Len(g) : \/ k \in 1 .. n /\ g[k] = got[k]
                               \/ k - n \in 1 .. Len(h) /\ g[k] = h[k - n]
    BY <1>3
  <1>5. \A k \in 1 .. Len(s) : k + 1 \in 1 .. Len(slots) /\ 1 < k + 1 /\ s[k] = slots[k + 1]
    BY <1>1, <1>2
  <1>6. 1 \in 1 .. Len(slots) /\ \A k \in 1 .. Len(slots) : k = 1 \/ k - 1 \in 1 .. Len(s)
    BY <1>1, <1>2
  <1>7. Rising(h) /\ Before(got, h) /\ Before(h, r)
    BY <1>1, <1>6 DEF Lined
  <1>8. Rising(g)
    <2>1. ASSUME NEW k \in 1 .. Len(g), NEW l \in 1 .. Len(g), k < l PROVE g[k] < g[l]
      <3>1. CASE k \in 1 .. n /\ g[k] = got[k] /\ l \in 1 .. n /\ g[l] = got[l]
        BY <2>1, <3>1 DEF Lined, Rising, n
      <3>2. CASE k \in 1 .. n /\ g[k] = got[k] /\ l - n \in 1 .. Len(h) /\ g[l] = h[l - n]
        BY <1>7, <3>2 DEF Before, n
      <3>3. CASE /\ k - n \in 1 .. Len(h) /\ g[k] = h[k - n]
                 /\ l - n \in 1 .. Len(h) /\ g[l] = h[l - n]
        <4>1. k - n < l - n
          BY <1>2, <1>3, <2>1
        <4> QED
          BY <1>7, <3>3, <4>1 DEF Rising
      <3>4. CASE k - n \in 1 .. Len(h) /\ l \in 1 .. n
        BY <1>2, <2>1, <3>4
      <3> QED
        BY <1>4, <3>1, <3>2, <3>3, <3>4
    <2> QED
      BY <2>1 DEF Rising
  <1>9. ASSUME NEW u, Before(got, u), Before(h, u) PROVE Before(g, u)
    BY <1>4, <1>9 DEF Before, n
  <1>10. Lined(g, s, r)
    <2>1. Rising(r) /\ Before(g, r)
      BY <1>7, <1>9 DEF Lined
    <2>2. ASSUME NEW i \in 1 .. Len(s) PROVE Rising(s[i]) /\ Before(g, s[i]) /\ Before(s[i], r)
      <3>1. s[i] = slots[i + 1] /\ i + 1 \in 1 .. Len(slots) /\ 1 < i + 1
        BY <1>5
      <3>2. Before(h, s[i])
        BY <1>1, <1>6, <3>1 DEF Lined
      <3> QED
        BY <1>9, <3>1, <3>2 DEF Lined
    <2>3. ASSUME NEW i \in 1 .. Len(s), NEW j \in 1 .. Len(s), i < j PROVE Before(s[i], s[j])
      <3>1. i + 1 < j + 1
        BY <2>3
      <3> QED
        BY <1>5, <3>1 DEF Lined
    <2> QED
      BY <1>8, <2>1, <2>2, <2>3 DEF Lined
  <1>11. ASSUME NEW x PROVE In(x, g) <=> In(x, got) \/ In(x, h)
    BY <1>3 DEF In, n
  <1>12. ASSUME NEW x PROVE Waiting(x, slots, r) <=> In(x, h) \/ Waiting(x, s, r)
    <2>1. ASSUME NEW i \in 1 .. Len(slots), In(x, slots[i]) PROVE In(x, h) \/ Waiting(x, s, r)
      <3>1. CASE i = 1
        BY <1>1, <2>1, <3>1
      <3>2. CASE i - 1 \in 1 .. Len(s)
        <4>1. s[i - 1] = slots[i]
          <5>1. i - 1 + 1 = i
            OBVIOUS
          <5>2. s[i - 1] = slots[i - 1 + 1]
            BY <1>1, <3>2
          <5> QED
            BY <5>1, <5>2
        <4> QED
          BY <2>1, <3>2, <4>1 DEF Waiting
      <3> QED
        BY <1>6, <3>1, <3>2
    <2>2. ASSUME In(x, h) PROVE Waiting(x, slots, r)
      BY <1>1, <1>6, <2>2 DEF Waiting
    <2>3. ASSUME NEW i \in 1 .. Len(s), In(x, s[i]) PROVE Waiting(x, slots, r)
      BY <1>5, <2>3 DEF Waiting
    <2> QED
      BY <2>1, <2>2, <2>3 DEF Waiting
  <1>13. Len(s) <= Len(slots)
    BY <1>1, <1>2
  <1> QED
    BY <1>1, <1>3, <1>10, <1>11, <1>12, <1>13 DEF g, h, s

LEMMA LostKeeps ==
  ASSUME NEW g, NEW s, NEW r, Lined(g, s, r)
  PROVE  Lined(g, <<>>, r) /\ Lined(g, s, <<>>) /\ Lined(g, <<>>, <<>>)
  <1>1. Len(<<>>) = 0 /\ 1 .. 0 = {}
    OBVIOUS
  <1> QED
    BY <1>1 DEF Lined, Rising, Before

-----------------------------------------------------------------------------
(* Every step of the link keeps the line. *)

ReportsInv ==
  /\ {poll, kick, gaps} \subseteq BOOLEAN /\ made \in 0 .. MaxReports
  /\ Len(ring) <= RingSize /\ Len(slots) <= Quota
  /\ RingInv

LinkTypes ==
  /\ status \in {"idle", "pairing", "paired", "connecting", "connected"}
  /\ radio \in {"off", "pairing", "connecting", "linked"}
  /\ {bonded, display} \subseteq BOOLEAN
  /\ pairCount \in 0 .. PairMax /\ reconnCount \in Nat
  /\ lostAt \in {"none", "recent", "old"} /\ losses \in 0 .. MaxLosses

LEMMA PptStarts == PptInit => ReportsInv /\ LinkTypes
  <1> SUFFICES ASSUME PptInit PROVE ReportsInv /\ LinkTypes
    OBVIOUS
  <1>0. {RingSize, Quota, MaxReports, PairMax, MaxLosses} \subseteq Nat
    BY PptAssumption
  <1>1. LinkTypes
    <2>1. /\ status \in {"idle", "connecting"} /\ radio \in {"off", "connecting"}
          /\ bonded \in BOOLEAN /\ display = FALSE
          /\ pairCount = 0 /\ reconnCount = 1 /\ lostAt = "none" /\ losses = 0
      BY DEF PptInit
    <2>2. pairCount \in 0 .. PairMax /\ losses \in 0 .. MaxLosses /\ reconnCount \in Nat
      BY <1>0, <2>1
    <2> QED
      BY <2>1, <2>2 DEF LinkTypes
  <1>2. made = 0 /\ 1 .. made = {} /\ got = <<>> /\ slots = <<>> /\ ring = <<>> /\ Len(<<>>) = 0
    BY DEF PptInit
  <1>3. got \in Seq(1 .. made) /\ ring \in Seq(1 .. made) /\ slots \in Seq(Seq(1 .. made))
    BY <1>2, EmptySeq
  <1>4. Lined(got, slots, ring)
    BY <1>2 DEF Lined, Rising, Before
  <1>5. Len(ring) <= RingSize /\ Len(slots) <= Quota /\ made \in 0 .. MaxReports
    <2>1. Len(ring) = 0 /\ Len(slots) = 0
      BY <1>2
    <2> QED
      BY <1>0, <1>2, <2>1
  <1>6. {poll, kick, gaps} \subseteq BOOLEAN
    BY DEF PptInit
  <1>7. \A x \in 1 .. made : In(x, got) \/ Waiting(x, slots, ring)
    BY <1>2
  <1> QED
    BY <1>1, <1>3, <1>4, <1>5, <1>6, <1>7 DEF ReportsInv, RingInv

\* The ring, the packets or both are lost: what is left stays in line.
LEMMA LossKeeps ==
  ASSUME ReportsInv, slots' \in {slots, <<>>}, ring' \in {ring, <<>>},
         poll' \in {poll, FALSE}, kick' \in {kick, FALSE}, made' = made, got' = got,
         gaps' = (gaps \/ ring' # ring \/ slots' # slots)
  PROVE  ReportsInv'
  <1>0. {RingSize, Quota} \subseteq Nat
    BY PptAssumption
  <1>1. Lined(got, slots', ring')
    BY LostKeeps DEF ReportsInv, RingInv
  <1>2. got' \in Seq(1 .. made') /\ ring' \in Seq(1 .. made') /\ slots' \in Seq(Seq(1 .. made'))
    BY EmptySeq DEF ReportsInv, RingInv
  <1>3. Len(ring') <= RingSize /\ Len(slots') <= Quota
    BY <1>0, EmptySeq DEF ReportsInv
  <1>4. ~gaps' => \A x \in 1 .. made' : In(x, got') \/ Waiting(x, slots', ring')
    BY DEF ReportsInv, RingInv
  <1>5. {poll', kick', gaps'} \subseteq BOOLEAN
    BY DEF ReportsInv
  <1> QED
    BY <1>1, <1>2, <1>3, <1>4, <1>5 DEF ReportsInv, RingInv

\* A report is accepted, and perhaps sent at once.
LEMMA AcceptKeeps ==
  ASSUME ReportsInv, made < MaxReports, made' = made + 1,
         gaps' = (gaps \/ Len(ring) = RingSize), got' = got, kick' \in BOOLEAN,
         \/ ring' = Put(made + 1) /\ slots' = slots /\ poll' = poll
         \/ Polled(Put(made + 1))
  PROVE  ReportsInv'
  <1> DEFINE m == made + 1
             r == Put(made + 1)
  <1>0. made \in Nat /\ m \in Nat /\ MaxReports \in Nat /\ m \in 0 .. MaxReports
    BY PptAssumption DEF ReportsInv
  <1>1. /\ r \in Seq(1 .. m) /\ Len(r) <= RingSize /\ Lined(got, slots, r)
        /\ Len(ring) # RingSize => \A x : In(x, r) <=> In(x, ring) \/ x = m
    BY <1>0, PutKeeps DEF ReportsInv, RingInv
  <1>2. got \in Seq(1 .. m) /\ slots \in Seq(Seq(1 .. m)) /\ Len(slots) <= Quota
    BY <1>0, Wider DEF ReportsInv, RingInv
  <1> HIDE DEF m, r
  <1>3. /\ slots' \in Seq(Seq(1 .. m)) /\ ring' \in Seq(1 .. m) /\ poll' \in BOOLEAN
        /\ Len(slots') <= Quota /\ Len(ring') <= Len(r)
        /\ Lined(got, slots', ring')
        /\ \A x : Waiting(x, slots', ring') <=> Waiting(x, slots, r)
    <2>1. CASE ring' = r /\ slots' = slots /\ poll' = poll
      <3>1. Len(r) \in Nat
        BY <1>1
      <3>2. poll' \in BOOLEAN
        BY <2>1 DEF ReportsInv
      <3> QED
        BY <1>1, <1>2, <2>1, <3>1, <3>2
    <2>2. CASE Polled(r)
      BY <1>0, <1>1, <1>2, <2>2, PollKeeps
    <2> QED
      BY <2>1, <2>2 DEF r
  <1>4. Len(ring') <= RingSize
    <2>1. Len(r) \in Nat /\ Len(ring') \in Nat /\ RingSize \in Nat
      BY <1>1, <1>3, PptAssumption
    <2> QED
      BY <1>1, <1>3, <2>1
  <1>5. ASSUME ~gaps', NEW x \in 1 .. m PROVE In(x, got) \/ Waiting(x, slots', ring')
    <2>1. In(x, r) <=> In(x, ring) \/ x = m
      BY <1>1, <1>5
    <2>2. CASE x = m
      BY <1>3, <2>1, <2>2 DEF Waiting
    <2>3. CASE x \in 1 .. made
      <3>1. In(x, got) \/ Waiting(x, slots, ring)
        BY <1>5, <2>3 DEF ReportsInv, RingInv
      <3> QED
        BY <1>3, <2>1, <3>1 DEF Waiting
    <2> QED
      BY <1>0, <2>2, <2>3 DEF m
  <1>6. {poll', kick', gaps'} \subseteq BOOLEAN
    BY <1>3 DEF ReportsInv
  <1>7. made' = m
    BY DEF m
  <1> QED
    BY <1>0, <1>2, <1>3, <1>4, <1>5, <1>6, <1>7 DEF ReportsInv, RingInv

LEMMA ReportsKept ==
  ASSUME ReportsInv, PptNext \/ UNCHANGED pptVars
  PROVE  ReportsInv'
  <1>1. CASE UNCHANGED reports
    BY <1>1 DEF reports, ReportsInv, RingInv, Lined, Rising, Before, Waiting, In
  <1>2. CASE SendReport
    BY <1>2, AcceptKeeps DEF SendReport
  <1>3. CASE SenderPolls \/ PollTimer
    <2>1. CASE UNCHANGED <<ring, slots, poll>>
      <3>1. kick' \in BOOLEAN
        BY <1>3 DEF SenderPolls, PollTimer, ReportsInv
      <3>2. UNCHANGED <<ring, slots, poll, made, got, gaps>>
        BY <1>3, <2>1 DEF SenderPolls, PollTimer
      <3> QED
        BY <3>1, <3>2 DEF ReportsInv, RingInv, Lined, Rising, Before, Waiting, In
    <2>2. CASE Polled(ring)
      <3>1. kick' \in BOOLEAN /\ UNCHANGED <<made, got, gaps>>
        BY <1>3 DEF SenderPolls, PollTimer, ReportsInv
      <3>2. made \in Nat
        BY PptAssumption DEF ReportsInv
      <3>3. /\ slots' \in Seq(Seq(1 .. made)) /\ ring' \in Seq(1 .. made) /\ poll' \in BOOLEAN
            /\ Len(slots') <= Quota /\ Len(ring') <= Len(ring)
            /\ Lined(got, slots', ring')
            /\ \A x : Waiting(x, slots', ring') <=> Waiting(x, slots, ring)
        BY <2>2, <3>2, PollKeeps DEF ReportsInv, RingInv
      <3>4. Len(ring') <= RingSize
        <4>1. Len(ring) \in Nat /\ Len(ring') \in Nat /\ RingSize \in Nat
          BY <3>3, PptAssumption DEF ReportsInv, RingInv
        <4> QED
          BY <3>3, <4>1 DEF ReportsInv
      <3>5. ~gaps' => \A x \in 1 .. made' : In(x, got') \/ Waiting(x, slots', ring')
        BY <3>1, <3>3 DEF ReportsInv, RingInv
      <3> QED
        BY <3>1, <3>3, <3>4, <3>5 DEF ReportsInv, RingInv
    <2> QED
      BY <1>3, <2>1, <2>2 DEF SenderPolls, PollTimer
  <1>4. CASE AirDelivers
    <2>1. /\ slots # <<>> /\ got' = got \o Head(slots) /\ slots' = Tail(slots)
          /\ UNCHANGED <<ring, poll, kick, made, gaps>>
      BY <1>4 DEF AirDelivers
    <2>2. made \in Nat
      BY PptAssumption DEF ReportsInv
    <2>3. /\ got' \in Seq(1 .. made) /\ slots' \in Seq(Seq(1 .. made))
          /\ Len(slots') <= Len(slots) /\ Lined(got', slots', ring)
          /\ \A x : In(x, got') \/ Waiting(x, slots', ring) <=> In(x, got) \/ Waiting(x, slots, ring)
      BY <2>1, <2>2, AirKeeps DEF ReportsInv, RingInv
    <2>4. Len(slots') <= Quota
      <3>1. Len(slots) \in Nat /\ Len(slots') \in Nat /\ Quota \in Nat
        BY <2>3, PptAssumption DEF ReportsInv, RingInv
      <3> QED
        BY <2>3, <3>1 DEF ReportsInv
    <2>5. ~gaps' => \A x \in 1 .. made' : In(x, got') \/ Waiting(x, slots', ring')
      BY <2>1, <2>3 DEF ReportsInv, RingInv
    <2> QED
      BY <2>1, <2>3, <2>4, <2>5 DEF ReportsInv, RingInv
  <1>5. CASE SlotsKeptOrNot
    BY <1>5, LossKeeps DEF SlotsKeptOrNot
  <1>6. CASE PptReset
    BY <1>6, LossKeeps DEF PptReset
  <1>7. CASE Paired
    <2>1. kick' \in BOOLEAN
      BY <1>7 DEF Paired, ReportsInv
    <2> QED
      BY <1>7, <2>1, AcceptKeeps DEF Paired
  <1>8. CASE ConnectTimeout /\ ~UNCHANGED reports
    BY <1>8, LossKeeps DEF ConnectTimeout
  <1>9. CASE UNCHANGED pptVars
    BY <1>1, <1>9 DEF pptVars, reports
  <1>10. CASE PptKeyPress \/ PptSelect \/ BatDisplayOff \/ PairTimeout \/ Connected \/ ASecondPasses
    BY <1>1, <1>10 DEF PptKeyPress, PptSelect, BatDisplayOff, PairTimeout, Connected, ASecondPasses
  <1>11. CASE PptPair \/ BatDisplay \/ PptSleep \/ ConnectLost
    BY <1>1, <1>5, <1>11 DEF PptPair, BatDisplay, PptSleep, ConnectLost, reports
  <1>12. CASE PptNext
    BY <1>1, <1>2, <1>3, <1>4, <1>6, <1>7, <1>8, <1>10, <1>11, <1>12 DEF PptNext, PptThread, PptRadio
  <1> QED
    BY <1>9, <1>12

LEMMA LinkKept ==
  ASSUME LinkTypes, PptNext \/ UNCHANGED pptVars
  PROVE  LinkTypes'
  <1>0. PairMax \in Nat /\ ReconnMax \in Nat /\ MaxLosses \in Nat
    BY PptAssumption
  <1>1. CASE UNCHANGED link
    BY <1>1 DEF link, LinkTypes
  <1>2. CASE PptReconn
    BY <1>1, <1>2 DEF PptReconn, Reconnect, LinkTypes, link
  <1>3. CASE PptPair \/ BatDisplay \/ BatDisplayOff \/ PptSleep \/ ASecondPasses
    BY <1>1, <1>3 DEF PptPair, BatDisplay, BatDisplayOff, PptSleep, ASecondPasses, LinkTypes, link
  <1>9. CASE PptReset
    <2>1. status' \in {"idle", "connecting"} /\ radio' \in {"off", "connecting"}
      BY <1>9 DEF PptReset
    <2>2. 0 \in 0 .. PairMax
      BY <1>0
    <2> QED
      BY <1>9, <2>1, <2>2 DEF PptReset, LinkTypes
  <1>4. CASE Paired
    BY <1>4, <1>0 DEF Paired, LinkTypes
  <1>5. CASE PairTimeout
    BY <1>5, <1>0 DEF PairTimeout, LinkTypes
  <1>6. CASE Connected
    BY <1>6 DEF Connected, LinkTypes
  <1>7. CASE ConnectTimeout
    BY <1>7 DEF ConnectTimeout, Reconnect, Counted, LinkTypes
  <1>8. CASE ConnectLost
    BY <1>0, <1>8 DEF ConnectLost, Reconnect, LinkTypes
  <1> QED
    BY <1>1, <1>2, <1>3, <1>4, <1>5, <1>6, <1>7, <1>8, <1>9
    DEF PptNext, PptThread, PptRadio, SendReport, SenderPolls, PptKeyPress, PptSelect, PollTimer,
        AirDelivers, pptVars, link

LEMMA LineParts ==
  ASSUME ReportsInv
  PROVE  /\ Len(slots) \in Nat /\ Len(Line) = Len(slots) + 2
         /\ Line[1] = got /\ Line[Len(slots) + 2] = ring
         /\ \A i \in 1 .. Len(slots) : Line[i + 1] = slots[i]
  <1> DEFINE S == Seq(1 .. made)
             n == Len(slots)
  <1>1. got \in S /\ slots \in Seq(S) /\ ring \in S
    BY DEF ReportsInv, RingInv
  <1> HIDE DEF S
  <1>a. ASSUME NEW x \in S PROVE \E u \in Seq(S) : u = <<x>> /\ Len(u) = 1 /\ u[1] = x
    <2>1. <<x>> \in Seq(S) /\ Len(<<x>>) = 1 /\ <<x>>[1] = x
      OBVIOUS
    <2> QED
      BY <2>1
  <1>2. PICK u \in Seq(S) : u = <<got>> /\ Len(u) = 1 /\ u[1] = got
    BY <1>1, <1>a
  <1>3. PICK v \in Seq(S) : v = <<ring>> /\ Len(v) = 1 /\ v[1] = ring
    BY <1>1, <1>a
  <1> DEFINE w == u \o slots
  <1>4. /\ w \in Seq(S) /\ Len(w) = 1 + n
        /\ \A k \in 1 .. 1 : k \in 1 .. Len(w) /\ w[k] = u[k]
        /\ \A k \in 1 .. n : 1 + k \in 1 .. Len(w) /\ w[1 + k] = slots[k]
    <2>1. u \in Seq(S) /\ Len(u) = 1 /\ slots \in Seq(S)
      BY <1>1, <1>2
    <2>2. JoinOf(S, u, slots)
      BY ONLY <2>1, JoinedUp, Zenon
    <2> QED
      BY ONLY <2>1, <2>2, Zenon DEF JoinOf, w, n
  <1>5. Line = w \o v
    BY <1>2, <1>3 DEF Line
  <1> HIDE DEF w
  <1>6. /\ Len(Line) = Len(w) + 1
        /\ \A k \in 1 .. Len(w) : k \in 1 .. Len(Line) /\ Line[k] = w[k]
        /\ \A k \in 1 .. 1 : Len(w) + k \in 1 .. Len(Line) /\ Line[Len(w) + k] = v[k]
    <2>1. w \in Seq(S) /\ v \in Seq(S) /\ Len(v) = 1
      BY <1>3, <1>4
    <2>2. JoinOf(S, w, v)
      BY ONLY <2>1, JoinedUp, Zenon
    <2> QED
      BY ONLY <1>5, <2>1, <2>2, Zenon DEF JoinOf
  <1>7. n \in Nat
    BY <1>1
  <1> HIDE DEF n
  <1>8. Len(Line) = n + 2 /\ Line[n + 2] = ring
    <2>1. Len(w) + 1 = n + 2 /\ 1 \in 1 .. 1
      BY <1>4, <1>7
    <2> QED
      BY <1>3, <1>6, <2>1
  <1>9. Line[1] = got
    <2>1. 1 \in 1 .. 1 /\ 1 \in 1 .. Len(w)
      BY <1>4, <1>7
    <2> QED
      BY <1>2, <1>4, <1>6, <2>1
  <1>10. ASSUME NEW i \in 1 .. n PROVE Line[i + 1] = slots[i]
    <2>1. 1 + i = i + 1
      BY <1>7
    <2>2. Line[1 + i] = slots[i]
      BY <1>4, <1>6
    <2> QED
      BY <2>1, <2>2
  <1> QED
    BY <1>7, <1>8, <1>9, <1>10 DEF n

LEMMA LineDelivered == ReportsInv => Delivered
  <1> SUFFICES ASSUME ReportsInv PROVE Delivered
    OBVIOUS
  <1> DEFINE l == Line
             n == Len(slots)
  <1>1. /\ n \in Nat /\ Len(l) = n + 2 /\ l[1] = got /\ l[n + 2] = ring
        /\ \A i \in 1 .. n : l[i + 1] = slots[i]
    BY LineParts
  <1> HIDE DEF l, n
  <1>2. \A i \in 1 .. Len(l) : \/ i = 1 /\ l[i] = got
                               \/ i = n + 2 /\ l[i] = ring
                               \/ i - 1 \in 1 .. n /\ l[i] = slots[i - 1]
    <2>1. ASSUME NEW i \in 1 .. Len(l), i # 1, i # n + 2
          PROVE  i - 1 \in 1 .. n /\ l[i] = slots[i - 1]
      <3>1. i - 1 \in 1 .. n /\ i - 1 + 1 = i
        BY <1>1, <2>1
      <3> QED
        BY <1>1, <3>1
    <2> QED
      BY <1>1, <2>1
  <1>3. /\ Rising(got) /\ Rising(ring) /\ Before(got, ring)
        /\ \A i \in 1 .. n :
             Rising(slots[i]) /\ Before(got, slots[i]) /\ Before(slots[i], ring)
        /\ \A i, j \in 1 .. n : i < j => Before(slots[i], slots[j])
    BY DEF ReportsInv, RingInv, Lined, n
  <1>4. ASSUME NEW i \in 1 .. Len(l), NEW j \in 1 .. Len(l), i < j PROVE Before(l[i], l[j])
    <2>1. CASE i = 1 /\ l[i] = got
      <3>1. j # 1
        BY <1>4, <2>1
      <3> QED
        BY <1>2, <1>3, <2>1, <3>1
    <2>2. CASE i - 1 \in 1 .. n /\ l[i] = slots[i - 1]
      <3>1. i - 1 < j - 1 /\ j # 1
        BY <1>1, <1>4, <2>2
      <3> QED
        BY <1>2, <1>3, <2>2, <3>1
    <2>3. CASE i = n + 2
      BY <1>1, <1>4, <2>3
    <2> QED
      BY <1>2, <2>1, <2>2, <2>3
  <1>5. \A i \in 1 .. Len(l) : Rising(l[i])
    BY <1>2, <1>3
  <1>6. ASSUME ~gaps, NEW x \in 1 .. made PROVE \E i \in 1 .. Len(l) : In(x, l[i])
    <2>0. 1 \in 1 .. Len(l) /\ n + 2 \in 1 .. Len(l) /\ \A i \in 1 .. n : i + 1 \in 1 .. Len(l)
      BY <1>1
    <2>1. In(x, got) \/ In(x, ring) \/ \E i \in 1 .. n : In(x, slots[i])
      BY <1>6 DEF ReportsInv, RingInv, Waiting, n
    <2> QED
      BY <1>1, <2>0, <2>1
  <1>7. ASSUME NEW i \in 1 .. Len(l), NEW j \in 1 .. Len(l),
               NEW a \in 1 .. Len(l[i]), NEW b \in 1 .. Len(l[j]), i < j \/ (i = j /\ a < b)
        PROVE  l[i][a] < l[j][b]
    <2>1. CASE i < j
      BY <1>4, <2>1 DEF Before
    <2>2. CASE i = j /\ a < b
      BY <1>5, <2>2 DEF Rising
    <2> QED
      BY <1>7, <2>1, <2>2
  <1> QED
    BY <1>6, <1>7 DEF Delivered, In, l

-----------------------------------------------------------------------------
(* The types of the Bluetooth side *)

Saved == [peer : Hosts \cup {AnyAddr}, bt_id : Nat]
Conn == [host : Hosts, id : Nat, closing : BOOLEAN]
Adv == [state : {"none", "reconn", "pair"}, status : BOOLEAN, timer : BOOLEAN]
Kinds == {"reconn", "pair"}
Call == {<<c>> : c \in {"update", "stop", "start", "started", "raise", "check", "wake", "tired"}}
        \cup (Kinds \X Index) \cup ({"transfer"} \X Kinds \X Index)

WorksOK(w) ==
  /\ w \in Seq({"update", "raise"})
  /\ \A i, j \in 1 .. Len(w) : w[i] = w[j] => i = j

BleTypes ==
  /\ profiles \in [Index -> Profile] /\ active \in Index /\ endpoint \in Index
  /\ flash \in [profiles : [Index -> Saved], active : Index]
  /\ bonds \in [Hosts -> Nat] /\ air \in Nat /\ adv \in Adv
  /\ conns \subseteq Conn /\ IsFiniteSet(conns) /\ Cardinality(conns) <= MaxConns
  /\ transfer \in [type : Kinds \cup {"none"}, profile : Index, disc : Index]
  /\ WorksOK(works) /\ todo \in Seq(Call)
  /\ saving \in BOOLEAN /\ mixed \in BOOLEAN /\ joins \in 0 .. MaxJoins
  /\ wanted \in Index \cup {-1} /\ refused \subseteq Hosts

LEMMA Indices ==
  /\ NProfiles \in Nat \ {0} /\ MaxConns \in Nat \ {0} /\ MaxJoins \in Nat \ {0}
  /\ 0 \in Index /\ Index \subseteq Nat
  /\ \A p \in Index : Base(p) \in Nat \ {0} /\ Base(p) + 1 \in Nat \ {0}
  /\ \A p, q \in Index : p # q => Identities(p) \cap Identities(q) = {}
  BY BleAssumption DEF Index, Base, Identities

LEMMA TwoWorks ==
  ASSUME NEW w, WorksOK(w)
  PROVE  Len(w) \in Nat /\ Len(w) <= 2
  <1>1. Len(w) \in Nat
    BY DEF WorksOK
  <1>2. ASSUME Len(w) > 2 PROVE FALSE
    <2>1. 1 \in 1 .. Len(w) /\ 2 \in 1 .. Len(w) /\ 3 \in 1 .. Len(w)
      BY <1>1, <1>2
    <2>2. /\ w[1] \in {"update", "raise"} /\ w[2] \in {"update", "raise"}
          /\ w[3] \in {"update", "raise"}
      BY <2>1 DEF WorksOK
    <2>3. w[1] # w[2] /\ w[1] # w[3] /\ w[2] # w[3]
      BY <2>1 DEF WorksOK
    <2> QED
      BY <2>2, <2>3
  <1> QED
    BY <1>1, <1>2

\* A work item that is queued is not queued again.
LEMMA SubmitOK ==
  ASSUME NEW w, WorksOK(w), NEW x \in {"update", "raise"}, x \notin Range(w)
  PROVE  WorksOK(Append(w, x))
  <1>1. Len(w) \in Nat /\ DOMAIN w = 1 .. Len(w)
    BY DEF WorksOK
  <1>2. \A i \in 1 .. Len(w) : w[i] # x
    BY <1>1 DEF Range
  <1> DEFINE v == Append(w, x)
  <1>3. /\ v \in Seq({"update", "raise"}) /\ Len(v) = Len(w) + 1 /\ v[Len(w) + 1] = x
        /\ \A i \in 1 .. Len(w) : v[i] = w[i]
    BY AppendProperties DEF WorksOK
  <1> HIDE DEF v
  <1>4. \A i \in 1 .. Len(v) : i \in 1 .. Len(w) \/ i = Len(w) + 1
    BY <1>1, <1>3
  <1> QED
    BY <1>2, <1>3, <1>4 DEF WorksOK, v

LEMMA Submits ==
  ASSUME WorksOK(works)
  PROVE  WorksOK(Submitted("raise")) /\ WorksOK(Submitted("update"))
  BY SubmitOK DEF Submitted

LEMMA RestOK ==
  ASSUME NEW w, WorksOK(w), w # <<>>
  PROVE  Head(w) \in {"update", "raise"} /\ WorksOK(Tail(w))
  <1> DEFINE v == Tail(w)
  <1>1. /\ v \in Seq({"update", "raise"}) /\ Len(v) = Len(w) - 1 /\ Len(w) \in Nat
        /\ \A i \in 1 .. Len(v) : v[i] = w[i + 1]
    BY HeadTailProperties DEF WorksOK
  <1>2. Head(w) \in {"update", "raise"}
    BY HeadTailProperties DEF WorksOK
  <1> HIDE DEF v
  <1>3. \A i \in 1 .. Len(v) : i + 1 \in 1 .. Len(w)
    BY <1>1
  <1>4. \A i, j \in 1 .. Len(v) : i + 1 = j + 1 => i = j
    BY <1>1
  <1> QED
    BY <1>1, <1>2, <1>3, <1>4 DEF WorksOK, v

\* Calls are put before those the thread has still to make.
LEMMA ThenOK ==
  ASSUME todo \in Seq(Call), todo # <<>>, NEW calls \in Seq(Call), Then(calls)
  PROVE  /\ todo' \in Seq(Call)
         /\ calls # <<>> => todo' # <<>> /\ Head(todo') = calls[1]
  <1> DEFINE t == Tail(todo)
             u == calls \o t
  <1>1. t \in Seq(Call) /\ todo' = u
    BY HeadTailProperties DEF Then
  <1> HIDE DEF t
  <1>2. /\ u \in Seq(Call) /\ Len(u) = Len(calls) + Len(t)
        /\ \A k \in 1 .. Len(calls) : k \in 1 .. Len(u) /\ u[k] = calls[k]
    BY <1>1, Joined
  <1> HIDE DEF u
  <1>3. ASSUME calls # <<>> PROVE u # <<>> /\ Head(u) = calls[1]
    <2>1. 1 \in 1 .. Len(calls)
      BY <1>3
    <2>2. 1 \in 1 .. Len(u) /\ u[1] = calls[1]
      BY <1>2, <2>1
    <2> QED
      BY <1>2, <2>2
  <1> QED
    BY <1>1, <1>2, <1>3

LEMMA CallTypes ==
  ASSUME todo \in Seq(Call), todo # <<>>
  PROVE  /\ Calls("reconn") \/ Calls("pair") =>
              Head(todo)[1] \in Kinds /\ Head(todo)[2] \in Index
         /\ Calls("transfer") => Head(todo)[2] \in Kinds /\ Head(todo)[3] \in Index
  <1>1. Head(todo) \in Call
    BY HeadTailProperties
  <1> DEFINE h == Head(todo)
  <1> HIDE DEF h
  <1>2. CASE h \in {<<c>> : c \in {"update", "stop", "start", "started", "raise", "check", "wake", "tired"}}
    BY <1>2 DEF Calls, h
  <1>3. CASE h \in Kinds \X Index
    BY <1>3 DEF Calls, Kinds, h
  <1>4. CASE h \in {"transfer"} \X Kinds \X Index
    BY <1>4 DEF Calls, Kinds, h
  <1> QED
    BY <1>1, <1>2, <1>3, <1>4 DEF Call, h

\* Connections that are being ended are still there, on their identities.
Same(new, old) ==
  /\ new \subseteq Conn /\ IsFiniteSet(new) /\ Cardinality(new) <= MaxConns
  /\ (new = {}) = (old = {})
  /\ \A d \in new : \E c \in old : c.id = d.id

LEMMA ImageSame ==
  ASSUME NEW cs, cs \subseteq Conn, IsFiniteSet(cs), Cardinality(cs) <= MaxConns,
         NEW f \in [cs -> Conn], \A c \in cs : f[c].id = c.id
  PROVE  Same({f[c] : c \in cs}, cs)
  <1> DEFINE T == {f[c] : c \in cs}
  <1>1. f \in Surjection(cs, T)
    BY DEF Surjection
  <1>2. IsFiniteSet(T) /\ Cardinality(T) <= Cardinality(cs)
    BY <1>1, FS_Surjection
  <1>3. Cardinality(T) <= MaxConns
    <2>1. Cardinality(T) \in Nat /\ Cardinality(cs) \in Nat /\ MaxConns \in Nat
      BY <1>2, FS_CardinalityType, Indices
    <2> QED
      BY <1>2, <2>1
  <1>4. T \subseteq Conn /\ ((T = {}) = (cs = {})) /\ \A d \in T : \E c \in cs : c.id = d.id
    BY DEF Conn
  <1> QED
    BY <1>2, <1>3, <1>4 DEF Same

LEMMA HungUpOnSame ==
  ASSUME BleTypes, NEW h, NEW i
  PROVE  Same(HungUpOn(h, i), conns)
  <1> DEFINE Hung(c) == [c EXCEPT !.closing = @ \/ (c.host = h /\ c.id = i)]
             f == [c \in conns |-> Hung(c)]
  <1>1. ASSUME NEW c \in conns PROVE Hung(c) \in Conn /\ Hung(c).id = c.id
    BY DEF BleTypes, Conn
  <1>2. HungUpOn(h, i) = {Hung(c) : c \in conns}
    BY DEF HungUpOn
  <1> HIDE DEF Hung
  <1>3. f \in [conns -> Conn] /\ \A c \in conns : f[c] = Hung(c)
    BY <1>1
  <1> HIDE DEF f
  <1>4. HungUpOn(h, i) = {f[c] : c \in conns}
    BY <1>2, <1>3
  <1>5. \A c \in conns : f[c].id = c.id
    BY <1>1, <1>3
  <1>6. conns \subseteq Conn /\ IsFiniteSet(conns) /\ Cardinality(conns) <= MaxConns
    BY DEF BleTypes
  <1> QED
    BY <1>3, <1>4, <1>5, <1>6, ImageSame

LEMMA HungUpSame ==
  ASSUME BleTypes, NEW p
  PROVE  Same(HungUp(p), conns)
  BY HungUpOnSame DEF HungUp

LEMMA ClosedOnSame ==
  ASSUME BleTypes, NEW i
  PROVE  Same(ClosedOn(i, conns), conns)
  <1> DEFINE Hung(c) == [c EXCEPT !.closing = @ \/ (c.id = i /\ i # air /\ Bonded(i, c.host))]
             f == [c \in conns |-> Hung(c)]
  <1>1. ASSUME NEW c \in conns PROVE Hung(c) \in Conn /\ Hung(c).id = c.id
    BY DEF BleTypes, Conn
  <1>2. ClosedOn(i, conns) = {Hung(c) : c \in conns}
    BY DEF ClosedOn
  <1> HIDE DEF Hung
  <1>3. f \in [conns -> Conn] /\ \A c \in conns : f[c] = Hung(c)
    BY <1>1
  <1> HIDE DEF f
  <1>4. ClosedOn(i, conns) = {f[c] : c \in conns}
    BY <1>2, <1>3
  <1>5. \A c \in conns : f[c].id = c.id
    BY <1>1, <1>3
  <1>6. conns \subseteq Conn /\ IsFiniteSet(conns) /\ Cardinality(conns) <= MaxConns
    BY DEF BleTypes
  <1> QED
    BY <1>3, <1>4, <1>5, <1>6, ImageSame

LEMMA ForgetType ==
  ASSUME NEW i, NEW bs \in [Hosts -> Nat]
  PROVE  /\ Forget(i, bs) \in [Hosts -> Nat]
         /\ \A h \in Hosts : Forget(i, bs)[h] \in {0, bs[h]}
         /\ \A h \in Hosts : bs[h] # i => Forget(i, bs)[h] = bs[h]
  BY DEF Forget

Flash == [profiles : [Index -> Saved], active : Index]

LEMMA StoredType ==
  ASSUME BleTypes, NEW prof \in [Index -> Profile]
  PROVE  /\ Stored(prof) \in Flash /\ Stored(prof).active = flash.active
         /\ \A p \in Index : Stored(prof).profiles[p] =
              IF p = active THEN [peer |-> prof[active].peer, bt_id |-> prof[active].bt_id]
              ELSE flash.profiles[p]
  <1> DEFINE x == [peer |-> prof[active].peer, bt_id |-> prof[active].bt_id]
  <1>1. x \in Saved
    BY DEF BleTypes, Profile, Saved
  <1>2. Stored(prof) = [flash EXCEPT !.profiles[active] = x]
    BY DEF Stored
  <1>3. flash \in Flash /\ active \in Index
    BY DEF BleTypes, Flash
  <1> HIDE DEF x
  <1>4. /\ [flash EXCEPT !.profiles[active] = x] \in Flash
        /\ [flash EXCEPT !.profiles[active] = x].active = flash.active
        /\ \A p \in Index : [flash EXCEPT !.profiles[active] = x].profiles[p] =
             IF p = active THEN x ELSE flash.profiles[p]
    BY <1>1, <1>3 DEF Flash
  <1> QED
    BY <1>2, <1>4 DEF x

\* The literal calls are calls.
LEMMA Singles ==
  ASSUME NEW c \in {"update", "stop", "start", "started", "raise", "check", "wake", "tired"}
  PROVE  <<<<c>>>> \in Seq(Call) /\ <<<<c>>>>[1] = <<c>> /\ <<<<c>>>> # <<>> /\ <<c>> \in Call
  <1>1. <<c>> \in Call
    BY DEF Call
  <1> QED
    BY <1>1

LEMMA Doubles ==
  ASSUME NEW c \in Call, NEW d \in Call
  PROVE  <<c, d>> \in Seq(Call) /\ <<c, d>>[1] = c /\ <<c, d>> # <<>>
  OBVIOUS

LEMMA NoCalls == <<>> \in Seq(Call)
  OBVIOUS

LEMMA BleBoots ==
  ASSUME BleTypes, BleBoot
  PROVE  BleTypes'
  <1>1. profiles' \in [Index -> Profile]
    <2>1. ASSUME NEW p \in Index PROVE Loaded(p) \in Profile
      <3> DEFINE s == flash.profiles[p]
                 own == {i \in Identities(p) : Bonded(i, s.peer)}
                 id == IF own = {} THEN s.bt_id ELSE CHOOSE i \in own : \A j \in own : i <= j
      <3>1. s \in Saved
        BY DEF BleTypes
      <3>2. id \in Nat
        <4>1. CASE own = {}
          BY <3>1, <4>1 DEF Saved
        <4>2. CASE own # {}
          <5>1. own \subseteq {Base(p), Base(p) + 1} /\ Base(p) \in Nat
            BY Indices DEF Identities
          <5> HIDE DEF own
          <5>2. \E i \in own : \A j \in own : i <= j
            <6>1. CASE Base(p) \in own
              <7>1. \A j \in own : Base(p) <= j
                BY <5>1
              <7> QED
                BY <6>1, <7>1
            <6>2. CASE Base(p) \notin own
              <7>1. \A j \in own : j = Base(p) + 1
                BY <5>1, <6>2
              <7>2. PICK i \in own : TRUE
                BY <4>2
              <7>3. \A j \in own : i <= j
                BY <5>1, <7>1
              <7> QED
                BY <7>3
            <6> QED
              BY <6>1, <6>2
          <5>3. (CHOOSE i \in own : \A j \in own : i <= j) \in own
            BY <5>2
          <5> QED
            BY <4>2, <5>1, <5>3
        <4> QED
          BY <4>1, <4>2
      <3>3. Loaded(p) = [peer |-> s.peer, bt_id |-> id, connected |-> FALSE]
        BY DEF Loaded
      <3> HIDE DEF id, s
      <3> QED
        BY <3>1, <3>2, <3>3 DEF Profile, Saved
    <2> QED
      BY <2>1 DEF BleBoot
  <1>2. active' \in Index /\ endpoint' \in Index /\ flash' \in Flash
    BY DEF BleBoot, BleTypes, Flash
  <1>3. bonds' \in [Hosts -> Nat] /\ air' \in Nat /\ adv' \in Adv
    BY DEF BleBoot, BleTypes, Adv
  <1>4. conns' \subseteq Conn /\ IsFiniteSet(conns') /\ Cardinality(conns') <= MaxConns
    <2>1. conns' = {}
      BY DEF BleBoot
    <2>2. IsFiniteSet({}) /\ Cardinality({}) = 0
      BY FS_EmptySet
    <2> QED
      BY <2>1, <2>2, Indices
  <1>5. transfer' \in [type : Kinds \cup {"none"}, profile : Index, disc : Index]
    BY Indices DEF BleBoot, NoTransfer
  <1>6. WorksOK(works') /\ todo' \in Seq(Call)
    <2>1. WorksOK(<<>>)
      BY DEF WorksOK
    <2>2. <<<<"update">>>> \in Seq(Call)
      BY Singles
    <2> QED
      BY <2>1, <2>2 DEF BleBoot
  <1>7. /\ saving' \in BOOLEAN /\ mixed' \in BOOLEAN /\ joins' \in 0 .. MaxJoins
        /\ wanted' \in Index \cup {-1} /\ refused' \subseteq Hosts
    BY DEF BleBoot, BleTypes
  <1> QED
    BY <1>1, <1>2, <1>3, <1>4, <1>5, <1>6, <1>7 DEF BleTypes, Flash

LEMMA BleStarts == BleInit => BleTypes
  <1> SUFFICES ASSUME BleInit PROVE BleTypes
    OBVIOUS
  <1>1. profiles \in [Index -> Profile]
    <2>1. ASSUME NEW p \in Index, p < Len(Known) PROVE Known[p + 1] \in Hosts
      BY <2>1, Indices, BleAssumption
    <2> QED
      BY <2>1, Indices DEF BleInit, Profile
  <1>2. active \in Index /\ endpoint \in Index
    BY Indices DEF BleInit
  <1>3. flash \in Flash
    <2>1. [p \in Index |-> [peer |-> profiles[p].peer, bt_id |-> profiles[p].bt_id]] \in [Index -> Saved]
      BY <1>1 DEF Saved, Profile
    <2> QED
      BY <2>1, Indices DEF BleInit, Flash
  <1>4. bonds \in [Hosts -> Nat]
    <2>1. ASSUME NEW h \in Hosts, \E p \in Index : profiles[p].peer = h
          PROVE  Base(CHOOSE p \in Index : profiles[p].peer = h) \in Nat
      <3>1. (CHOOSE p \in Index : profiles[p].peer = h) \in Index
        BY <2>1
      <3> QED
        BY <3>1, Indices
    <2> QED
      BY <2>1 DEF BleInit
  <1>5. air \in Nat /\ adv \in Adv
    BY DEF BleInit, Adv
  <1>6. conns \subseteq Conn /\ IsFiniteSet(conns) /\ Cardinality(conns) <= MaxConns
    <2>1. conns = {}
      BY DEF BleInit
    <2>2. IsFiniteSet({}) /\ Cardinality({}) = 0
      BY FS_EmptySet
    <2> QED
      BY <2>1, <2>2, Indices
  <1>7. transfer \in [type : Kinds \cup {"none"}, profile : Index, disc : Index]
    BY Indices DEF BleInit, NoTransfer
  <1>8. WorksOK(works) /\ todo \in Seq(Call)
    <2>1. WorksOK(<<>>)
      BY DEF WorksOK
    <2>2. <<<<"update">>>> \in Seq(Call)
      BY Singles
    <2> QED
      BY <2>1, <2>2 DEF BleInit
  <1>9. /\ saving \in BOOLEAN /\ mixed \in BOOLEAN /\ joins \in 0 .. MaxJoins
        /\ wanted \in Index \cup {-1} /\ refused \subseteq Hosts
    <2>1. saving = FALSE /\ mixed = FALSE /\ joins = 0 /\ wanted = -1 /\ refused = {}
      BY DEF BleInit
    <2>2. MaxJoins \in Nat /\ 0 \in 0 .. MaxJoins
      BY Indices
    <2> QED
      BY <2>1, <2>2
  <1> QED
    BY <1>1, <1>2, <1>3, <1>4, <1>5, <1>6, <1>7, <1>8, <1>9 DEF BleTypes, Flash

\* What the thread puts before the calls that are left.
LEMMA SwitchCalls ==
  ASSUME BleTypes, Switch
  PROVE  /\ todo' \in Seq(Call) /\ Head(todo)[1] \in Kinds /\ Head(todo)[2] \in Index
         /\ active' # active \/ adv'.state # adv.state => todo' # <<>> /\ Head(todo')[1] = "update"
  <1> DEFINE kind == Head(todo)[1]
             p == Head(todo)[2]
  <1>1. todo \in Seq(Call) /\ todo # <<>>
    BY DEF BleTypes, Switch, Calls, Idle
  <1>2. kind \in Kinds /\ p \in Index
    BY <1>1, CallTypes DEF Switch
  <1> HIDE DEF kind, p
  <1>3. CASE Then(<<>>) /\ active' = active /\ adv'.state = adv.state
    BY <1>1, <1>2, <1>3, NoCalls, ThenOK DEF kind, p
  <1>4. CASE Then(<<<<"transfer", kind, p>>>>) /\ active' = active /\ adv'.state = adv.state
    <2>1. <<"transfer", kind, p>> \in Call
      BY <1>2 DEF Call
    <2>2. <<<<"transfer", kind, p>>>> \in Seq(Call)
      BY <2>1
    <2> QED
      BY <1>1, <1>2, <1>4, <2>2, ThenOK DEF kind, p
  <1>5. CASE Then(<<<<"update">>, <<"raise">>>>)
    <2> DEFINE calls == <<<<"update">>, <<"raise">>>>
    <2>1. calls \in Seq(Call) /\ calls # <<>> /\ calls[1] = <<"update">>
      BY Singles, Doubles
    <2>2. <<"update">>[1] = "update"
      OBVIOUS
    <2> HIDE DEF calls
    <2>3. Then(calls)
      BY <1>5 DEF calls
    <2> QED
      BY <1>1, <1>2, <2>1, <2>2, <2>3, ThenOK DEF kind, p
  <1>6. CASE Linked(active)
    <2>1. adv' = [adv EXCEPT !.timer = adv.timer /\ kind # "pair"] /\ UNCHANGED active
      BY <1>6 DEF Switch, kind, p
    <2>2. adv'.state = adv.state
      BY <2>1 DEF BleTypes, Adv
    <2>3. Then(<<>>) \/ Then(<<<<"transfer", kind, p>>>>)
      BY <1>6 DEF Switch, kind, p
    <2> QED
      BY <1>3, <1>4, <2>1, <2>2, <2>3
  <1>7. CASE ~Linked(active)
    BY <1>5, <1>7 DEF Switch
  <1> QED
    BY <1>6, <1>7

LEMMA UpdateCalls ==
  ASSUME BleTypes, Update
  PROVE  /\ todo' \in Seq(Call)
         /\ adv.status => todo' # <<>> /\ Head(todo')[1] = "stop"
  <1>1. todo \in Seq(Call) /\ todo # <<>>
    BY DEF BleTypes, Update, Calls, Idle
  <1>2. PICK linked \in BOOLEAN :
          Then((IF adv.status THEN <<<<"stop">>>> ELSE <<>>)
               \o (IF linked THEN <<>> ELSE <<<<"start">>>>))
    <2> DEFINE gone == adv.state = "reconn" /\ ReconnId = 0
               id == CASE adv.state = "pair" -> PairId
                       [] gone -> Base(active)
                       [] adv.state = "reconn" /\ ~gone -> ReconnId
                       [] OTHER -> profiles[active].bt_id
               next == [profiles EXCEPT ![active].bt_id = id,
                                        ![active].peer = IF gone THEN AnyAddr ELSE @]
               linked == \E c \in conns : c.host = next[active].peer /\ c.id = id /\ ~c.closing
    <2>1. Then((IF adv.status THEN <<<<"stop">>>> ELSE <<>>)
               \o (IF linked THEN <<>> ELSE <<<<"start">>>>))
      BY DEF Update
    <2> QED
      BY <2>1
  <1> DEFINE u == IF adv.status THEN <<<<"stop">>>> ELSE <<>>
             v == IF linked THEN <<>> ELSE <<<<"start">>>>
  <1>3. u \in Seq(Call) /\ v \in Seq(Call)
    BY Singles, NoCalls
  <1>4. adv.status => Len(u) = 1 /\ u[1] = <<"stop">>
    OBVIOUS
  <1> DEFINE w == u \o v
  <1> HIDE DEF u, v
  <1>5. /\ w \in Seq(Call) /\ \A k \in 1 .. Len(u) : k \in 1 .. Len(w) /\ w[k] = u[k]
    BY <1>3, Joined
  <1>6. Then(w)
    BY <1>2 DEF u, v
  <1> HIDE DEF w
  <1>7. adv.status => w # <<>> /\ w[1] = <<"stop">>
    <2>1. ASSUME adv.status PROVE 1 \in 1 .. Len(u)
      <3>1. Len(u) = 1
        BY <1>4, <2>1
      <3>2. 1 \in 1 .. 1
        OBVIOUS
      <3> QED
        BY <3>1, <3>2, Zenon
    <2>2. ASSUME adv.status PROVE 1 \in 1 .. Len(w) /\ w[1] = <<"stop">>
      BY <1>4, <1>5, <2>1, <2>2
    <2>3. 1 \in 1 .. Len(w) => w # <<>>
      BY <1>5
    <2> QED
      BY <2>2, <2>3
  <1>8. /\ todo' \in Seq(Call)
        /\ w # <<>> => todo' # <<>> /\ Head(todo') = w[1]
    BY <1>1, <1>5, <1>6, ThenOK
  <1>9. <<"stop">>[1] = "stop"
    OBVIOUS
  <1> QED
    BY <1>7, <1>8, <1>9

\* The effect of an update, its values named.
LEMMA UpdateParts ==
  ASSUME BleTypes, Update
  PROVE  \E gone \in BOOLEAN, id \in Nat :
           /\ gone = (adv.state = "reconn" /\ ReconnId = 0)
           /\ id = CASE adv.state = "pair" -> PairId
                     [] gone -> Base(active)
                     [] adv.state = "reconn" /\ ~gone -> ReconnId
                     [] OTHER -> profiles[active].bt_id
           /\ gone => id = Base(active)
           /\ profiles' = [profiles EXCEPT ![active].bt_id = id,
                                           ![active].peer = IF gone THEN AnyAddr ELSE @]
           /\ LET resets == gone \/ (adv.state = "pair" /\ ~Open(active))
              IN  /\ bonds' = IF resets THEN Forget(id, bonds) ELSE bonds
                  /\ conns' = IF resets THEN ClosedOn(id, conns) ELSE conns
           /\ flash' = IF gone THEN [flash EXCEPT !.profiles[active] =
                                       [peer |-> AnyAddr, bt_id |-> profiles[active].bt_id]] ELSE flash
           /\ works' = IF gone THEN Submitted("raise") ELSE works
  <1> DEFINE gone == adv.state = "reconn" /\ ReconnId = 0
             id == CASE adv.state = "pair" -> PairId
                     [] gone -> Base(active)
                     [] adv.state = "reconn" /\ ~gone -> ReconnId
                     [] OTHER -> profiles[active].bt_id
  <1>1. profiles[active].bt_id \in Nat
    BY DEF BleTypes, Profile
  <1>2. Base(active) \in Nat /\ Base(active) + 1 \in Nat
    BY Indices DEF BleTypes
  <1>3. PairId \in Nat
    BY <1>2 DEF PairId
  <1>4. ReconnId \in Nat
    BY <1>1, <1>2 DEF ReconnId
  <1>5. gone \in BOOLEAN
    OBVIOUS
  <1>6. id \in Nat
    BY <1>1, <1>2, <1>3, <1>4
  <1>7. /\ profiles' = [profiles EXCEPT ![active].bt_id = id,
                                        ![active].peer = IF gone THEN AnyAddr ELSE @]
        /\ LET resets == gone \/ (adv.state = "pair" /\ ~Open(active))
           IN  /\ bonds' = IF resets THEN Forget(id, bonds) ELSE bonds
               /\ conns' = IF resets THEN ClosedOn(id, conns) ELSE conns
        /\ flash' = IF gone THEN [flash EXCEPT !.profiles[active] =
                                    [peer |-> AnyAddr, bt_id |-> profiles[active].bt_id]] ELSE flash
        /\ works' = IF gone THEN Submitted("raise") ELSE works
    BY DEF Update
  <1>8. gone => id = Base(active)
    OBVIOUS
  <1> QED
    BY <1>5, <1>6, <1>7, <1>8

LEMMA ThreadTypes ==
  ASSUME BleTypes, Thread
  PROVE  BleTypes'
  <1>0. todo \in Seq(Call) /\ todo # <<>>
    BY DEF BleTypes, Thread, Switch, Transfer, Update, Stop, Start, Started, Raise, Check, Wake,
           Tired, Calls, Idle
  <1>1. CASE Switch
    <2> DEFINE kind == Head(todo)[1]
               p == Head(todo)[2]
    <2>1. todo' \in Seq(Call) /\ kind \in Kinds /\ p \in Index
      BY <1>1, SwitchCalls
    <2> HIDE DEF kind, p
    <2>2. active' \in Index /\ saving' \in BOOLEAN /\ mixed' \in BOOLEAN /\ wanted' \in Index \cup {-1}
      BY <1>1, <2>1 DEF Switch, Done, BleTypes, kind, p
    <2>3. adv' \in Adv
      <3> DEFINE timer == adv.timer /\ kind # "pair"
      <3>1. \/ adv' = [adv EXCEPT !.timer = timer]
            \/ adv' = [adv EXCEPT !.timer = timer, !.state = kind]
        BY <1>1 DEF Switch, kind
      <3>2. timer \in BOOLEAN
        OBVIOUS
      <3> HIDE DEF timer
      <3> QED
        BY <2>1, <3>1, <3>2 DEF BleTypes, Adv, Kinds
    <2>4. conns' \subseteq Conn /\ IsFiniteSet(conns') /\ Cardinality(conns') <= MaxConns
      <3>1. conns' = conns \/ conns' = HungUp(active)
        BY <1>1 DEF Switch
      <3> QED
        BY <3>1, HungUpSame DEF BleTypes, Same
    <2>5. UNCHANGED <<profiles, flash, bonds, air, joins, transfer, endpoint, works, refused>>
      BY <1>1 DEF Switch
    <2> QED
      BY <2>1, <2>2, <2>3, <2>4, <2>5 DEF BleTypes, WorksOK
  <1>2. CASE Transfer
    <2> DEFINE k == Head(todo)[2]
               p == Head(todo)[3]
    <2>1. k \in Kinds /\ p \in Index
      BY <1>0, <1>2, CallTypes DEF Transfer
    <2> HIDE DEF k, p
    <2>2. todo' \in Seq(Call)
      BY <1>0, <1>2, NoCalls, ThenOK DEF Transfer
    <2>3. transfer' = [type |-> k, profile |-> p, disc |-> active]
      BY <1>2 DEF Transfer, k, p
    <2>4. transfer' \in [type : Kinds \cup {"none"}, profile : Index, disc : Index]
      BY <2>1, <2>3 DEF BleTypes
    <2> QED
      BY <1>2, <2>2, <2>4 DEF Transfer, stack, ghosts, BleTypes, WorksOK
  <1>3. CASE Update
    <2>1. PICK gone \in BOOLEAN, id \in Nat :
            /\ profiles' = [profiles EXCEPT ![active].bt_id = id,
                                            ![active].peer = IF gone THEN AnyAddr ELSE @]
            /\ bonds' = bonds \/ bonds' = Forget(id, bonds)
            /\ conns' = conns \/ conns' = ClosedOn(id, conns)
            /\ flash' = IF gone THEN [flash EXCEPT !.profiles[active] =
                                        [peer |-> AnyAddr, bt_id |-> profiles[active].bt_id]] ELSE flash
            /\ works' = IF gone THEN Submitted("raise") ELSE works
      BY <1>3, UpdateParts
    <2>2. profiles' \in [Index -> Profile]
      <3>1. profiles \in [Index -> Profile] /\ active \in Index
        BY DEF BleTypes
      <3>2. [profiles[active] EXCEPT !.bt_id = id, !.peer = IF gone THEN AnyAddr ELSE @] \in Profile
        BY <3>1 DEF Profile
      <3>3. ASSUME NEW p \in Index PROVE profiles'[p] \in Profile
        <4>1. CASE p # active
          BY <2>1, <3>1, <4>1
        <4>2. CASE p = active
          BY <2>1, <3>1, <4>2 DEF Profile
        <4> QED
          BY <4>1, <4>2
      <3> QED
        BY <2>1, <3>1, <3>3
    <2>3. bonds' \in [Hosts -> Nat]
      BY <2>1, ForgetType DEF BleTypes
    <2>4. conns' \subseteq Conn /\ IsFiniteSet(conns') /\ Cardinality(conns') <= MaxConns
      BY <2>1, ClosedOnSame DEF BleTypes, Same
    <2>5. flash' \in Flash
      <3> DEFINE x == [peer |-> AnyAddr, bt_id |-> profiles[active].bt_id]
      <3>1. x \in Saved
        BY DEF BleTypes, Profile, Saved
      <3>2. flash \in Flash /\ active \in Index
        BY DEF BleTypes, Flash
      <3>3. flash' = IF gone THEN [flash EXCEPT !.profiles[active] = x] ELSE flash
        BY <2>1
      <3> HIDE DEF x
      <3> QED
        BY <3>1, <3>2, <3>3 DEF Flash
    <2>6. WorksOK(works')
      BY <2>1, Submits DEF BleTypes
    <2>7. adv' \in Adv
      <3>1. PICK timer \in BOOLEAN : adv' = [adv EXCEPT !.timer = timer]
        <4>1. adv' = [adv EXCEPT !.timer = @ \/ adv.state # "none"]
          BY <1>3 DEF Update
        <4>2. adv' = [adv EXCEPT !.timer = (adv.timer \/ adv.state # "none")]
          BY <4>1 DEF BleTypes, Adv
        <4> QED
          BY <4>2
      <3> QED
        BY <3>1 DEF BleTypes, Adv
    <2>8. todo' \in Seq(Call)
      BY <1>3, UpdateCalls
    <2>9. UNCHANGED <<active, saving, air, joins, transfer, endpoint, ghosts>>
      BY <1>3 DEF Update
    <2> QED
      BY <2>2, <2>3, <2>4, <2>5, <2>6, <2>7, <2>8, <2>9 DEF BleTypes, Flash, ghosts
  <1>4. CASE Stop
    <2>1. todo' \in Seq(Call)
      BY <1>0, <1>4, NoCalls, ThenOK DEF Stop
    <2>2. adv' \in Adv /\ air' \in Nat
      BY <1>4 DEF Stop, BleTypes, Adv
    <2> QED
      BY <1>4, <2>1, <2>2 DEF Stop, ghosts, BleTypes, WorksOK
  <1>5. CASE Start
    <2>1. todo' \in Seq(Call)
      BY <1>0, <1>5, NoCalls, Singles, ThenOK DEF Start
    <2>2. air' \in Nat
      BY <1>5 DEF Start, BleTypes, Profile
    <2> QED
      BY <1>5, <2>1, <2>2 DEF Start, ghosts, BleTypes, WorksOK
  <1>6. CASE Started \/ Tired
    <2>1. todo' \in Seq(Call)
      BY <1>0, <1>6, NoCalls, ThenOK DEF Started, Tired
    <2>2. adv' \in Adv
      BY <1>6 DEF Started, Tired, BleTypes, Adv
    <2> QED
      BY <1>6, <2>1, <2>2 DEF Started, Tired, ghosts, stack, BleTypes, WorksOK
  <1>7. CASE Raise
    <2>1. todo' \in Seq(Call)
      <3>1. <<<<"wake">>, <<"check">>>> \in Seq(Call)
        BY Singles, Doubles
      <3> QED
        BY <1>0, <1>7, <3>1, Singles, ThenOK DEF Raise
    <2>2. conns' \subseteq Conn /\ IsFiniteSet(conns') /\ Cardinality(conns') <= MaxConns
      <3>1. conns' = conns \/ conns' = HungUp(endpoint)
        BY <1>7 DEF Raise
      <3> QED
        BY <3>1, HungUpSame DEF BleTypes, Same
    <2> QED
      BY <1>7, <2>1, <2>2 DEF Raise, ghosts, BleTypes, WorksOK
  <1>8. CASE Check
    <2>1. todo' \in Seq(Call)
      <3>1. CASE transfer.type # "none"
        <4>1. <<transfer.type, transfer.profile>> \in Call
          BY <3>1 DEF BleTypes, Call
        <4>2. <<<<transfer.type, transfer.profile>>>> \in Seq(Call)
          BY <4>1
        <4> QED
          BY <1>0, <1>8, <4>2, NoCalls, ThenOK DEF Check
      <3> QED
        BY <1>0, <1>8, <3>1, NoCalls, ThenOK DEF Check
    <2>2. transfer' \in [type : Kinds \cup {"none"}, profile : Index, disc : Index]
      BY <1>8, Indices DEF Check, NoTransfer, BleTypes
    <2> QED
      BY <1>8, <2>1, <2>2 DEF Check, ghosts, stack, BleTypes, WorksOK
  <1>9. CASE Wake
    <2>1. todo' \in Seq(Call)
      <3>1. <<"reconn", active>> \in Call
        BY DEF BleTypes, Call, Kinds
      <3>2. <<<<"reconn", active>>>> \in Seq(Call)
        BY <3>1
      <3> QED
        BY <1>0, <1>9, <3>2, NoCalls, ThenOK DEF Wake
    <2>2. adv' \in Adv
      BY <1>9 DEF Wake, BleTypes, Adv
    <2> QED
      BY <1>9, <2>1, <2>2 DEF Wake, ghosts, stack, BleTypes, WorksOK
  <1> QED
    BY <1>1, <1>2, <1>3, <1>4, <1>5, <1>6, <1>7, <1>8, <1>9 DEF Thread

\* One field of the active profile changes.
LEMMA ProfileChanges ==
  ASSUME BleTypes, NEW h \in Hosts \cup {AnyAddr}, NEW b \in BOOLEAN
  PROVE  /\ [profiles EXCEPT ![active].peer = h] \in [Index -> Profile]
         /\ [profiles EXCEPT ![active].connected = b] \in [Index -> Profile]
         /\ \A p \in Index :
              /\ [profiles EXCEPT ![active].peer = h][p].peer = IF p = active THEN h ELSE profiles[p].peer
              /\ [profiles EXCEPT ![active].peer = h][p].bt_id = profiles[p].bt_id
              /\ [profiles EXCEPT ![active].peer = h][p].connected = profiles[p].connected
              /\ [profiles EXCEPT ![active].connected = b][p].peer = profiles[p].peer
              /\ [profiles EXCEPT ![active].connected = b][p].bt_id = profiles[p].bt_id
              /\ [profiles EXCEPT ![active].connected = b][p].connected =
                   IF p = active THEN b ELSE profiles[p].connected
  <1> DEFINE x == [profiles[active] EXCEPT !.peer = h]
             y == [profiles[active] EXCEPT !.connected = b]
  <1>1. profiles \in [Index -> Profile] /\ active \in Index
    BY DEF BleTypes
  <1>2. /\ x \in Profile /\ x.peer = h /\ x.bt_id = profiles[active].bt_id
        /\ x.connected = profiles[active].connected
    BY <1>1 DEF Profile
  <1>3. /\ y \in Profile /\ y.peer = profiles[active].peer /\ y.bt_id = profiles[active].bt_id
        /\ y.connected = b
    BY <1>1 DEF Profile
  <1>4. /\ [profiles EXCEPT ![active].peer = h] = [profiles EXCEPT ![active] = x]
        /\ [profiles EXCEPT ![active].connected = b] = [profiles EXCEPT ![active] = y]
    OBVIOUS
  <1> HIDE DEF x, y
  <1> QED
    BY <1>1, <1>2, <1>3, <1>4

\* The thread is called, by the user or by its timers.
LEMMA CalledTypes ==
  ASSUME BleTypes, BleUser \/ BleTimers
  PROVE  BleTypes'
  <1>1. CASE BleKeyPress \/ AdvTimeout
    <2>1. todo' \in Seq(Call)
      <3>1. <<<<"stop">>, <<"tired">>>> \in Seq(Call)
        BY Singles, Doubles
      <3> QED
        BY <1>1, <3>1, Singles DEF BleKeyPress, AdvTimeout
    <2>2. adv' \in Adv
      BY <1>1 DEF BleKeyPress, AdvTimeout, BleTypes, Adv
    <2> QED
      BY <1>1, <2>1, <2>2 DEF BleKeyPress, AdvTimeout, ghosts, stack, BleTypes, WorksOK
  <1>2. CASE Clear
    <2>1. profiles' = [profiles EXCEPT ![active].peer = AnyAddr]
      BY <1>2 DEF Clear
    <2>2. profiles' \in [Index -> Profile]
      BY <2>1, ProfileChanges
    <2>3. flash' \in Flash /\ WorksOK(works')
      <3>1. \/ flash' = flash /\ works' = works
            \/ flash' = Stored(profiles') /\ works' = Submitted("raise")
        BY <1>2 DEF Clear
      <3>2. Stored(profiles') \in Flash
        BY <2>2, StoredType
      <3>3. flash \in Flash /\ WorksOK(works) /\ WorksOK(Submitted("raise"))
        BY Submits DEF BleTypes, Flash
      <3> QED
        BY <3>1, <3>2, <3>3
    <2>4. todo' \in Seq(Call)
      BY <1>2, Singles DEF Clear
    <2> QED
      BY <1>2, <2>2, <2>3, <2>4 DEF Clear, stack, BleTypes, Flash
  <1>3. ASSUME NEW p \in Index, NEW kind \in {"reconn", "pair"}, Request(kind, p)
        PROVE  BleTypes'
    <2>1. <<kind, p>> \in Call
      BY DEF Call, Kinds
    <2>2. <<<<kind, p>>>> \in Seq(Call)
      BY <2>1
    <2>3. wanted' \in Index \cup {-1}
      BY <1>3 DEF Request
    <2> QED
      BY <1>3, <2>2, <2>3 DEF Request, stack, BleTypes, WorksOK
  <1>4. CASE WorkRuns
    <2>1. Head(works) \in {"update", "raise"} /\ WorksOK(Tail(works))
      BY <1>4, RestOK DEF WorkRuns, BleTypes
    <2>2. <<<<Head(works)>>>> \in Seq(Call)
      BY <2>1, Singles
    <2> QED
      BY <1>4, <2>1, <2>2 DEF WorkRuns, ghosts, stack, BleTypes
  <1>5. CASE Save
    <2>1. flash' \in Flash
      BY <1>5 DEF Save, BleTypes, Flash
    <2> QED
      BY <1>5, <2>1 DEF Save, ghosts, stack, BleTypes, Flash, WorksOK
  <1>6. CASE BleSleep
    <2>1. conns' \subseteq Conn /\ IsFiniteSet(conns') /\ Cardinality(conns') <= MaxConns
      BY <1>6, HungUpSame DEF BleSleep, BleTypes, Same
    <2>2. adv' \in Adv /\ air' \in Nat
      BY <1>6 DEF BleSleep, BleTypes, Adv
    <2> QED
      BY <1>6, <2>1, <2>2 DEF BleSleep, ghosts, BleTypes, WorksOK
  <1>7. CASE BleReset
    BY <1>7, BleBoots DEF BleReset
  <1> QED
    BY <1>1, <1>2, <1>3, <1>4, <1>5, <1>6, <1>7 DEF BleUser, BleTimers

\* The callbacks of the stack
LEMMA StackTypes ==
  ASSUME BleTypes, BleStack
  PROVE  BleTypes'
  <1>1. ASSUME NEW h \in Hosts, Joins(h) PROVE BleTypes'
    <2>1. conns' \subseteq Conn /\ IsFiniteSet(conns') /\ Cardinality(conns') <= MaxConns
      <3> DEFINE c == [host |-> h, id |-> air, closing |-> FALSE]
      <3>1. c \in Conn
        BY DEF BleTypes, Conn
      <3> HIDE DEF c
      <3>2. conns' = conns \cup {c} /\ Cardinality(conns) < MaxConns
        BY <1>1 DEF Joins, c
      <3>3. /\ IsFiniteSet(conns \cup {c})
            /\ Cardinality(conns \cup {c}) \in {Cardinality(conns), Cardinality(conns) + 1}
        BY FS_AddElement DEF BleTypes
      <3>4. Cardinality(conns) \in Nat /\ MaxConns \in Nat
        BY FS_CardinalityType, Indices DEF BleTypes
      <3>5. Cardinality(conns \cup {c}) <= MaxConns
        BY <3>2, <3>3, <3>4
      <3> QED
        BY <3>1, <3>2, <3>3, <3>5 DEF BleTypes
    <2>2. profiles' \in [Index -> Profile]
      BY <1>1, ProfileChanges DEF Joins
    <2>3. WorksOK(works')
      BY <1>1, Submits DEF Joins, BleTypes
    <2>4. adv' \in Adv /\ air' \in Nat
      BY <1>1 DEF Joins, Adv
    <2>5. joins' \in 0 .. MaxJoins
      <3>1. joins \in 0 .. MaxJoins /\ joins < MaxJoins /\ joins' = joins + 1
        BY <1>1 DEF Joins, BleTypes
      <3>2. MaxJoins \in Nat
        BY Indices
      <3> QED
        BY <3>1, <3>2
    <2> QED
      BY <1>1, <2>1, <2>2, <2>3, <2>4, <2>5 DEF Joins, ghosts, BleTypes
  <1>2. ASSUME NEW c \in conns, Encrypts(c) PROVE BleTypes'
    <2>1. profiles' \in [Index -> Profile]
      <3>1. c.host \in Hosts
        BY DEF BleTypes, Conn
      <3> QED
        BY <1>2, <3>1, ProfileChanges DEF Encrypts
    <2>2. flash' \in Flash
      BY <1>2, <2>1, StoredType DEF Encrypts
    <2>3. bonds' \in [Hosts -> Nat]
      BY <1>2, ForgetType DEF Encrypts, Updated, BleTypes
    <2>4. conns' \subseteq Conn /\ IsFiniteSet(conns') /\ Cardinality(conns') <= MaxConns
      BY <1>2, ClosedOnSame DEF Encrypts, Same
    <2>5. WorksOK(works')
      BY <1>2, Submits DEF Encrypts, BleTypes
    <2> QED
      BY <1>2, <2>1, <2>2, <2>3, <2>4, <2>5 DEF Encrypts, ghosts, BleTypes, Flash
  <1>3. ASSUME NEW c \in conns, Pairs(c) PROVE BleTypes'
    <2> DEFINE id == profiles[active].bt_id
               same(p) == p # active /\ profiles[p].peer = c.host /\ profiles[p].bt_id # id
    <2>0. c.host \in Hosts /\ c.id \in Nat /\ id \in Nat /\ active \in Index
      BY DEF BleTypes, Conn, Profile
    <2>1. profiles' \in [Index -> Profile]
      <3>1. profiles' = [p \in Index |->
                           IF p = active THEN [profiles[p] EXCEPT !.peer = c.host]
                           ELSE IF same(p) THEN [profiles[p] EXCEPT !.bt_id = id]
                           ELSE profiles[p]]
        BY <1>3 DEF Pairs
      <3>2. ASSUME NEW p \in Index
            PROVE  /\ profiles[p] \in Profile
                   /\ [profiles[p] EXCEPT !.peer = c.host] \in Profile
                   /\ [profiles[p] EXCEPT !.bt_id = id] \in Profile
        BY <2>0 DEF BleTypes, Profile
      <3> HIDE DEF id, same
      <3> QED
        BY <3>1, <3>2
    <2>2. flash' \in Flash
      <3> DEFINE s == Stored(profiles')
                 x == [peer |-> c.host, bt_id |-> id]
      <3>1. flash' = [s EXCEPT !.profiles = [p \in Index |-> IF same(p) THEN x ELSE s.profiles[p]]]
        BY <1>3 DEF Pairs
      <3>2. s \in Flash /\ x \in Saved
        BY <2>0, <2>1, StoredType DEF Saved
      <3> HIDE DEF s, x, same
      <3>3. [p \in Index |-> IF same(p) THEN x ELSE s.profiles[p]] \in [Index -> Saved]
        BY <3>2 DEF Flash
      <3> QED
        BY <3>1, <3>2, <3>3 DEF Flash
    <2>3. bonds' \in [Hosts -> Nat]
      <3>1. [bonds EXCEPT ![c.host] = c.id] \in [Hosts -> Nat]
        BY <2>0 DEF BleTypes
      <3> QED
        BY <1>3, <3>1, ForgetType DEF Pairs, Updated
    <2>4. conns' \subseteq Conn /\ IsFiniteSet(conns') /\ Cardinality(conns') <= MaxConns
      BY <1>3, ClosedOnSame DEF Pairs, Same
    <2>5. WorksOK(works')
      BY <1>3, Submits DEF Pairs, BleTypes
    <2>6. mixed' \in BOOLEAN /\ refused' \subseteq Hosts
      BY <1>3 DEF Pairs, BleTypes
    <2>7. UNCHANGED <<active, saving, adv, air, joins, transfer, endpoint, todo, wanted>>
      BY <1>3 DEF Pairs
    <2> QED
      BY <2>1, <2>2, <2>3, <2>4, <2>5, <2>6, <2>7 DEF BleTypes, Flash
  <1>4. ASSUME NEW c \in conns, NEW lost \in BOOLEAN, Leaves(c, lost) PROVE BleTypes'
    <2>1. profiles' \in [Index -> Profile]
      BY <1>4, ProfileChanges DEF Leaves, FlagCleared
    <2>2. conns' \subseteq Conn /\ IsFiniteSet(conns') /\ Cardinality(conns') <= MaxConns
      <3>1. conns' = conns \ {c}
        BY <1>4 DEF Leaves
      <3>2. IsFiniteSet(conns) /\ Cardinality(conns) \in Nat /\ Cardinality(conns) <= MaxConns
        BY FS_CardinalityType DEF BleTypes
      <3>3. IsFiniteSet(conns') /\ Cardinality(conns') = Cardinality(conns) - 1
        BY <3>1, <3>2, FS_RemoveElement
      <3>4. Cardinality(conns') <= MaxConns
        BY <3>2, <3>3, Indices
      <3> QED
        BY <3>1, <3>3, <3>4 DEF BleTypes
    <2>3. WorksOK(works')
      <3> DEFINE w == IF lost THEN Submitted("update") ELSE works
      <3>1. WorksOK(w)
        BY Submits DEF BleTypes
      <3>2. \/ works' = w
            \/ "raise" \notin Range(w) /\ works' = Append(w, "raise")
        BY <1>4 DEF Leaves
      <3> HIDE DEF w
      <3> QED
        BY <3>1, <3>2, SubmitOK
    <2>4. adv' \in Adv
      BY <1>4 DEF Leaves, BleTypes, Adv
    <2> QED
      BY <1>4, <2>1, <2>2, <2>3, <2>4 DEF Leaves, ghosts, BleTypes
  <1>5. ASSUME NEW c \in conns, Refused(c) PROVE BleTypes'
    <2>1. c.host \in Hosts
      BY DEF BleTypes, Conn
    <2>2. bonds' \in [Hosts -> Nat] /\ refused' \subseteq Hosts
      BY <1>5, <2>1 DEF Refused, BleTypes
    <2>3. conns' \subseteq Conn /\ IsFiniteSet(conns') /\ Cardinality(conns') <= MaxConns
      BY <1>5, HungUpOnSame DEF Refused, Same
    <2> QED
      BY <1>5, <2>2, <2>3 DEF Refused, BleTypes, WorksOK
  <1> QED
    BY <1>1, <1>2, <1>3, <1>4, <1>5 DEF BleStack

LEMMA BleTypesKept ==
  ASSUME BleTypes, BleNext \/ UNCHANGED bleVars
  PROVE  BleTypes'
  <1>1. CASE UNCHANGED bleVars
    BY <1>1 DEF bleVars, BleTypes, WorksOK
  <1> QED
    BY <1>1, ThreadTypes, CalledTypes, StackTypes DEF BleNext

-----------------------------------------------------------------------------
LEMMA PowerKept ==
  ASSUME PowerTypeOK, Next \/ UNCHANGED vars
  PROVE  PowerTypeOK'
  <1> DEFINE Asks == Active \/ Requested \/ GoesToSleep \/ Reset
  <1>0. MaxRequests \in Nat
    BY PowerAssumption
  <1>1. CASE UNCHANGED power
    BY <1>1 DEF power, PowerTypeOK
  <1>2. CASE UNCHANGED awake /\ sleepWork' \in BOOLEAN
    BY <1>2 DEF awake, PowerTypeOK
  <1>3. CASE Asks /\ sleepWork' \in BOOLEAN
    <2>1. requests' \in 0 .. MaxRequests
      <3>1. requests \in 0 .. MaxRequests
        BY DEF PowerTypeOK
      <3>2. requests' = requests \/ (requests < MaxRequests /\ requests' = requests + 1)
        BY <1>3 DEF Active, Requested, GoesToSleep, Reset
      <3> QED
        BY <1>0, <3>1, <3>2
    <2>2. UNCHANGED transport /\ forceSleep' \in {forceSleep, FALSE} /\ asleep' \in {asleep, TRUE, FALSE}
      BY <1>3 DEF Active, Requested, GoesToSleep, Reset
    <2> QED
      BY <1>3, <2>1, <2>2 DEF PowerTypeOK
  <1>4. CASE SleepWorker
    BY <1>4 DEF SleepWorker, PowerTypeOK
  <1>5. sleepWork \in BOOLEAN
    BY DEF PowerTypeOK
  <1>6. ASSUME PptReconn PROVE sleepWork' \in BOOLEAN
    BY <1>5, <1>6 DEF PptReconn, Reconnect
  <1>7. ASSUME PptNext
        PROVE  \/ UNCHANGED power
               \/ UNCHANGED awake /\ sleepWork' \in BOOLEAN
               \/ Asks /\ sleepWork' \in BOOLEAN
    <2>1. CASE \/ SendReport \/ SenderPolls \/ PollTimer \/ AirDelivers \/ ASecondPasses
               \/ BatDisplay \/ BatDisplayOff \/ Paired
      BY <2>1 DEF SendReport, SenderPolls, PollTimer, AirDelivers, ASecondPasses, BatDisplay,
                  BatDisplayOff, Paired
    <2>2. CASE PptKeyPress \/ PptSelect
      BY <1>6, <2>2 DEF PptKeyPress, PptSelect
    <2>3. CASE PptPair \/ PptSleep \/ PptReset
      BY <1>5, <2>3 DEF PptPair, PptSleep, PptReset
    <2>4. CASE PairTimeout \/ Connected
      BY <1>5, <2>4 DEF PairTimeout, Connected
    <2>5. CASE ConnectTimeout
      BY <1>5, <2>5 DEF ConnectTimeout, Reconnect
    <2>6. CASE ConnectLost
      BY <1>5, <2>6 DEF ConnectLost, Reconnect
    <2> QED
      BY <1>7, <2>1, <2>2, <2>3, <2>4, <2>5, <2>6 DEF PptNext, PptThread, PptRadio
  <1>8. ASSUME BleNext
        PROVE  \/ UNCHANGED power
               \/ UNCHANGED awake /\ sleepWork' \in BOOLEAN
               \/ Asks /\ sleepWork' \in BOOLEAN
    <2>1. CASE Thread
      BY <2>1 DEF Thread, Switch, Transfer, Update, Stop, Start, Started, Raise, Check, Wake, Tired
    <2>2. CASE BleUser
      BY <1>5, <2>2 DEF BleUser, BleKeyPress, Clear, Request
    <2>3. CASE WorkRuns \/ AdvTimeout \/ Save
      BY <2>3 DEF WorkRuns, AdvTimeout, Save
    <2>4. CASE BleSleep \/ BleReset
      BY <1>5, <2>4 DEF BleSleep, BleReset, BleBoot
    <2>5. ASSUME NEW h \in Hosts, Joins(h) PROVE UNCHANGED awake /\ sleepWork' \in BOOLEAN
      BY <2>5 DEF Joins
    <2>6. ASSUME NEW c \in conns, Encrypts(c) \/ Pairs(c) \/ Refused(c) PROVE UNCHANGED power
      BY <2>6 DEF Encrypts, Pairs, Refused
    <2>7. ASSUME NEW c \in conns, NEW lost \in BOOLEAN, Leaves(c, lost)
          PROVE  UNCHANGED awake /\ sleepWork' \in BOOLEAN
      BY <1>5, <2>7 DEF Leaves
    <2> QED
      BY <1>8, <2>1, <2>2, <2>3, <2>4, <2>5, <2>6, <2>7 DEF BleNext, BleTimers, BleStack
  <1>9. CASE UNCHANGED vars
    BY <1>1, <1>9 DEF vars
  <1> QED
    BY <1>1, <1>2, <1>3, <1>4, <1>7, <1>8, <1>9 DEF Next, OnPpt, OnBle

LinksInv == PowerTypeOK /\ LinkTypes /\ ReportsInv /\ BleTypes

LEMMA LinksStart == Init => LinksInv
  <1> SUFFICES ASSUME Init PROVE LinksInv
    OBVIOUS
  <1>1. PowerTypeOK
    <2>1. sleepWork \in BOOLEAN /\ transport \in {"ble", "ppt"}
      BY DEF Init, PowerOn
    <2>2. MaxRequests \in Nat
      BY PowerAssumption
    <2>3. forceSleep = FALSE /\ asleep = FALSE /\ requests = 0
      BY DEF Init, PowerOn
    <2>4. requests \in 0 .. MaxRequests
      BY <2>2, <2>3
    <2> QED
      BY <2>1, <2>3, <2>4 DEF PowerTypeOK
  <1> QED
    BY <1>1, PptStarts, BleStarts DEF Init, LinksInv

LEMMA LinksStep == LinksInv /\ [Next]_vars => LinksInv'
  <1> SUFFICES ASSUME LinksInv, Next \/ UNCHANGED vars PROVE LinksInv'
    OBVIOUS
  <1>1. PptNext \/ UNCHANGED pptVars
    BY DEF Next, OnPpt, OnBle, vars
  <1>2. BleNext \/ UNCHANGED bleVars
    BY DEF Next, OnPpt, OnBle, vars
  <1> QED
    BY <1>1, <1>2, PowerKept, ReportsKept, LinkKept, BleTypesKept DEF LinksInv

LEMMA InvSound == LinksInv => LinksSound
  <1> SUFFICES ASSUME LinksInv PROVE LinksSound
    OBVIOUS
  <1>1. PptTypeOK
    BY DEF LinksInv, LinkTypes, ReportsInv, RingInv, PptTypeOK
  <1>2. BleTypeOK
    <2>1. Len(works) <= 2 /\ works \in Seq({"update", "raise"})
      BY TwoWorks DEF LinksInv, BleTypes, WorksOK
    <2> QED
      BY <2>1 DEF LinksInv, BleTypes, BleTypeOK, Conn, Adv, Saved, Kinds
  <1>3. Delivered
    BY LineDelivered DEF LinksInv
  <1> QED
    BY <1>1, <1>2, <1>3 DEF LinksSound, TypeOK, LinksInv

(***************************************************************************)
(* On either link everything keeps its type and its bounds, and what the   *)
(* dongle has, what the radio library holds and what waits in the ring     *)
(* are the reports accepted, each once and in order, and all of them while *)
(* none was discarded: the ring put by the thread and emptied by the       *)
(* timer's interrupt, for any sizes of ring, packets and quota.            *)
(***************************************************************************)
THEOREM LinksAreSound == Spec => []LinksSound
  BY LinksStart, LinksStep, InvSound, PTL DEF Spec

-----------------------------------------------------------------------------
(***************************************************************************)
(* The keys of the hosts. While no host is mixed up between profiles, the  *)
(* connections and the advertising are on the identities of the active     *)
(* profile, so that what the stack's callbacks store and forget is its.    *)
(***************************************************************************)

\* No callback runs while the thread stops advertising: it would find the
\* connection of one profile when another is active already.
Calm == "stop" \notin Waits /\ "started" \notin Waits

HasKeys ==
  \A p \in Index : ~Open(p) =>
    LET peer == profiles[p].peer
    IN  bonds[peer] \in Identities(p) \/ (peer \in refused /\ bonds[peer] = 0)
StoredInv == \A p \in Index : flash.profiles[p].peer = profiles[p].peer
SavedInv == \A p \in Index : ~Open(p) => flash.profiles[p].bt_id \in Identities(p)
ConnsInv == \A c \in conns : c.id \in Identities(active)
AirInv ==
  /\ air \in Identities(active) \cup {0} \/ Calls("update") \/ Calls("stop")
  /\ air # 0 => adv.status \/ Calls("started")
IdInv ==
  profiles[active].bt_id \in Identities(active) \/ (Calls("update") /\ adv.state # "none")
FlagInv == \A p \in Index : profiles[p].connected => p = active /\ conns # {}

KeptInv == ~mixed => HasKeys /\ StoredInv /\ SavedInv /\ ConnsInv /\ AirInv /\ IdInv /\ FlagInv

\* What changes neither peers, keys, identities nor the active profile
LEMMA FrameKeeps ==
  ASSUME BleTypes, HasKeys, StoredInv, SavedInv, ConnsInv, FlagInv,
         UNCHANGED <<active, bonds, refused>>, flash'.profiles = flash.profiles,
         Same(conns', conns), profiles' = profiles
  PROVE  HasKeys' /\ StoredInv' /\ SavedInv' /\ ConnsInv' /\ FlagInv'
  <1>1. HasKeys' /\ StoredInv' /\ SavedInv'
    BY DEF HasKeys, StoredInv, SavedInv, Open
  <1>2. ConnsInv' /\ FlagInv'
    BY DEF ConnsInv, FlagInv, Same
  <1> QED
    BY <1>1, <1>2

LEMMA SameSelf == ASSUME BleTypes PROVE Same(conns, conns)
  BY DEF BleTypes, Same

\* A callback finds no call of the thread under way that advertises.
LEMMA Outside ==
  ASSUME Calm, Reached
  PROVE  ~Calls("update") /\ ~Calls("stop") /\ ~Calls("started")
  BY BleAssumption DEF Calm, Reached, Calls, BlePoints

\* The thread's own steps
LEMMA ThreadKeeps ==
  ASSUME BleTypes, KeptInv, Thread
  PROVE  KeptInv'
  <1> SUFFICES ASSUME ~mixed' PROVE KeptInv'
    BY DEF KeptInv
  <1>0. ~mixed
    BY DEF Thread, Switch, Transfer, Update, Stop, Start, Started, Raise, Check, Wake, Tired, ghosts
  <1>k. HasKeys /\ StoredInv /\ SavedInv /\ ConnsInv /\ AirInv /\ IdInv /\ FlagInv
    BY <1>0 DEF KeptInv
  <1>t. BleTypes'
    BY ThreadTypes
  <1>1. CASE Switch
    <2>1. active' # active \/ adv'.state # adv.state => Calls("update")'
      BY <1>1, SwitchCalls DEF Calls, Idle
    <2>2. ~Calls("update") /\ ~Calls("stop") /\ ~Calls("started")
      BY <1>1 DEF Switch, Calls
    <2>3. air \in Identities(active) \cup {0} /\ profiles[active].bt_id \in Identities(active)
      BY <1>k, <2>2 DEF AirInv, IdInv
    <2>4. UNCHANGED <<profiles, flash, bonds, air, refused>>
      BY <1>1 DEF Switch
    <2>5. adv'.status = adv.status
      BY <1>1 DEF Switch, BleTypes, Adv
    <2>6. air' # 0 => adv'.status
      BY <1>k, <2>2, <2>4, <2>5 DEF AirInv
    <2>7. CASE active' = active
      <3>1. conns' = conns \/ conns' = HungUp(active)
        BY <1>1 DEF Switch
      <3>2. Same(conns', conns)
        BY <3>1, SameSelf, HungUpSame
      <3>3. HasKeys' /\ StoredInv' /\ SavedInv' /\ ConnsInv' /\ FlagInv'
        BY <1>k, <2>4, <2>7, <3>2, FrameKeeps
      <3> QED
        BY <2>3, <2>4, <2>6, <2>7, <3>3 DEF KeptInv, AirInv, IdInv
    <2>8. CASE active' # active
      <3>1. conns = {} /\ conns' = conns /\ adv'.state \in Kinds
        <4>1. Head(todo)[1] \in Kinds
          BY <1>1, SwitchCalls
        <4>2. ~Linked(active) /\ active' = Head(todo)[2] /\ conns' = conns
          BY <1>1, <2>8 DEF Switch
        <4>3. mixed' = (mixed \/ (Head(todo)[2] # active /\ conns # {}))
          BY <1>1, <4>2 DEF Switch
        <4>4. adv'.state = Head(todo)[1]
          BY <1>1, <4>2 DEF Switch, BleTypes, Adv
        <4> QED
          BY <2>8, <4>1, <4>2, <4>3, <4>4
      <3>2. HasKeys' /\ StoredInv' /\ SavedInv'
        BY <1>k, <2>4 DEF HasKeys, StoredInv, SavedInv, Open
      <3>3. ConnsInv' /\ FlagInv'
        BY <1>k, <2>4, <3>1 DEF ConnsInv, FlagInv
      <3>4. Calls("update")' /\ adv'.state # "none"
        BY <2>1, <2>8, <3>1 DEF Kinds
      <3> QED
        BY <2>6, <3>2, <3>3, <3>4 DEF KeptInv, AirInv, IdInv
    <2> QED
      BY <2>7, <2>8
  <1>2. CASE Update
    <2>1. PICK gone \in BOOLEAN, id \in Nat :
            /\ gone = (adv.state = "reconn" /\ ReconnId = 0)
            /\ id = CASE adv.state = "pair" -> PairId
                      [] gone -> Base(active)
                      [] adv.state = "reconn" /\ ~gone -> ReconnId
                      [] OTHER -> profiles[active].bt_id
            /\ gone => id = Base(active)
            /\ profiles' = [profiles EXCEPT ![active].bt_id = id,
                                            ![active].peer = IF gone THEN AnyAddr ELSE @]
            /\ LET resets == gone \/ (adv.state = "pair" /\ ~Open(active))
               IN  /\ bonds' = IF resets THEN Forget(id, bonds) ELSE bonds
                   /\ conns' = IF resets THEN ClosedOn(id, conns) ELSE conns
            /\ flash' = IF gone THEN [flash EXCEPT !.profiles[active] =
                                        [peer |-> AnyAddr, bt_id |-> profiles[active].bt_id]] ELSE flash
      BY <1>2, UpdateParts
    <2>2. active \in Index /\ profiles \in [Index -> Profile] /\ UNCHANGED <<active, air, mixed>>
      BY <1>2 DEF Update, BleTypes, ghosts
    <2>3. Base(active) \in Nat \ {0} /\ Base(active) + 1 \in Nat \ {0}
      BY <2>2, Indices
    <2>4. /\ Calls("update") /\ ~Calls("started")
      BY <1>2 DEF Update, Calls
    <2>5. Identities(active) = {Base(active), Base(active) + 1}
      BY DEF Identities
    <2>6. ~Open(active) => /\ profiles[active].peer # AnyAddr
                           /\ bonds[profiles[active].peer] \in Identities(active) \cup {0}
      BY <1>k, <2>2 DEF HasKeys, Open
    \* Only the host whose keys were forgotten is taken for gone.
    <2>7. gone => ~Open(active) /\ bonds[profiles[active].peer] = 0
      <3>1. CASE Open(active)
        BY <2>1, <2>3, <3>1 DEF ReconnId
      <3>2. CASE ~Open(active)
        BY <2>1, <2>3, <2>5, <2>6, <3>2 DEF ReconnId, Bonded
      <3> QED
        BY <3>1, <3>2
    <2>8. id \in Identities(active)
      <3>1. CASE adv.state = "pair"
        BY <2>1, <2>5, <3>1 DEF PairId
      <3>2. CASE gone
        <4>1. id = Base(active)
          BY <2>1, <3>2, Zenon
        <4> QED
          BY <2>5, <4>1
      <3>3. CASE adv.state = "reconn" /\ Open(active) /\ ~gone
        BY <2>1, <2>5, <3>3 DEF ReconnId
      <3>4. CASE adv.state = "reconn" /\ ~Open(active) /\ ~gone
        <4>1. id = ReconnId /\ ReconnId # 0
          BY <2>1, <3>4
        <4> QED
          BY <2>3, <2>5, <2>6, <3>4, <4>1 DEF ReconnId, Bonded
      <3>5. CASE adv.state = "none"
        <4>1. id = profiles[active].bt_id
          BY <2>1, <3>5
        <4> QED
          BY <1>k, <3>5, <4>1 DEF IdInv
      <3> QED
        BY <3>1, <3>2, <3>3, <3>4, <3>5 DEF BleTypes, Adv
    <2>9. /\ profiles'[active].bt_id = id
          /\ \A p \in Index : /\ profiles'[p].peer = IF gone /\ p = active THEN AnyAddr ELSE profiles[p].peer
                              /\ profiles'[p].connected = profiles[p].connected
      <3> DEFINE x == [profiles[active] EXCEPT !.bt_id = id,
                                               !.peer = IF gone THEN AnyAddr ELSE profiles[active].peer]
      <3>1. profiles' = [profiles EXCEPT ![active] = x]
        <4>1. CASE gone
          <5>1. profiles' = [profiles EXCEPT ![active].bt_id = id, ![active].peer = AnyAddr]
            BY <2>1, <4>1, Zenon
          <5>2. x = [profiles[active] EXCEPT !.bt_id = id, !.peer = AnyAddr]
            BY <4>1
          <5> HIDE DEF x
          <5> QED
            BY <2>2, <5>1, <5>2
        <4>2. CASE ~gone
          BY <2>1, <4>2
        <4> QED
          BY <4>1, <4>2
      <3>2. /\ x.bt_id = id /\ x.connected = profiles[active].connected
            /\ x.peer = IF gone THEN AnyAddr ELSE profiles[active].peer
        BY <2>2 DEF Profile
      <3> HIDE DEF x
      <3> QED
        BY <2>2, <3>1, <3>2
    \* What is forgotten is an identity of which no profile's host has keys.
    <2>10. HasKeys'
      <3>1. ASSUME NEW p \in Index, profiles'[p].peer # AnyAddr
            PROVE  /\ profiles'[p].peer = profiles[p].peer /\ profiles[p].peer \in Hosts /\ ~Open(p)
                   /\ ~(gone /\ p = active)
        BY <2>9, <3>1 DEF BleTypes, Profile, Open
      <3>2. ASSUME NEW p \in Index, profiles'[p].peer # AnyAddr, bonds' # bonds,
                   bonds[profiles[p].peer] \in Identities(p)
            PROVE  bonds[profiles[p].peer] # id
        <4>1. CASE p = active
          <5>1. adv.state = "pair" /\ ~Open(active) /\ id = PairId
            BY <2>1, <3>1, <3>2, <4>1
          <5> QED
            BY <2>3, <2>5, <2>6, <3>2, <4>1, <5>1 DEF PairId, Bonded
        <4>2. CASE p # active
          BY <2>2, <2>8, <3>2, <4>2, Indices
        <4> QED
          BY <4>1, <4>2
      <3>3. bonds' = bonds \/ bonds' = Forget(id, bonds)
        BY <2>1
      <3>4. bonds \in [Hosts -> Nat]
        BY DEF BleTypes
      <3>5. ASSUME NEW p \in Index, profiles'[p].peer # AnyAddr
            PROVE  \/ bonds'[profiles'[p].peer] \in Identities(p)
                   \/ profiles'[p].peer \in refused' /\ bonds'[profiles'[p].peer] = 0
        <4> DEFINE h == profiles[p].peer
        <4>1. h \in Hosts /\ profiles'[p].peer = h /\ refused' = refused
          BY <1>2, <3>1, <3>5 DEF Update, ghosts
        <4>2. bonds[h] \in Identities(p) \/ (h \in refused /\ bonds[h] = 0)
          BY <1>k, <3>1, <3>5 DEF HasKeys
        <4>3. CASE bonds[h] \in Identities(p)
          <5>1. bonds'[h] = bonds[h]
            BY <3>2, <3>3, <3>4, <3>5, <4>1, <4>3, ForgetType
          <5> QED
            BY <4>1, <4>3, <5>1
        <4>4. CASE h \in refused /\ bonds[h] = 0
          <5>1. bonds'[h] = 0
            BY <3>3, <3>4, <4>1, <4>4, ForgetType
          <5> QED
            BY <4>1, <4>4, <5>1
        <4> QED
          BY <4>2, <4>3, <4>4
      <3> QED
        BY <3>5 DEF HasKeys, Open
    <2>11. StoredInv' /\ SavedInv'
      <3>1. CASE ~gone
        BY <1>k, <2>1, <2>9, <3>1 DEF StoredInv, SavedInv, Open
      <3>2. CASE gone
        <4> DEFINE x == [peer |-> AnyAddr, bt_id |-> profiles[active].bt_id]
        <4>1. flash' = [flash EXCEPT !.profiles[active] = x] /\ x.peer = AnyAddr
          BY <2>1, <3>2
        <4> HIDE DEF x
        <4>2. flash'.profiles = [flash.profiles EXCEPT ![active] = x]
          BY <4>1 DEF BleTypes
        <4>3. \A p \in Index : flash'.profiles[p] = IF p = active THEN x ELSE flash.profiles[p]
          BY <4>2 DEF BleTypes
        <4>4. ASSUME NEW p \in Index PROVE flash'.profiles[p].peer = profiles'[p].peer
          BY <1>k, <2>9, <3>2, <4>1, <4>3 DEF StoredInv
        <4>5. ASSUME NEW p \in Index, profiles'[p].peer # AnyAddr
              PROVE  flash'.profiles[p].bt_id \in Identities(p)
          <5>1. CASE p = active
            BY <2>9, <3>2, <4>5, <5>1
          <5>2. CASE p # active
            <6>1. ~Open(p)
              BY <4>5, <2>9, <4>3, <5>2 DEF Open
            <6> QED
              BY <1>k, <2>9, <4>3, <5>2, <6>1 DEF SavedInv
          <5> QED
            BY <5>1, <5>2
        <4> QED
          BY <4>4, <4>5 DEF StoredInv, SavedInv, Open
      <3> QED
        BY <3>1, <3>2
    <2>12. Same(conns', conns)
      BY <2>1, SameSelf, ClosedOnSame
    <2>13. ConnsInv' /\ FlagInv'
      BY <1>k, <2>2, <2>9, <2>12 DEF ConnsInv, FlagInv, Same
    <2>14. AirInv'
      <3>1. adv.status => Calls("stop")'
        BY <1>2, UpdateCalls DEF Calls, Idle
      <3>2. air # 0 => adv.status
        BY <1>k, <2>4 DEF AirInv
      <3>3. adv'.status = adv.status
        BY <1>2 DEF Update, BleTypes, Adv
      <3> QED
        BY <2>2, <3>1, <3>2, <3>3 DEF AirInv
    <2>15. IdInv'
      BY <2>2, <2>8, <2>9 DEF IdInv, Identities
    <2> QED
      BY <2>10, <2>11, <2>13, <2>14, <2>15 DEF KeptInv
  <1>3. CASE Stop \/ Start \/ Started
    <2>1. HasKeys' /\ StoredInv' /\ SavedInv' /\ ConnsInv' /\ FlagInv'
      BY <1>3, <1>k, FrameKeeps, SameSelf DEF Stop, Start, Started, stack, ghosts
    <2>2. ~Calls("update") /\ UNCHANGED <<profiles, active>>
      BY <1>3 DEF Stop, Start, Started, Calls, stack
    <2>3. profiles[active].bt_id \in Identities(active)
      BY <1>k, <2>2 DEF IdInv
    <2>4. AirInv'
      <3>1. CASE Stop
        BY <3>1 DEF Stop, AirInv
      <3>2. CASE Start
        <4>1. CASE air' = air /\ adv' = adv
          <5>1. ~Calls("stop") /\ ~Calls("started")
            BY <3>2 DEF Start, Calls
          <5> QED
            BY <1>k, <2>2, <4>1, <5>1 DEF AirInv
        <4>2. CASE air' = profiles[active].bt_id /\ Then(<<<<"started">>>>)
          <5>1. todo' # <<>> /\ Head(todo') = <<"started">>
            BY <3>2, <4>2, Singles, ThenOK DEF Start, Calls, Idle, BleTypes
          <5>2. Calls("started")'
            BY <5>1 DEF Calls, Idle
          <5> QED
            BY <2>2, <2>3, <4>2, <5>2 DEF AirInv
        <4> QED
          BY <3>2, <4>1, <4>2 DEF Start
      <3>3. CASE Started
        <4>1. air \in Identities(active) \cup {0} /\ UNCHANGED air
          BY <1>k, <3>3 DEF Started, AirInv, Calls, stack
        <4>2. adv'.status
          BY <3>3 DEF Started, BleTypes, Adv
        <4> QED
          BY <2>2, <4>1, <4>2 DEF AirInv
      <3> QED
        BY <1>3, <3>1, <3>2, <3>3
    <2> QED
      BY <2>1, <2>2, <2>3, <2>4 DEF KeptInv, IdInv
  <1>4. CASE Transfer \/ Raise \/ Check \/ Wake \/ Tired
    <2>1. UNCHANGED <<profiles, active, flash, bonds, air, refused>> /\ adv'.status = adv.status
      BY <1>4 DEF Transfer, Raise, Check, Wake, Tired, stack, ghosts, BleTypes, Adv
    <2>2. conns' = conns \/ conns' = HungUp(endpoint)
      BY <1>4 DEF Transfer, Raise, Check, Wake, Tired, stack
    <2>3. HasKeys' /\ StoredInv' /\ SavedInv' /\ ConnsInv' /\ FlagInv'
      BY <1>k, <2>1, <2>2, FrameKeeps, SameSelf, HungUpSame
    <2>4. ~Calls("update") /\ ~Calls("stop") /\ ~Calls("started")
      BY <1>4 DEF Transfer, Raise, Check, Wake, Tired, Calls
    <2>5. AirInv' /\ IdInv'
      BY <1>k, <2>1, <2>4 DEF AirInv, IdInv
    <2> QED
      BY <2>3, <2>5 DEF KeptInv
  <1> QED
    BY <1>1, <1>2, <1>3, <1>4 DEF Thread

LEMMA CalledKeeps ==
  ASSUME BleTypes, KeptInv, BleUser \/ BleTimers
  PROVE  KeptInv'
  <1> SUFFICES ASSUME ~mixed' PROVE KeptInv'
    BY DEF KeptInv
  <1>0. ~mixed
    BY DEF BleUser, BleTimers, BleKeyPress, Clear, Request, WorkRuns, AdvTimeout, Save, BleSleep,
           BleReset, BleBoot, ghosts
  <1>k. HasKeys /\ StoredInv /\ SavedInv /\ ConnsInv /\ AirInv /\ IdInv /\ FlagInv
    BY <1>0 DEF KeptInv
  <1>1. ASSUME Idle PROVE ~Calls("update") /\ ~Calls("stop") /\ ~Calls("started")
    BY <1>1 DEF Calls
  <1>2. ASSUME Idle, UNCHANGED <<profiles, active, bonds, refused>>, air' \in {air, 0},
               flash'.profiles = flash.profiles, adv'.status = adv.status, Same(conns', conns)
        PROVE  KeptInv'
    <2>1. HasKeys' /\ StoredInv' /\ SavedInv' /\ ConnsInv' /\ FlagInv'
      BY <1>2, <1>k, FrameKeeps
    <2>2. AirInv' /\ IdInv'
      BY <1>1, <1>2, <1>k DEF AirInv, IdInv
    <2> QED
      BY <2>1, <2>2 DEF KeptInv
  <1>3. CASE BleKeyPress \/ WorkRuns \/ AdvTimeout
    <2>1. adv'.status = adv.status
      BY <1>3 DEF BleKeyPress, WorkRuns, AdvTimeout, BleTypes, Adv
    <2> QED
      BY <1>2, <1>3, <2>1, SameSelf DEF BleKeyPress, WorkRuns, AdvTimeout, stack, ghosts
  <1>4. CASE Save
    <2>1. flash'.profiles = flash.profiles
      BY <1>4 DEF Save, BleTypes
    <2> QED
      BY <1>2, <1>4, <2>1, SameSelf DEF Save, stack, ghosts
  <1>5. ASSUME NEW p \in Index, NEW kind \in {"reconn", "pair"}, Request(kind, p) PROVE KeptInv'
    BY <1>2, <1>5, SameSelf DEF Request, stack
  <1>6. CASE BleSleep
    <2>1. adv'.status = adv.status
      BY <1>6 DEF BleSleep, BleTypes, Adv
    <2> QED
      BY <1>2, <1>6, <2>1, HungUpSame DEF BleSleep, ghosts
  <1>7. CASE Clear
    <2>1. /\ Idle /\ profiles' = [profiles EXCEPT ![active].peer = AnyAddr]
          /\ UNCHANGED <<active, bonds, air, conns, adv, refused>>
      BY <1>7 DEF Clear, stack
    <2>2. \A p \in Index :
            /\ profiles'[p].peer = IF p = active THEN AnyAddr ELSE profiles[p].peer
            /\ profiles'[p].bt_id = profiles[p].bt_id
            /\ profiles'[p].connected = profiles[p].connected
      BY <2>1, ProfileChanges
    <2>3. profiles' \in [Index -> Profile] /\ active \in Index
      BY <2>1, ProfileChanges DEF BleTypes
    <2>4. HasKeys' /\ ConnsInv' /\ FlagInv'
      BY <1>k, <2>1, <2>2 DEF HasKeys, ConnsInv, FlagInv, Open
    <2>5. StoredInv' /\ SavedInv'
      <3>1. CASE Open(active) /\ flash' = flash
        <4>1. \A p \in Index : profiles'[p].peer = profiles[p].peer
          BY <2>2, <3>1 DEF Open
        <4> QED
          BY <1>k, <3>1, <4>1 DEF StoredInv, SavedInv, Open
      <3>2. CASE flash' = Stored(profiles')
        <4>1. \A p \in Index : flash'.profiles[p] =
                IF p = active THEN [peer |-> profiles'[active].peer, bt_id |-> profiles'[active].bt_id]
                ELSE flash.profiles[p]
          BY <2>3, <3>2, StoredType
        <4>2. ASSUME NEW p \in Index PROVE flash'.profiles[p].peer = profiles'[p].peer
          BY <1>k, <2>2, <4>1 DEF StoredInv
        <4>3. ASSUME NEW p \in Index, profiles'[p].peer # AnyAddr
              PROVE  flash'.profiles[p].bt_id \in Identities(p)
          <5>1. CASE p = active
            BY <2>2, <4>3, <5>1
          <5>2. CASE p # active
            <6>1. ~Open(p)
              BY <4>3, <2>2, <4>1, <5>2 DEF Open
            <6> QED
              BY <1>k, <2>2, <4>1, <5>2, <6>1 DEF SavedInv
          <5> QED
            BY <5>1, <5>2
        <4> QED
          BY <4>2, <4>3 DEF StoredInv, SavedInv, Open
      <3> QED
        BY <1>7, <3>1, <3>2 DEF Clear
    <2>6. AirInv' /\ IdInv'
      BY <1>1, <1>k, <2>1, <2>2, <2>3 DEF AirInv, IdInv
    <2> QED
      BY <2>4, <2>5, <2>6 DEF KeptInv
  <1>8. CASE BleReset
    <2>1. \A p \in Index : profiles'[p].peer = profiles[p].peer /\ profiles'[p].connected = FALSE
      BY <1>8, <1>k DEF BleReset, BleBoot, Loaded, StoredInv
    <2>2. UNCHANGED <<flash, bonds, refused>> /\ conns' = {} /\ air' = 0 /\ adv'.state = "reconn"
      BY <1>8 DEF BleReset, BleBoot
    <2>3. Calls("update")'
      BY <1>8 DEF BleReset, BleBoot, Calls, Idle
    <2>4. HasKeys' /\ StoredInv' /\ SavedInv'
      BY <1>k, <2>1, <2>2 DEF HasKeys, StoredInv, SavedInv, Open
    <2> QED
      BY <2>1, <2>2, <2>3, <2>4 DEF KeptInv, ConnsInv, FlagInv, AirInv, IdInv
  <1> QED
    BY <1>3, <1>4, <1>5, <1>6, <1>7, <1>8 DEF BleUser, BleTimers

\* The identity whose bonds a new host of the profile clears is the other one.
LEMMA OtherOfTwo ==
  ASSUME NEW p \in Index, active = p, NEW i \in Identities(p)
  PROVE  OtherId(i) \in Identities(p) /\ OtherId(i) # i
  <1>1. Base(p) \in Nat
    BY Indices
  <1>2. CASE i = Base(p)
    <2>1. i - Base(active) + 1 = 1 /\ 1 % 2 = 1
      BY <1>1, <1>2
    <2> QED
      BY <1>1, <1>2, <2>1 DEF OtherId, Identities
  <1>3. CASE i = Base(p) + 1
    <2>1. i - Base(active) + 1 = 2 /\ 2 % 2 = 0
      BY <1>1, <1>3
    <2> QED
      BY <1>1, <1>3, <2>1 DEF OtherId, Identities
  <1> QED
    BY <1>2, <1>3 DEF Identities

LEMMA StackKeeps ==
  ASSUME Calm, BleTypes, KeptInv, BleStack
  PROVE  KeptInv'
  <1> SUFFICES ASSUME ~mixed' PROVE KeptInv'
    BY DEF KeptInv
  <1>0. ~mixed /\ Reached
    <2>1. ASSUME NEW h \in Hosts, Joins(h) PROVE ~mixed /\ Reached
      BY <2>1 DEF Joins, ghosts
    <2>2. ASSUME NEW c \in conns, Encrypts(c) PROVE ~mixed /\ Reached
      BY <2>2 DEF Encrypts, ghosts
    <2>3. ASSUME NEW c \in conns, Pairs(c) PROVE ~mixed /\ Reached
      BY <2>3 DEF Pairs
    <2>4. ASSUME NEW c \in conns, NEW lost \in BOOLEAN, Leaves(c, lost) PROVE ~mixed /\ Reached
      BY <2>4 DEF Leaves, ghosts
    <2>5. ASSUME NEW c \in conns, Refused(c) PROVE ~mixed /\ Reached
      BY <2>5 DEF Refused
    <2> QED
      BY <2>1, <2>2, <2>3, <2>4, <2>5 DEF BleStack
  <1>k. HasKeys /\ StoredInv /\ SavedInv /\ ConnsInv /\ AirInv /\ IdInv /\ FlagInv
    BY <1>0 DEF KeptInv
  <1>n. ~Calls("update") /\ ~Calls("stop") /\ ~Calls("started")
    BY <1>0, Outside
  <1>a. /\ air \in Identities(active) \cup {0} /\ (air # 0 => adv.status)
        /\ profiles[active].bt_id \in Identities(active)
    BY <1>k, <1>n DEF AirInv, IdInv
  <1>i. active \in Index /\ bonds \in [Hosts -> Nat]
    BY DEF BleTypes
  <1>1. ASSUME NEW h \in Hosts, Joins(h) PROVE KeptInv'
    <2>1. /\ conns' = conns \union {[host |-> h, id |-> air, closing |-> FALSE]}
          /\ air # 0 /\ air' = 0
          /\ profiles' = [profiles EXCEPT ![active].connected = TRUE]
          /\ UNCHANGED <<active, flash, bonds, refused>>
      BY <1>1 DEF Joins, ghosts
    <2>2. \A p \in Index :
            /\ profiles'[p].peer = profiles[p].peer /\ profiles'[p].bt_id = profiles[p].bt_id
            /\ profiles'[p].connected = IF p = active THEN TRUE ELSE profiles[p].connected
      BY <2>1, ProfileChanges
    <2>3. HasKeys' /\ StoredInv' /\ SavedInv'
      BY <1>k, <2>1, <2>2 DEF HasKeys, StoredInv, SavedInv, Open
    <2>4. ConnsInv'
      BY <1>a, <1>k, <2>1 DEF ConnsInv
    <2>5. FlagInv'
      BY <1>k, <2>1, <2>2 DEF FlagInv
    <2>6. AirInv' /\ IdInv'
      BY <1>a, <1>i, <2>1, <2>2 DEF AirInv, IdInv
    <2> QED
      BY <2>3, <2>4, <2>5, <2>6 DEF KeptInv
  <1>2. ASSUME NEW c \in conns, Encrypts(c) PROVE KeptInv'
    <2>0. c.host \in Hosts /\ c.id \in Identities(active) /\ c.host # AnyAddr
      BY <1>k, BleAssumption DEF BleTypes, Conn, ConnsInv
    <2>1. /\ bonds[c.host] = c.id /\ Open(active)
          /\ profiles' = [profiles EXCEPT ![active].peer = c.host]
          /\ flash' = Stored(profiles')
          /\ bonds' = Forget(OtherId(c.id), bonds) /\ conns' = ClosedOn(OtherId(c.id), conns)
          /\ UNCHANGED <<active, air, adv, todo, refused>>
      BY <1>2 DEF Encrypts, Bonded, Updated, ghosts
    <2>2. /\ profiles' \in [Index -> Profile]
          /\ \A p \in Index :
            /\ profiles'[p].peer = IF p = active THEN c.host ELSE profiles[p].peer
            /\ profiles'[p].bt_id = profiles[p].bt_id
            /\ profiles'[p].connected = profiles[p].connected
      BY <2>0, <2>1, ProfileChanges
    <2>3. OtherId(c.id) \in Identities(active) /\ OtherId(c.id) # c.id
      BY <1>i, <2>0, OtherOfTwo
    <2>4. HasKeys'
      <3>1. ASSUME NEW p \in Index, profiles'[p].peer # AnyAddr
            PROVE  \/ bonds'[profiles'[p].peer] \in Identities(p)
                   \/ profiles'[p].peer \in refused' /\ bonds'[profiles'[p].peer] = 0
        <4>1. CASE p = active
          BY <2>0, <2>1, <2>2, <2>3, <4>1, <1>i, ForgetType
        <4>2. CASE p # active
          <5>1. profiles[p].peer \in Hosts /\ profiles'[p].peer = profiles[p].peer
            BY <2>2, <3>1, <4>2 DEF BleTypes, Profile
          <5>2. \/ bonds[profiles[p].peer] \in Identities(p)
                \/ profiles[p].peer \in refused /\ bonds[profiles[p].peer] = 0
            BY <1>k, <3>1, <5>1 DEF HasKeys, Open
          <5>3. bonds[profiles[p].peer] # OtherId(c.id)
            <6>1. OtherId(c.id) # 0
              BY <1>i, <2>3, Indices DEF Identities
            <6>2. OtherId(c.id) \notin Identities(p)
              BY <1>i, <2>3, <4>2, Indices
            <6> QED
              BY <5>2, <6>1, <6>2
          <5> QED
            BY <1>i, <2>1, <5>1, <5>2, <5>3, ForgetType
        <4> QED
          BY <4>1, <4>2
      <3> QED
        BY <3>1 DEF HasKeys, Open
    <2>5. StoredInv' /\ SavedInv'
      <3>1. \A p \in Index : flash'.profiles[p] =
              IF p = active THEN [peer |-> profiles'[active].peer, bt_id |-> profiles'[active].bt_id]
              ELSE flash.profiles[p]
        BY <2>1, <2>2, StoredType
      <3>2. ASSUME NEW p \in Index PROVE flash'.profiles[p].peer = profiles'[p].peer
        BY <1>k, <2>2, <3>1 DEF StoredInv
      <3>3. ASSUME NEW p \in Index, profiles'[p].peer # AnyAddr
            PROVE  flash'.profiles[p].bt_id \in Identities(p)
        <4>1. CASE p = active
          <5>1. profiles'[active].bt_id = profiles[active].bt_id
            BY <1>i, <2>2
          <5>2. flash'.profiles[p].bt_id = profiles'[active].bt_id
            BY <3>1, <4>1
          <5> QED
            BY <1>a, <4>1, <5>1, <5>2
        <4>2. CASE p # active
          <5>1. ~Open(p)
            BY <3>3, <2>2, <3>1, <4>2 DEF Open
          <5> QED
            BY <1>k, <2>2, <3>1, <4>2, <5>1 DEF SavedInv
        <4> QED
          BY <4>1, <4>2
      <3> QED
        BY <3>2, <3>3 DEF StoredInv, SavedInv, Open
    <2>6. Same(conns', conns)
      BY <2>1, ClosedOnSame
    <2>7. ConnsInv' /\ FlagInv'
      BY <1>k, <2>1, <2>2, <2>6 DEF ConnsInv, FlagInv, Same
    <2>8. AirInv' /\ IdInv'
      BY <1>a, <1>i, <2>1, <2>2 DEF AirInv, IdInv
    <2> QED
      BY <2>4, <2>5, <2>7, <2>8 DEF KeptInv
  <1>3. ASSUME NEW c \in conns, Pairs(c) PROVE KeptInv'
    <2> DEFINE id == profiles[active].bt_id
               same(p) == p # active /\ profiles[p].peer = c.host /\ profiles[p].bt_id # id
               bs == [bonds EXCEPT ![c.host] = c.id]
    <2>0. c.host \in Hosts /\ c.id \in Identities(active) /\ c.host # AnyAddr /\ c.id \in Nat
      BY <1>k, BleAssumption DEF BleTypes, Conn, ConnsInv
    <2>1. \A p \in Index : p # active => profiles[p].peer # c.host
      BY <1>3 DEF Pairs
    <2>2. /\ bonds' = Forget(OtherId(c.id), bs) /\ conns' = ClosedOn(OtherId(c.id), conns)
          /\ UNCHANGED <<active, air, adv, todo>>
      BY <1>3 DEF Pairs, Updated
    <2>3. OtherId(c.id) \in Identities(active) /\ OtherId(c.id) # c.id
      BY <1>i, <2>0, OtherOfTwo
    <2>4. /\ profiles' = [p \in Index |->
                            IF p = active THEN [profiles[p] EXCEPT !.peer = c.host]
                            ELSE IF same(p) THEN [profiles[p] EXCEPT !.bt_id = id]
                            ELSE profiles[p]]
          /\ flash' = [Stored(profiles') EXCEPT !.profiles = [p \in Index |->
                         IF same(p) THEN [peer |-> c.host, bt_id |-> id] ELSE @[p]]]
      BY <1>3 DEF Pairs
    <2>5. \A p \in Index : ~same(p)
      BY <2>1
    <2> HIDE DEF same
    <2>6. \A p \in Index :
            /\ profiles'[p].peer = IF p = active THEN c.host ELSE profiles[p].peer
            /\ profiles'[p].bt_id = profiles[p].bt_id
            /\ profiles'[p].connected = profiles[p].connected
      <3>1. ASSUME NEW p \in Index
            PROVE  /\ [profiles[p] EXCEPT !.peer = c.host].peer = c.host
                   /\ [profiles[p] EXCEPT !.peer = c.host].bt_id = profiles[p].bt_id
                   /\ [profiles[p] EXCEPT !.peer = c.host].connected = profiles[p].connected
        BY DEF BleTypes, Profile
      <3> QED
        BY <2>4, <2>5, <3>1
    <2>7. profiles' \in [Index -> Profile]
      BY StackTypes DEF BleTypes
    <2>8. bs \in [Hosts -> Nat] /\ \A h \in Hosts : bs[h] = IF h = c.host THEN c.id ELSE bonds[h]
      BY <1>i, <2>0
    <2> HIDE DEF bs
    <2>9. HasKeys'
      <3>1. ASSUME NEW p \in Index, profiles'[p].peer # AnyAddr
            PROVE  \/ bonds'[profiles'[p].peer] \in Identities(p)
                   \/ profiles'[p].peer \in refused' /\ bonds'[profiles'[p].peer] = 0
        <4>1. CASE p = active
          <5>1. bs[c.host] = c.id
            BY <2>0, <2>8
          <5> QED
            BY <2>0, <2>2, <2>3, <2>6, <2>8, <4>1, <5>1, ForgetType
        <4>2. CASE p # active
          <5>1. profiles[p].peer \in Hosts /\ profiles'[p].peer = profiles[p].peer
            BY <2>6, <3>1, <4>2 DEF BleTypes, Profile
          <5>2. \/ bonds[profiles[p].peer] \in Identities(p)
                \/ profiles[p].peer \in refused' /\ bonds[profiles[p].peer] = 0
            BY <1>3, <1>k, <2>1, <3>1, <4>2, <5>1 DEF HasKeys, Open, Pairs
          <5>3. bonds[profiles[p].peer] # OtherId(c.id)
            <6>1. OtherId(c.id) # 0
              BY <1>i, <2>3, Indices DEF Identities
            <6>2. OtherId(c.id) \notin Identities(p)
              BY <1>i, <2>3, <4>2, Indices
            <6> QED
              BY <5>2, <6>1, <6>2
          <5>4. bs[profiles[p].peer] = bonds[profiles[p].peer]
            BY <2>1, <2>8, <4>2, <5>1
          <5> QED
            BY <2>2, <2>8, <5>1, <5>2, <5>3, <5>4, ForgetType
        <4> QED
          BY <4>1, <4>2
      <3> QED
        BY <3>1 DEF HasKeys, Open
    <2>10. StoredInv' /\ SavedInv'
      <3> DEFINE s == Stored(profiles')
      <3>1. /\ s \in Flash
            /\ \A p \in Index : s.profiles[p] =
              IF p = active THEN [peer |-> profiles'[active].peer, bt_id |-> profiles'[active].bt_id]
              ELSE flash.profiles[p]
        BY <2>7, StoredType
      <3>2. flash' = [s EXCEPT !.profiles = [p \in Index |->
                        IF same(p) THEN [peer |-> c.host, bt_id |-> id] ELSE s.profiles[p]]]
        BY <2>4
      <3> HIDE DEF s
      <3>3. \A p \in Index : flash'.profiles[p] = s.profiles[p]
        BY <2>5, <3>1, <3>2 DEF Flash
      <3>4. ASSUME NEW p \in Index PROVE flash'.profiles[p].peer = profiles'[p].peer
        BY <1>k, <2>6, <3>1, <3>3 DEF StoredInv
      <3>5. ASSUME NEW p \in Index, profiles'[p].peer # AnyAddr
            PROVE  flash'.profiles[p].bt_id \in Identities(p)
        <4>1. CASE p = active
          BY <1>a, <2>2, <2>6, <3>1, <3>3, <4>1
        <4>2. CASE p # active
          <5>1. ~Open(p)
            BY <3>5, <2>6, <3>1, <3>3, <4>2 DEF Open
          <5> QED
            BY <1>k, <2>6, <3>1, <3>3, <4>2, <5>1 DEF SavedInv
        <4> QED
          BY <4>1, <4>2
      <3> QED
        BY <3>4, <3>5 DEF StoredInv, SavedInv, Open
    <2>11. Same(conns', conns)
      BY <2>2, ClosedOnSame
    <2>12. ConnsInv' /\ FlagInv'
      BY <1>k, <2>2, <2>6, <2>11 DEF ConnsInv, FlagInv, Same
    <2>13. AirInv' /\ IdInv'
      BY <1>a, <1>i, <2>2, <2>6 DEF AirInv, IdInv
    <2> QED
      BY <2>9, <2>10, <2>12, <2>13 DEF KeptInv
  <1>4. ASSUME NEW c \in conns, NEW lost \in BOOLEAN, Leaves(c, lost) PROVE KeptInv'
    <2>1. /\ conns' = conns \ {c}
          /\ profiles' = [profiles EXCEPT ![active].connected = FALSE]
          /\ UNCHANGED <<active, flash, bonds, air, todo, refused>>
      BY <1>4 DEF Leaves, FlagCleared, ghosts
    <2>2. \A p \in Index :
            /\ profiles'[p].peer = profiles[p].peer /\ profiles'[p].bt_id = profiles[p].bt_id
            /\ profiles'[p].connected = IF p = active THEN FALSE ELSE profiles[p].connected
      BY <2>1, ProfileChanges
    <2>3. adv'.status = adv.status
      BY <1>4 DEF Leaves, BleTypes, Adv
    <2>4. HasKeys' /\ StoredInv' /\ SavedInv' /\ ConnsInv'
      BY <1>k, <2>1, <2>2 DEF HasKeys, StoredInv, SavedInv, ConnsInv, Open
    <2>5. FlagInv'
      BY <1>k, <2>1, <2>2 DEF FlagInv
    <2>6. AirInv' /\ IdInv'
      BY <1>a, <1>i, <2>1, <2>2, <2>3 DEF AirInv, IdInv
    <2> QED
      BY <2>4, <2>5, <2>6 DEF KeptInv
  \* The keys that are forgotten are those of one host, which is remembered.
  <1>5. ASSUME NEW c \in conns, Refused(c) PROVE KeptInv'
    <2> DEFINE id == profiles[active].bt_id
    <2>1. /\ UNCHANGED <<active, air, adv, todo, profiles, flash>>
          /\ conns' = HungUpOn(c.host, id)
          /\ \/ UNCHANGED <<bonds, refused>>
             \/ bonds' = [bonds EXCEPT ![c.host] = 0] /\ refused' = refused \cup {c.host}
      BY <1>5 DEF Refused
    <2>2. ASSUME NEW p \in Index, ~Open(p)
          PROVE  \/ bonds'[profiles[p].peer] \in Identities(p)
                 \/ profiles[p].peer \in refused' /\ bonds'[profiles[p].peer] = 0
      <3>1. profiles[p].peer \in Hosts
        BY <2>2 DEF BleTypes, Profile, Open
      <3>2. \/ bonds[profiles[p].peer] \in Identities(p)
            \/ profiles[p].peer \in refused /\ bonds[profiles[p].peer] = 0
        BY <1>k, <2>2 DEF HasKeys
      <3> QED
        BY <1>i, <2>1, <3>1, <3>2
    <2>3. HasKeys' /\ StoredInv' /\ SavedInv'
      BY <1>k, <2>1, <2>2 DEF HasKeys, StoredInv, SavedInv, Open
    <2>4. Same(conns', conns)
      BY <2>1, HungUpOnSame
    <2>5. ConnsInv' /\ FlagInv'
      BY <1>k, <2>1, <2>4 DEF ConnsInv, FlagInv, Same
    <2>6. AirInv' /\ IdInv'
      BY <1>a, <2>1 DEF AirInv, IdInv
    <2> QED
      BY <2>3, <2>5, <2>6 DEF KeptInv
  <1> QED
    BY <1>1, <1>2, <1>3, <1>4, <1>5 DEF BleStack

LEMMA KeptStart == BleInit => KeptInv
  <1> SUFFICES ASSUME BleInit PROVE KeptInv
    OBVIOUS
  <1>1. BleTypes
    BY BleStarts
  <1>2. StoredInv /\ SavedInv /\ ConnsInv /\ AirInv /\ FlagInv
    <2>1. StoredInv /\ SavedInv
      BY DEF BleInit, StoredInv, SavedInv, Open, Identities
    <2> QED
      BY <2>1 DEF BleInit, ConnsInv, AirInv, FlagInv
  <1>3. IdInv
    BY DEF BleInit, IdInv, Calls, Idle
  <1>4. HasKeys
    <2>1. ASSUME NEW p \in Index, profiles[p].peer # AnyAddr
          PROVE  bonds[profiles[p].peer] = Base(p)
      <3> DEFINE h == profiles[p].peer
                 q == CHOOSE r \in Index : profiles[r].peer = h
      <3>1. h \in Hosts
        BY <1>1, <2>1 DEF BleTypes, Profile
      <3>2. q \in Index /\ profiles[q].peer = h
        <4>1. \E r \in Index : profiles[r].peer = h
          OBVIOUS
        <4> QED
          BY <4>1
      <3>3. bonds[h] = Base(q)
        BY <3>1 DEF BleInit
      <3> HIDE DEF h, q
      <3>4. ASSUME NEW r \in Index, profiles[r].peer = h
            PROVE  r + 1 \in DOMAIN Known /\ Known[r + 1] = h
        <4>1. r < Len(Known) /\ Known[r + 1] = h
          BY <2>1, <3>4 DEF BleInit, h
        <4>2. r \in Nat /\ Len(Known) \in Nat /\ DOMAIN Known = 1 .. Len(Known)
          BY Indices, BleAssumption
        <4> QED
          BY <4>1, <4>2
      <3>5. p + 1 = q + 1
        BY <3>2, <3>4, BleAssumption DEF h
      <3>6. p = q
        BY <3>2, <3>5, Indices
      <3> QED
        BY <3>3, <3>6 DEF h
    <2> QED
      BY <2>1 DEF HasKeys, Open, Identities
  <1> QED
    BY <1>2, <1>3, <1>4 DEF KeptInv

LEMMA KeptStep ==
  ASSUME Calm, BleTypes, KeptInv, BleNext \/ UNCHANGED bleVars
  PROVE  KeptInv'
  <1>1. CASE UNCHANGED bleVars
    BY <1>1 DEF bleVars, KeptInv, HasKeys, StoredInv, SavedInv, ConnsInv, AirInv, IdInv, FlagInv, Open, Calls, Idle
  <1> QED
    BY <1>1, ThreadKeeps, CalledKeeps, StackKeeps DEF BleNext

LEMMA KeptIsKept == BleTypes /\ KeptInv => PeerKept /\ NotDeaf
  <1> SUFFICES ASSUME BleTypes, KeptInv PROVE PeerKept /\ NotDeaf
    OBVIOUS
  <1>1. PeerKept
    BY DEF KeptInv, HasKeys, PeerKept, Bonded, Open
  <1>2. NotDeaf
    BY DEF KeptInv, FlagInv, NotDeaf, BleTypes
  <1> QED
    BY <1>1, <1>2

LEMMA KeptAlways ==
  ASSUME Calm
  PROVE  Spec => [](BleTypes /\ KeptInv)
  <1>1. Init => LinksInv /\ KeptInv
    BY LinksStart, KeptStart DEF Init
  <1>2. LinksInv /\ KeptInv /\ [Next]_vars => KeptInv'
    <2>1. ASSUME [Next]_vars PROVE BleNext \/ UNCHANGED bleVars
      BY <2>1 DEF Next, OnPpt, OnBle, vars
    <2> QED
      BY <2>1, KeptStep DEF LinksInv
  <1>3. LinksInv /\ KeptInv => BleTypes /\ KeptInv
    BY DEF LinksInv
  <1> QED
    BY <1>1, <1>2, <1>3, LinksStep, PTL DEF Spec

(***************************************************************************)
(* A profile that has a host keeps keys for it on one of its own two       *)
(* identities, however hosts join, pair and leave and the user selects,    *)
(* pairs and clears, and across a reset: unless it failed to secure the    *)
(* link and its keys were forgotten for that. For any number of profiles,  *)
(* hosts and connections, while the stack's callbacks do not run inside    *)
(* bt_le_adv_stop.                                                         *)
(***************************************************************************)
THEOREM PeersAreKept ==
  ASSUME Calm
  PROVE  Spec => []PeerKept
  BY KeptAlways, KeptIsKept, PTL

-----------------------------------------------------------------------------
(***************************************************************************)
(* A keyboard without a host. Whatever ends the advertising leaves a call, *)
(* a work item or a timer that starts it again or gives up, and a transfer *)
(* that waits for a host to leave is sure of the event that it waits for.  *)
(***************************************************************************)

\* A call the thread has still to make, a work item that waits for it.
Due(x) == In(<<x>>, todo)
Queued(x) == x \in Range(works)

\* A transfer is waiting, or is about to.
Transfers == transfer.type # "none" \/ Calls("transfer")

\* Of some calls only the one to be made next is one.
AtOnce == {"transfer", "stop"}
AtOnceInv == \A j \in 2 .. Len(todo) : todo[j][1] \notin AtOnce

\* The event that lets a transfer be made is on its way, or will be: raised
\* when the host of the active profile leaves.
Announced == Queued("raise") \/ Due("raise") \/ Due("check")
TransferInv ==
  Transfers => Announced \/ \E c \in conns : c.host = profiles[active].peer

\* Pairing keeps its timer, until the connection it must wait for has ended.
PairInv ==
  adv.state = "pair" /\ ~adv.timer =>
    \/ asleep \/ Calls("update") \/ Calls("transfer") \/ Due("tired")
    \/ (Calls("reconn") \/ Calls("pair")) /\ ~Linked(active)
    \/ transfer.type # "none" /\ transfer.disc = active

\* What will start the advertising, or the timer, again.
Revives ==
  \/ Due("update") \/ Due("start") \/ Due("tired") \/ Due("wake")
  \/ Calls("reconn") \/ Calls("pair") \/ Queued("update")
AloneInv ==
  conns = {} /\ ~asleep =>
    \/ adv.timer \/ sleepWork \/ forceSleep \/ (air # 0 /\ ~Calls("stop"))
    \/ Revives \/ Transfers

\* A profile that is not active has its host on one of its own identities.
OwnInv ==
  \A p \in Index : p # active /\ ~Open(p) => profiles[p].bt_id \in Identities(p)

ReviveInv == AtOnceInv /\ (~mixed => OwnInv /\ TransferInv /\ PairInv /\ AloneInv)

\* Calls are made before those that are left, which stay.
LEMMA DueThen ==
  ASSUME BleTypes, todo # <<>>, NEW calls \in Seq(Call), Then(calls)
  PROVE  /\ \A x : In(<<x>>, calls) => Due(x)'
         /\ \A x : Due(x) => Calls(x) \/ Due(x)'
         /\ AtOnceInv /\ calls = <<>> => AtOnceInv' /\ \A x \in AtOnce : ~Calls(x)'
         /\ AtOnceInv /\ calls # <<>> /\ (\A j \in 2 .. Len(calls) : calls[j][1] \notin AtOnce) =>
              AtOnceInv' /\ \A x : Calls(x)' <=> calls[1][1] = x
  <1>1. PICK t : t = Tail(todo)
    OBVIOUS
  <1>2. PICK m \in Nat : m = Len(todo)
    BY DEF BleTypes
  <1>3. PICK d \in Nat : d = Len(calls)
    OBVIOUS
  <1>4. /\ t \in Seq(Call) /\ Len(t) = m - 1 /\ m > 0
        /\ \A j \in 1 .. m - 1 : t[j] = todo[j + 1]
        /\ Head(todo) = todo[1]
    BY <1>1, <1>2, EmptySeq, HeadTailProperties DEF BleTypes
  <1>5. todo' = calls \o t
    BY <1>1 DEF Then
  <1>6. /\ calls \o t \in Seq(Call) /\ Len(calls \o t) = d + (m - 1)
        /\ \A j \in 1 .. d + (m - 1) : (calls \o t)[j] = IF j <= d THEN calls[j] ELSE t[j - d]
    <2>1. /\ calls \o t \in Seq(Call) /\ Len(calls \o t) = Len(calls) + Len(t)
          /\ \A j \in 1 .. Len(calls) + Len(t) :
               (calls \o t)[j] = IF j <= Len(calls) THEN calls[j] ELSE t[j - Len(calls)]
      BY ONLY calls \in Seq(Call), <1>4, ConcatProperties
    <2> QED
      BY ONLY <1>3, <1>4, <2>1
  <1>7. /\ todo' \in Seq(Call) /\ Len(todo') = d + (m - 1)
        /\ \A j \in 1 .. d + (m - 1) : todo'[j] = IF j <= d THEN calls[j] ELSE t[j - d]
    BY <1>5, <1>6
  <1>8. ASSUME NEW x, In(<<x>>, calls) PROVE Due(x)'
    <2>1. PICK j \in 1 .. d : calls[j] = <<x>>
      BY <1>3, <1>8 DEF In
    <2>2. j \in 1 .. d + (m - 1) /\ todo'[j] = <<x>>
      BY <1>4, <1>7, <2>1
    <2> QED
      BY <1>7, <2>2 DEF Due, In
  <1>9. ASSUME NEW x, Due(x), ~Calls(x) PROVE Due(x)'
    <2>1. PICK j \in 1 .. m : todo[j] = <<x>>
      BY <1>2, <1>9 DEF Due, In
    <2>2. j # 1
      <3>1. j = 1 => Head(todo) = <<x>> /\ <<x>>[1] = x
        BY <1>4, <2>1
      <3> QED
        BY <1>9, <3>1 DEF Calls, Idle
    <2>3. d + (j - 1) \in 1 .. d + (m - 1) /\ todo'[d + (j - 1)] = <<x>>
      BY <1>4, <1>7, <2>1, <2>2
    <2> QED
      BY <1>7, <2>3 DEF Due, In
  <1>10. ASSUME AtOnceInv, \A j \in 2 .. d : calls[j][1] \notin AtOnce PROVE AtOnceInv'
    <2>1. ASSUME NEW j \in 2 .. d + (m - 1) PROVE todo'[j][1] \notin AtOnce
      <3>1. CASE j <= d
        BY <1>7, <1>10, <2>1, <3>1
      <3>2. CASE j > d
        <4>1. j - d \in 1 .. m - 1 /\ j - d + 1 \in 2 .. m
          BY <1>4, <2>1, <3>2
        <4>2. todo'[j] = todo[j - d + 1]
          BY <1>4, <1>7, <2>1, <3>2, <4>1
        <4> QED
          BY <1>2, <1>10, <4>1, <4>2 DEF AtOnceInv
      <3> QED
        BY <2>1, <3>1, <3>2
    <2> QED
      BY <1>7, <2>1 DEF AtOnceInv
  <1>11. ASSUME AtOnceInv, calls = <<>> PROVE AtOnceInv' /\ \A x \in AtOnce : ~Calls(x)'
    <2>1. d = 0
      BY <1>3, <1>11
    <2>2. AtOnceInv'
      BY <1>10, <1>11, <2>1
    <2>3. ASSUME todo' # <<>> PROVE Head(todo')[1] \notin AtOnce
      <3>1. 1 \in 1 .. m - 1 /\ todo'[1] = todo[2] /\ 2 \in 2 .. m
        BY <1>4, <1>7, <2>1, <2>3
      <3>2. Head(todo') = todo'[1]
        BY <1>7, <2>3
      <3> QED
        BY <1>2, <1>11, <3>1, <3>2 DEF AtOnceInv
    <2> QED
      BY <2>2, <2>3 DEF Calls, Idle
  <1>12. ASSUME AtOnceInv, calls # <<>>, \A j \in 2 .. Len(calls) : calls[j][1] \notin AtOnce
         PROVE  AtOnceInv' /\ \A x : Calls(x)' <=> calls[1][1] = x
    <2>1. AtOnceInv'
      BY <1>3, <1>10, <1>12
    <2>2. todo' # <<>> /\ Head(todo') = calls[1]
      BY <1>12, ThenOK DEF BleTypes
    <2> QED
      BY <2>1, <2>2 DEF Calls, Idle
  <1> QED
    BY <1>8, <1>9, <1>11, <1>12

\* One call, or two.
LEMMA InSingle == \A c : In(c, <<c>>)
  BY DEF In

LEMMA InDouble ==
  ASSUME NEW c \in Call, NEW d \in Call
  PROVE  In(c, <<c, d>>) /\ In(d, <<c, d>>)
  <1> DEFINE s == <<c, d>>
  <1>1. Len(s) = 2
    OBVIOUS
  <1>2. s[1] = c /\ s[2] = d
    OBVIOUS
  <1> HIDE DEF s
  <1>3. In(c, s) /\ In(d, s)
    BY <1>1, <1>2 DEF In
  <1> QED
    BY <1>3 DEF s

SimpleCall == {"update", "stop", "start", "started", "raise", "check", "wake", "tired"}

LEMMA ThenNone ==
  ASSUME BleTypes, todo # <<>>, AtOnceInv, Then(<<>>)
  PROVE  /\ AtOnceInv' /\ ~Calls("transfer")' /\ ~Calls("stop")'
         /\ \A x : Due(x) => Calls(x) \/ Due(x)'
  BY NoCalls, DueThen DEF AtOnce

LEMMA ThenOne ==
  ASSUME BleTypes, todo # <<>>, AtOnceInv, NEW c \in SimpleCall, Then(<<<<c>>>>)
  PROVE  /\ AtOnceInv' /\ (\A x : Calls(x)' <=> x = c) /\ Due(c)'
         /\ \A x : Due(x) => Calls(x) \/ Due(x)'
  <1> DEFINE s == <<<<c>>>>
  <1>1. s \in Seq(Call) /\ s # <<>> /\ s[1] = <<c>> /\ In(<<c>>, s)
    BY Singles, InSingle DEF SimpleCall
  <1>2. \A j \in 2 .. Len(s) : s[j][1] \notin AtOnce
    <2>1. Len(s) = 1
      OBVIOUS
    <2> HIDE DEF s
    <2> QED
      BY <2>1
  <1>3. <<c>>[1] = c
    OBVIOUS
  <1>4. Then(s)
    OBVIOUS
  <1> HIDE DEF s
  <1>5. todo' # <<>> /\ Head(todo') = s[1]
    BY <1>1, <1>4, ThenOK DEF BleTypes
  <1> QED
    BY <1>1, <1>2, <1>3, <1>4, <1>5, DueThen DEF Calls, Idle

LEMMA ThenTwo ==
  ASSUME BleTypes, todo # <<>>, AtOnceInv, NEW c \in SimpleCall, NEW d \in SimpleCall, d \notin AtOnce,
         Then(<<<<c>>, <<d>>>>)
  PROVE  /\ AtOnceInv' /\ (\A x : Calls(x)' <=> x = c) /\ Due(c)' /\ Due(d)'
         /\ \A x : Due(x) => Calls(x) \/ Due(x)'
  <1> DEFINE s == <<<<c>>, <<d>>>>
  <1>0. <<c>> \in Call /\ <<d>> \in Call
    BY Singles DEF SimpleCall
  <1>1. s \in Seq(Call) /\ s # <<>> /\ s[1] = <<c>> /\ In(<<c>>, s) /\ In(<<d>>, s)
    BY <1>0, Doubles, InDouble
  <1>2. \A j \in 2 .. Len(s) : s[j][1] \notin AtOnce
    <2>1. Len(s) = 2 /\ s[2] = <<d>> /\ <<d>>[1] = d
      OBVIOUS
    <2> HIDE DEF s
    <2>2. \A j \in 2 .. Len(s) : j = 2
      BY <2>1
    <2> QED
      BY <2>1, <2>2
  <1>3. <<c>>[1] = c
    OBVIOUS
  <1>4. Then(s)
    OBVIOUS
  <1> HIDE DEF s
  <1>5. todo' # <<>> /\ Head(todo') = s[1]
    BY <1>1, <1>4, ThenOK DEF BleTypes
  <1> QED
    BY <1>1, <1>2, <1>3, <1>4, <1>5, DueThen DEF Calls, Idle

LEMMA ThenKind ==
  ASSUME BleTypes, todo # <<>>, AtOnceInv, NEW k \in Kinds, NEW p \in Index, Then(<<<<k, p>>>>)
  PROVE  /\ AtOnceInv' /\ (\A x : Calls(x)' <=> x = k) /\ Head(todo') = <<k, p>>
         /\ \A x : Due(x) => Calls(x) \/ Due(x)'
  <1> DEFINE s == <<<<k, p>>>>
  <1>1. s \in Seq(Call) /\ s # <<>> /\ s[1] = <<k, p>>
    <2>1. <<k, p>> \in Call
      BY DEF Call
    <2> QED
      BY <2>1
  <1>2. \A j \in 2 .. Len(s) : s[j][1] \notin AtOnce
    <2>1. Len(s) = 1
      OBVIOUS
    <2> HIDE DEF s
    <2> QED
      BY <2>1
  <1>3. <<k, p>>[1] = k
    OBVIOUS
  <1>4. Then(s)
    OBVIOUS
  <1> HIDE DEF s
  <1>5. todo' # <<>> /\ Head(todo') = s[1]
    BY <1>1, <1>4, ThenOK DEF BleTypes
  <1> QED
    BY <1>1, <1>2, <1>3, <1>4, <1>5, DueThen DEF Calls, Idle

\* Connections that are being ended keep their hosts.
Hosted(new, old) ==
  /\ (new = {}) = (old = {})
  /\ \A c \in old : \E d \in new : d.host = c.host

LEMMA HungUpOnHosted ==
  ASSUME BleTypes, NEW h, NEW i
  PROVE  Hosted(HungUpOn(h, i), conns)
  <1> DEFINE Hung(c) == [c EXCEPT !.closing = @ \/ (c.host = h /\ c.id = i)]
  <1>1. ASSUME NEW c \in conns PROVE Hung(c).host = c.host
    BY DEF BleTypes, Conn
  <1>2. HungUpOn(h, i) = {Hung(c) : c \in conns}
    BY DEF HungUpOn
  <1> HIDE DEF Hung
  <1> QED
    BY <1>1, <1>2 DEF Hosted

LEMMA HungUpHosted ==
  ASSUME BleTypes, NEW p
  PROVE  Hosted(HungUp(p), conns)
  BY HungUpOnHosted DEF HungUp

LEMMA ClosedOnHosted ==
  ASSUME BleTypes, NEW i
  PROVE  Hosted(ClosedOn(i, conns), conns)
  <1> DEFINE Hung(c) == [c EXCEPT !.closing = @ \/ (c.id = i /\ i # air /\ Bonded(i, c.host))]
  <1>1. ASSUME NEW c \in conns PROVE Hung(c).host = c.host
    BY DEF BleTypes, Conn
  <1>2. ClosedOn(i, conns) = {Hung(c) : c \in conns}
    BY DEF ClosedOn
  <1> HIDE DEF Hung
  <1> QED
    BY <1>1, <1>2 DEF Hosted

\* Work items that wait go on waiting.
LEMMA RangeGrows ==
  ASSUME NEW x \in {"update", "raise"}, NEW w \in Seq({"update", "raise"})
  PROVE  x \in Range(Append(w, x)) /\ \A y : y \in Range(w) => y \in Range(Append(w, x))
  <1>1. /\ Len(Append(w, x)) = Len(w) + 1 /\ DOMAIN Append(w, x) = 1 .. Len(w) + 1
        /\ \A j \in 1 .. Len(w) : Append(w, x)[j] = w[j]
        /\ Append(w, x)[Len(w) + 1] = x
    OBVIOUS
  <1>2. Len(w) \in Nat /\ DOMAIN w = 1 .. Len(w)
    OBVIOUS
  <1> QED
    BY <1>1, <1>2 DEF Range

LEMMA QueuedStays ==
  ASSUME WorksOK(works), NEW x \in {"update", "raise"}
  PROVE  /\ x \in Range(Submitted(x))
         /\ \A y : Queued(y) => y \in Range(Submitted(x))
         /\ works # <<>> => \A y : Queued(y) => y = Head(works) \/ y \in Range(Tail(works))
  <1>0. works \in Seq({"update", "raise"})
    BY DEF WorksOK
  <1>2. ASSUME works # <<>>, NEW y, Queued(y) PROVE y = Head(works) \/ y \in Range(Tail(works))
    <2>1. PICK j \in 1 .. Len(works) : works[j] = y
      BY <1>0, <1>2 DEF Queued, Range
    <2>2. /\ Head(works) = works[1] /\ Len(Tail(works)) = Len(works) - 1 /\ Len(works) \in Nat
          /\ DOMAIN Tail(works) = 1 .. Len(works) - 1
          /\ \A k \in 1 .. Len(works) - 1 : Tail(works)[k] = works[k + 1]
      BY <1>0, <1>2
    <2>3. CASE j # 1
      <3>1. j - 1 \in 1 .. Len(works) - 1 /\ Tail(works)[j - 1] = y
        BY <2>1, <2>2, <2>3
      <3> QED
        BY <2>2, <3>1 DEF Range
    <2> QED
      BY <2>1, <2>2, <2>3
  <1> QED
    BY <1>0, <1>2, RangeGrows DEF Submitted, Queued

LEMMA ThenTransfer ==
  ASSUME BleTypes, todo # <<>>, AtOnceInv, NEW k \in Kinds, NEW p \in Index,
         Then(<<<<"transfer", k, p>>>>)
  PROVE  /\ AtOnceInv' /\ Calls("transfer")'
         /\ \A x : Due(x) => Calls(x) \/ Due(x)'
  <1> DEFINE s == <<<<"transfer", k, p>>>>
  <1>1. s \in Seq(Call) /\ s # <<>> /\ s[1] = <<"transfer", k, p>>
    <2>1. <<"transfer", k, p>> \in Call
      BY DEF Call
    <2> QED
      BY <2>1
  <1>2. \A j \in 2 .. Len(s) : s[j][1] \notin AtOnce
    <2>1. Len(s) = 1
      OBVIOUS
    <2> HIDE DEF s
    <2> QED
      BY <2>1
  <1>3. <<"transfer", k, p>>[1] = "transfer"
    OBVIOUS
  <1>4. Then(s)
    OBVIOUS
  <1> HIDE DEF s
  <1> QED
    BY <1>1, <1>2, <1>3, <1>4, DueThen

\* What the calls of an update will do about the advertising.
LEMMA UpdateDue ==
  ASSUME BleTypes, AtOnceInv, Update
  PROVE  /\ AtOnceInv' /\ ~Calls("transfer")'
         /\ \A x : Due(x) => Calls(x) \/ Due(x)'
         /\ conns = {} => Due("start")'
  <1>1. todo # <<>>
    BY DEF Update, Calls, Idle
  <1>2. PICK linked \in BOOLEAN :
          /\ conns = {} => ~linked
          /\ Then((IF adv.status THEN <<<<"stop">>>> ELSE <<>>)
                  \o (IF linked THEN <<>> ELSE <<<<"start">>>>))
    <2> DEFINE gone == adv.state = "reconn" /\ ReconnId = 0
               id == CASE adv.state = "pair" -> PairId
                       [] gone -> Base(active)
                       [] adv.state = "reconn" /\ ~gone -> ReconnId
                       [] OTHER -> profiles[active].bt_id
               next == [profiles EXCEPT ![active].bt_id = id,
                                        ![active].peer = IF gone THEN AnyAddr ELSE @]
               linked == \E c \in conns : c.host = next[active].peer /\ c.id = id /\ ~c.closing
    <2>1. Then((IF adv.status THEN <<<<"stop">>>> ELSE <<>>)
               \o (IF linked THEN <<>> ELSE <<<<"start">>>>))
      BY DEF Update
    <2>2. conns = {} => ~linked
      OBVIOUS
    <2> HIDE DEF linked
    <2> QED
      BY <2>1, <2>2
  <1> DEFINE u == IF adv.status THEN <<<<"stop">>>> ELSE <<>>
             v == IF linked THEN <<>> ELSE <<<<"start">>>>
             w == u \o v
  <1>3. u \in Seq(Call) /\ v \in Seq(Call)
    BY Singles, NoCalls
  <1>4. /\ \A k \in 1 .. Len(u) : u[k] = <<"stop">>
        /\ \A k \in 1 .. Len(v) : v[k] = <<"start">>
        /\ ~linked => Len(v) = 1
        /\ Len(u) \in Nat /\ Len(u) <= 1
    OBVIOUS
  <1>5. Then(w)
    BY <1>2
  <1> HIDE DEF u, v
  <1>6. /\ w \in Seq(Call)
        /\ \A k \in 1 .. Len(v) :
             Len(u) + k \in 1 .. Len(w) /\ w[Len(u) + k] = v[k]
        /\ \A k \in 1 .. Len(w) : \/ k \in 1 .. Len(u) /\ w[k] = u[k]
                                  \/ k - Len(u) \in 1 .. Len(v) /\ w[k] = v[k - Len(u)]
    BY <1>3, Joined
  <1> HIDE DEF w
  <1>7. <<"stop">>[1] = "stop" /\ <<"start">>[1] = "start"
    OBVIOUS
  <1>8. \A k \in 2 .. Len(w) : w[k][1] = "start"
    <2>1. ASSUME NEW k \in 2 .. Len(w) PROVE k \notin 1 .. Len(u)
      BY <1>4, <2>1
    <2> QED
      BY <1>4, <1>6, <1>7, <2>1
  <1>9. ~linked => In(<<"start">>, w)
    <2>1. SUFFICES ASSUME ~linked PROVE \E k \in 1 .. Len(w) : w[k] = <<"start">>
      BY DEF In
    <2>2. 1 \in 1 .. Len(v)
      BY <1>4, <2>1
    <2> QED
      BY <1>4, <1>6, <2>2
  <1>10. w # <<>> => 1 \in 1 .. Len(w)
    BY <1>6
  <1>11. w # <<>> => w[1][1] \in {"stop", "start"}
    BY <1>4, <1>6, <1>7, <1>10
  <1> QED
    BY <1>1, <1>2, <1>5, <1>6, <1>8, <1>9, <1>11, DueThen DEF AtOnce

LEMMA ThreadRevives ==
  ASSUME BleTypes, KeptInv, ReviveInv, Thread
  PROVE  ReviveInv'
  <1>0. todo \in Seq(Call) /\ todo # <<>> /\ AtOnceInv
    BY DEF BleTypes, Thread, Switch, Transfer, Update, Stop, Start, Started, Raise, Check, Wake,
           Tired, Calls, Idle, ReviveInv
  <1>1. CASE Switch
    <2> DEFINE kind == Head(todo)[1]
               p == Head(todo)[2]
    <2>1. kind \in Kinds /\ p \in Index /\ Calls(kind)
      BY <1>1, SwitchCalls DEF Switch, Calls
    <2>2. \A x : Calls(x) => x = kind
      BY DEF Calls
    <2> HIDE DEF kind, p
    <2>3. UNCHANGED <<profiles, transfer, works, sleepWork, forceSleep, asleep, air>>
      BY <1>1 DEF Switch, power
    <2>4. CASE Linked(active) /\ kind = "reconn" /\ p = active
      <3>1. Then(<<>>) /\ UNCHANGED <<conns, active, mixed>>
        BY <1>1, <2>4 DEF Switch, kind, p
      <3>2. adv'.state = adv.state /\ adv'.timer = adv.timer
        BY <1>1, <2>4 DEF Switch, kind, BleTypes, Adv
      <3>3. AtOnceInv' /\ ~Calls("transfer")' /\ \A x : Due(x) => Calls(x) \/ Due(x)'
        BY <1>0, <3>1, ThenNone
      <3>4. conns # {} /\ Linked(active)
        BY <2>4 DEF Linked
      <3>5. Due("raise") \/ Due("check") => Due("raise")' \/ Due("check")'
        BY <2>1, <2>2, <3>3 DEF Kinds
      <3>6. Due("tired") => Due("tired")'
        BY <2>1, <2>2, <3>3 DEF Kinds
      <3>7. ~Calls("update") /\ ~Calls("transfer")
        BY <2>1, <2>2 DEF Kinds
      <3>8. TransferInv => TransferInv'
        BY <2>3, <3>1, <3>3, <3>5 DEF TransferInv, Transfers, Announced, Queued
      <3>9. PairInv => PairInv'
        BY <2>3, <3>1, <3>2, <3>4, <3>6, <3>7 DEF PairInv
      <3> QED
        BY <2>3, <3>1, <3>3, <3>4, <3>8, <3>9 DEF ReviveInv, AloneInv, OwnInv, Open
    <2>5. CASE Linked(active) /\ ~(kind = "reconn" /\ p = active)
      <3>1. conns' = HungUp(active) /\ Then(<<<<"transfer", kind, p>>>>) /\ UNCHANGED <<active, mixed>>
        BY <1>1, <2>5 DEF Switch, kind, p
      <3>2. AtOnceInv' /\ Calls("transfer")'
        BY <1>0, <2>1, <3>1, ThenTransfer
      <3>3. PICK c \in conns : c.host = profiles[active].peer
        BY <2>5 DEF Linked
      <3>4. \E d \in conns' : d.host = profiles'[active'].peer
        BY <2>3, <3>1, <3>3, HungUpHosted DEF Hosted
      <3> QED
        BY <2>3, <3>1, <3>2, <3>4 DEF ReviveInv, OwnInv, Open, TransferInv, PairInv, AloneInv, Transfers
    <2>6. CASE ~Linked(active)
      <3>1. Then(<<<<"update">>, <<"raise">>>>)
        BY <1>1, <2>6 DEF Switch
      <3>2. AtOnceInv' /\ Calls("update")' /\ Due("update")' /\ Due("raise")'
        BY <1>0, <3>1, ThenTwo DEF SimpleCall, AtOnce
      <3>3. ~mixed' => ~mixed /\ profiles[active].bt_id \in Identities(active)
        BY <1>1, <2>1, <2>2, <2>6 DEF Switch, KeptInv, IdInv, Kinds
      <3>4. ~mixed' /\ OwnInv => OwnInv'
        BY <2>3, <3>3 DEF OwnInv, Open
      <3> QED
        BY <3>2, <3>3, <3>4 DEF ReviveInv, TransferInv, Announced, PairInv, AloneInv, Revives
    <2> QED
      BY <2>4, <2>5, <2>6
  <1>2. CASE Transfer
    <2> DEFINE k == Head(todo)[2]
               p == Head(todo)[3]
    <2>1. k \in Kinds /\ p \in Index
      BY <1>0, <1>2, CallTypes DEF Transfer
    <2>2. transfer' = [type |-> k, profile |-> p, disc |-> active]
      BY <1>2 DEF Transfer
    <2> HIDE DEF k, p
    <2>3. transfer'.type # "none" /\ transfer'.disc = active
      BY <2>1, <2>2 DEF Kinds
    <2>4. Calls("transfer") /\ Then(<<>>)
      BY <1>2 DEF Transfer
    <2>5. UNCHANGED <<profiles, active, works, conns, adv, mixed, asleep>>
      BY <1>2 DEF Transfer, stack, ghosts, power
    <2>6. AtOnceInv' /\ \A x : Due(x) => Calls(x) \/ Due(x)'
      BY <1>0, <2>4, ThenNone
    <2>7. Due("raise") \/ Due("check") => Due("raise")' \/ Due("check")'
      BY <2>4, <2>6 DEF Calls
    <2>8. TransferInv => TransferInv'
      BY <2>4, <2>5, <2>7 DEF TransferInv, Transfers, Announced, Queued
    <2> QED
      BY <2>3, <2>5, <2>6, <2>8 DEF ReviveInv, OwnInv, Open, PairInv, AloneInv, Transfers
  <1>3. CASE Update
    <2>1. /\ AtOnceInv' /\ ~Calls("transfer")'
          /\ \A x : Due(x) => Calls(x) \/ Due(x)'
          /\ conns = {} => Due("start")'
      BY <1>0, <1>3, UpdateDue
    <2>2. Calls("update") /\ UNCHANGED <<active, transfer, mixed>>
      BY <1>3 DEF Update, ghosts
    <2>3. PICK gone \in BOOLEAN, id \in Nat :
            /\ profiles' = [profiles EXCEPT ![active].bt_id = id,
                                            ![active].peer = IF gone THEN AnyAddr ELSE @]
            /\ LET resets == gone \/ (adv.state = "pair" /\ ~Open(active))
               IN  conns' = IF resets THEN ClosedOn(id, conns) ELSE conns
            /\ works' = IF gone THEN Submitted("raise") ELSE works
      BY <1>3, UpdateParts
    <2>4. Hosted(conns', conns)
      <3>1. Hosted(conns, conns)
        BY DEF Hosted
      <3> QED
        BY <2>3, <3>1, ClosedOnHosted
    <2>5. Queued("raise")' \/ (profiles'[active].peer = profiles[active].peer /\ works' = works)
      <3>1. CASE gone
        BY <2>3, <3>1, QueuedStays DEF Queued, BleTypes
      <3>2. CASE ~gone
        <4>1. profiles \in [Index -> Profile] /\ active \in Index
          BY DEF BleTypes
        <4> QED
          BY <2>3, <3>2, <4>1 DEF Profile
      <3> QED
        BY <3>1, <3>2
    <2>6. adv'.state = adv.state /\ (adv.state # "none" => adv'.timer)
      BY <1>3 DEF Update, BleTypes, Adv
    <2>7. Due("raise") \/ Due("check") => Due("raise")' \/ Due("check")'
      BY <2>1, <2>2 DEF Calls
    <2>8. TransferInv => TransferInv'
      BY <2>1, <2>2, <2>4, <2>5, <2>7 DEF TransferInv, Transfers, Announced, Queued, Hosted
    <2>9. PairInv' /\ AloneInv'
      BY <2>1, <2>4, <2>6 DEF PairInv, AloneInv, Revives, Hosted
    <2>10. OwnInv => OwnInv'
      BY <2>2, <2>3 DEF OwnInv, Open, BleTypes
    <2> QED
      BY <2>1, <2>2, <2>8, <2>9, <2>10 DEF ReviveInv
  <1>4. CASE Stop
    <2>1. Calls("stop") /\ Then(<<>>) /\ adv'.state = adv.state /\ adv'.timer = adv.timer
      BY <1>4 DEF Stop, BleTypes, Adv
    <2>2. UNCHANGED <<profiles, active, conns, transfer, works, mixed, sleepWork, forceSleep, asleep>>
      BY <1>4 DEF Stop, ghosts, power
    <2>3. /\ AtOnceInv' /\ ~Calls("transfer")'
          /\ \A x : Due(x) => Calls(x) \/ Due(x)'
      BY <1>0, <2>1, ThenNone
    <2>4. \A x : Calls(x) => x = "stop"
      BY <2>1 DEF Calls
    <2>5. \A x : x # "stop" /\ Due(x) => Due(x)'
      BY <2>3, <2>4
    <2>6. OwnInv => OwnInv'
      BY <2>2 DEF OwnInv, Open
    <2>7. TransferInv => TransferInv'
      BY <2>2, <2>3, <2>5 DEF TransferInv, Transfers, Announced, Queued
    <2>8. PairInv => PairInv'
      BY <2>1, <2>2, <2>4, <2>5 DEF PairInv
    <2>9. AloneInv => AloneInv'
      BY <2>1, <2>2, <2>4, <2>5 DEF AloneInv, Revives, Queued, Transfers
    <2> QED
      BY <2>2, <2>3, <2>6, <2>7, <2>8, <2>9 DEF ReviveInv
  <1>5. CASE Start \/ Started
    <2>1. Calls("start") \/ Calls("started")
      BY <1>5 DEF Start, Started
    <2>2. UNCHANGED <<profiles, active, conns, transfer, works, mixed, sleepWork, forceSleep, asleep>>
      BY <1>5 DEF Start, Started, stack, ghosts, power
    <2>3. adv'.state = adv.state /\ adv'.timer = adv.timer
      BY <1>5 DEF Start, Started, BleTypes, Adv
    <2>4. /\ AtOnceInv' /\ ~Calls("transfer")' /\ ~Calls("stop")'
          /\ \A x : Due(x) => Calls(x) \/ Due(x)'
      BY <1>0, <1>5, ThenNone, ThenOne DEF Start, Started, SimpleCall
    <2>5. \A x : Calls(x) => x = "start" \/ x = "started"
      BY <2>1 DEF Calls
    <2>6. \A x : x # "start" /\ x # "started" /\ Due(x) => Due(x)'
      BY <2>4, <2>5
    <2>7. OwnInv => OwnInv'
      BY <2>2 DEF OwnInv, Open
    <2>8. TransferInv => TransferInv'
      BY <2>2, <2>4, <2>6 DEF TransferInv, Transfers, Announced, Queued
    <2>9. PairInv => PairInv'
      BY <2>2, <2>3, <2>5, <2>6 DEF PairInv
    <2>10. CASE Start
      <3>1. MaxConns \in Nat \ {0} /\ Base(active) \in Nat \ {0} /\ Base(active) + 1 \in Nat \ {0}
        BY Indices DEF BleTypes
      <3>2. conns = {} => Cardinality(conns) < MaxConns
        BY <3>1, FS_EmptySet
      <3>3. ~mixed => profiles[active].bt_id # 0
        BY <2>1, <2>5, <3>1 DEF KeptInv, IdInv, Identities
      <3>4. ~mixed /\ conns = {} => air' # 0
        BY <2>10, <3>2, <3>3 DEF Start
      <3> QED
        BY <2>2, <2>4, <2>7, <2>8, <2>9, <3>4 DEF ReviveInv, AloneInv
    <2>11. CASE Started
      <3>1. Calls("started") /\ air' = air
        BY <2>11 DEF Started, stack
      <3>2. \A x : x # "started" /\ Due(x) => Due(x)'
        BY <2>4, <3>1 DEF Calls
      <3>3. AloneInv => AloneInv'
        BY <2>2, <2>3, <2>4, <2>5, <3>1, <3>2 DEF AloneInv, Revives, Queued, Transfers
      <3> QED
        BY <2>2, <2>4, <2>7, <2>8, <2>9, <3>3 DEF ReviveInv
    <2> QED
      BY <1>5, <2>10, <2>11
  <1>6. CASE Raise
    <2>1. Calls("raise") /\ \A x : Calls(x) => x = "raise"
      BY <1>6 DEF Raise, Calls
    <2>2. UNCHANGED <<profiles, active, air, adv, transfer, works, mixed, sleepWork, forceSleep, asleep>>
      BY <1>6 DEF Raise, ghosts, power
    <2>3. Hosted(conns', conns)
      <3>1. Hosted(conns, conns)
        BY DEF Hosted
      <3> QED
        BY <1>6, <3>1, HungUpHosted DEF Raise
    <2>4. Then(<<<<"check">>>>) \/ Then(<<<<"wake">>, <<"check">>>>)
      BY <1>6 DEF Raise
    <2>5. /\ AtOnceInv' /\ ~Calls("transfer")' /\ ~Calls("stop")' /\ Due("check")'
          /\ \A x : Due(x) => Calls(x) \/ Due(x)'
      <3>1. CASE Then(<<<<"check">>>>)
        BY <1>0, <3>1, ThenOne DEF SimpleCall
      <3>2. CASE Then(<<<<"wake">>, <<"check">>>>)
        BY <1>0, <3>2, ThenTwo DEF SimpleCall, AtOnce
      <3> QED
        BY <2>4, <3>1, <3>2
    <2>6. \A x : x # "raise" /\ Due(x) => Due(x)'
      BY <2>1, <2>5
    <2>7. OwnInv => OwnInv'
      BY <2>2 DEF OwnInv, Open
    <2>8. PairInv => PairInv'
      BY <2>1, <2>2, <2>6 DEF PairInv
    <2>9. AloneInv => AloneInv'
      BY <2>1, <2>2, <2>3, <2>5, <2>6 DEF AloneInv, Revives, Queued, Transfers, Hosted
    <2> QED
      BY <2>2, <2>5, <2>7, <2>8, <2>9 DEF ReviveInv, TransferInv, Announced
  <1>7. CASE Check
    <2>1. Calls("check") /\ \A x : Calls(x) => x = "check"
      BY <1>7 DEF Check, Calls
    <2>2. UNCHANGED <<profiles, active, air, adv, conns, works, mixed, sleepWork, forceSleep, asleep>>
      BY <1>7 DEF Check, stack, ghosts, power
    <2>3. OwnInv => OwnInv'
      BY <2>2 DEF OwnInv, Open
    <2>4. CASE transfer.type # "none" /\ ~Linked(transfer.disc)
      <3>1. transfer.type \in Kinds /\ transfer.profile \in Index
        BY <2>4 DEF BleTypes
      <3>2. Then(<<<<transfer.type, transfer.profile>>>>) /\ transfer' = NoTransfer
        BY <1>7, <2>4 DEF Check
      <3>3. /\ AtOnceInv' /\ (\A x : Calls(x)' <=> x = transfer.type)
            /\ \A x : Due(x) => Calls(x) \/ Due(x)'
        BY <1>0, <3>1, <3>2, ThenKind
      <3>4. ~Calls("transfer")' /\ (Calls("reconn")' \/ Calls("pair")') /\ transfer'.type = "none"
        BY <3>1, <3>2, <3>3 DEF Kinds, NoTransfer
      <3>5. Linked(active)' <=> Linked(active)
        BY <2>2 DEF Linked
      <3>6. \A x : x # "check" /\ Due(x) => Due(x)'
        BY <2>1, <3>3
      <3>7. PairInv => PairInv'
        BY <2>1, <2>2, <2>4, <3>4, <3>5, <3>6 DEF PairInv
      <3> QED
        BY <2>2, <2>3, <3>3, <3>4, <3>7 DEF ReviveInv, TransferInv, Transfers, AloneInv, Revives
    <2>5. CASE ~(transfer.type # "none" /\ ~Linked(transfer.disc))
      <3>1. Then(<<>>) /\ UNCHANGED transfer
        BY <1>7, <2>5 DEF Check
      <3>2. /\ AtOnceInv' /\ ~Calls("transfer")' /\ ~Calls("stop")'
            /\ \A x : Due(x) => Calls(x) \/ Due(x)'
        BY <1>0, <3>1, ThenNone
      <3>3. \A x : x # "check" /\ Due(x) => Due(x)'
        BY <2>1, <3>2
      \* The host that a transfer waits for is that of the active profile.
      <3>4. ASSUME ~mixed, OwnInv, transfer.type # "none"
            PROVE  \E c \in conns : c.host = profiles[active].peer
        <4>1. PICK c \in conns : /\ c.host = profiles[transfer.disc].peer
                                 /\ c.id = profiles[transfer.disc].bt_id
          BY <2>5, <3>4 DEF Linked
        <4>2. c.host # AnyAddr /\ c.id \in Identities(active)
          BY <3>4, BleAssumption DEF BleTypes, Conn, KeptInv, ConnsInv
        <4>3. transfer.disc \in Index /\ active \in Index
          BY DEF BleTypes
        <4>4. CASE transfer.disc # active
          <5>1. c.id \in Identities(transfer.disc)
            BY <3>4, <4>1, <4>2, <4>3, <4>4 DEF OwnInv, Open
          <5> QED
            BY <4>2, <4>3, <4>4, <5>1, Indices
        <4> QED
          BY <4>1, <4>4
      <3>5. ~mixed /\ OwnInv => TransferInv'
        BY <2>2, <3>1, <3>2, <3>4 DEF TransferInv, Transfers
      <3>6. PairInv => PairInv'
        BY <2>1, <2>2, <3>1, <3>3 DEF PairInv
      <3>7. AloneInv => AloneInv'
        BY <2>1, <2>2, <3>1, <3>2, <3>3 DEF AloneInv, Revives, Queued, Transfers
      <3> QED
        BY <2>2, <2>3, <3>2, <3>5, <3>6, <3>7 DEF ReviveInv
    <2> QED
      BY <2>4, <2>5
  <1>8. CASE Wake
    <2>1. Calls("wake") /\ \A x : Calls(x) => x = "wake"
      BY <1>8 DEF Wake, Calls
    <2>2. UNCHANGED <<profiles, active, air, conns, transfer, works, mixed, sleepWork, forceSleep, asleep>>
      BY <1>8 DEF Wake, stack, ghosts, power
    <2>3. adv'.state = adv.state /\ (adv'.timer <=> adv.timer \/ adv.state = "reconn")
      BY <1>8 DEF Wake, BleTypes, Adv
    <2>4. OwnInv => OwnInv'
      BY <2>2 DEF OwnInv, Open
    <2>5. CASE adv.state = "none" /\ ~profiles[active].connected
      <3>1. Then(<<<<"reconn", active>>>>) /\ active \in Index /\ "reconn" \in Kinds
        BY <1>8, <2>5 DEF Wake, BleTypes, Kinds
      <3>2. /\ AtOnceInv' /\ (\A x : Calls(x)' <=> x = "reconn")
            /\ \A x : Due(x) => Calls(x) \/ Due(x)'
        BY <1>0, <3>1, ThenKind
      <3>3. Calls("reconn")' /\ ~Calls("transfer")'
        BY <3>2
      <3>4. Due("raise") \/ Due("check") => Due("raise")' \/ Due("check")'
        BY <2>1, <3>2
      <3>5. TransferInv => TransferInv'
        BY <2>2, <3>3, <3>4 DEF TransferInv, Transfers, Announced, Queued
      <3> QED
        BY <2>2, <2>3, <2>4, <2>5, <3>2, <3>3, <3>5 DEF ReviveInv, PairInv, AloneInv, Revives
    <2>6. CASE ~(adv.state = "none" /\ ~profiles[active].connected)
      <3>1. Then(<<>>)
        BY <1>8, <2>6 DEF Wake
      <3>2. /\ AtOnceInv' /\ ~Calls("transfer")' /\ ~Calls("stop")'
            /\ \A x : Due(x) => Calls(x) \/ Due(x)'
        BY <1>0, <3>1, ThenNone
      <3>3. \A x : x # "wake" /\ Due(x) => Due(x)'
        BY <2>1, <3>2
      <3>4. TransferInv => TransferInv'
        BY <2>2, <3>2, <3>3 DEF TransferInv, Transfers, Announced, Queued
      <3>5. PairInv => PairInv'
        BY <2>1, <2>2, <2>3, <3>3 DEF PairInv
      <3>6. ~mixed /\ PairInv => AloneInv'
        <4>1. SUFFICES ASSUME ~mixed, PairInv, conns = {}, ~asleep
              PROVE  adv'.timer \/ Due("tired")' \/ transfer'.type # "none"
          BY <2>2 DEF AloneInv, Revives, Transfers
        <4>2. adv.state # "none"
          BY <2>6, <4>1 DEF KeptInv, FlagInv, BleTypes
        <4>3. adv.state = "pair" \/ adv.state = "reconn"
          BY <4>2 DEF BleTypes, Adv
        <4> QED
          BY <2>1, <2>2, <2>3, <3>3, <4>1, <4>3 DEF PairInv
      <3> QED
        BY <2>2, <2>4, <3>2, <3>4, <3>5, <3>6 DEF ReviveInv
    <2> QED
      BY <2>5, <2>6
  <1>9. CASE Tired
    <2>1. Calls("tired") /\ Then(<<>>) /\ sleepWork' /\ adv'.state = "none"
      BY <1>9 DEF Tired, BleTypes, Adv
    <2>2. UNCHANGED <<profiles, active, conns, transfer, works, mixed>>
      BY <1>9 DEF Tired, stack, ghosts
    <2>3. /\ AtOnceInv' /\ ~Calls("transfer")'
          /\ \A x : Due(x) => Calls(x) \/ Due(x)'
      BY <1>0, <2>1, ThenNone
    <2>4. Due("raise") \/ Due("check") => Due("raise")' \/ Due("check")'
      BY <2>1, <2>3 DEF Calls
    <2>5. OwnInv => OwnInv'
      BY <2>2 DEF OwnInv, Open
    <2>6. TransferInv => TransferInv'
      BY <2>2, <2>3, <2>4 DEF TransferInv, Transfers, Announced, Queued
    <2> QED
      BY <2>1, <2>2, <2>3, <2>5, <2>6 DEF ReviveInv, PairInv, AloneInv
  <1> QED
    BY <1>1, <1>2, <1>3, <1>4, <1>5, <1>6, <1>7, <1>8, <1>9 DEF Thread

\* The thread is called: nothing was left to be done.
LEMMA CalledOne ==
  ASSUME NEW c \in SimpleCall \cup Kinds, NEW s, s = <<c>> \/ \E p \in Index : s = <<c, p>>, todo' = <<s>>
  PROVE  AtOnceInv' /\ (\A x : Calls(x)' <=> x = c) /\ (c \in SimpleCall /\ s = <<c>> => Due(c)')
  <1>1. s[1] = c
    OBVIOUS
  <1>2. Len(todo') = 1 /\ todo' # <<>> /\ Head(todo') = s /\ todo'[1] = s
    OBVIOUS
  <1>3. AtOnceInv'
    BY <1>2 DEF AtOnceInv
  <1>4. \A x : Calls(x)' <=> x = c
    BY <1>1, <1>2 DEF Calls, Idle
  <1>5. s = <<c>> => Due(c)'
    BY <1>2 DEF Due, In
  <1> QED
    BY <1>3, <1>4, <1>5

LEMMA IdleNothing ==
  ASSUME Idle
  PROVE  \A x : ~Calls(x) /\ ~Due(x)
  BY DEF Idle, Calls, Due, In

LEMMA CalledRevives ==
  ASSUME BleTypes, KeptInv, ReviveInv, BleUser \/ BleTimers
  PROVE  ReviveInv'
  <1>1. CASE BleReset
    <2>1. /\ todo' = <<<<"update">>>> /\ transfer'.type = "none" /\ mixed' = mixed
          /\ profiles' = [p \in Index |-> Loaded(p)] /\ active' = flash.active
      BY <1>1 DEF BleReset, BleBoot, NoTransfer
    <2>2. AtOnceInv' /\ (\A x : Calls(x)' <=> x = "update") /\ Due("update")'
      BY <2>1, CalledOne DEF SimpleCall
    <2>3. ASSUME ~mixed PROVE OwnInv'
      <3>1. SUFFICES ASSUME NEW p \in Index, Loaded(p).peer # AnyAddr
                     PROVE  Loaded(p).bt_id \in Identities(p)
        BY <2>1 DEF OwnInv, Open
      <3> DEFINE h == flash.profiles[p].peer
                 own == {i \in Identities(p) : Bonded(i, h)}
      <3>2. h # AnyAddr /\ h = profiles[p].peer
        BY <2>3, <3>1 DEF Loaded, KeptInv, StoredInv
      <3>3. CASE bonds[h] \in Identities(p)
        <4>1. own = {bonds[h]}
          BY <3>2, <3>3 DEF Bonded
        <4>2. bonds[h] \in Nat
          BY <3>3, Indices DEF Identities
        <4>3. (CHOOSE i \in own : \A j \in own : i <= j) = bonds[h]
          BY <4>1, <4>2
        <4>4. Loaded(p).bt_id = bonds[h]
          BY <4>1, <4>3 DEF Loaded
        <4> QED
          BY <3>3, <4>4
      <3>4. CASE bonds[h] \notin Identities(p)
        <4>1. own = {}
          BY <3>4 DEF Bonded
        <4>2. Loaded(p).bt_id = flash.profiles[p].bt_id
          BY <4>1 DEF Loaded
        <4> QED
          BY <2>3, <3>2, <4>2 DEF KeptInv, SavedInv, Open
      <3> QED
        BY <3>3, <3>4
    <2> QED
      BY <2>1, <2>2, <2>3 DEF ReviveInv, TransferInv, Transfers, PairInv, AloneInv, Revives
  <1>2. CASE ~BleReset
    <2>0. Idle
      BY <1>2 DEF BleUser, BleTimers, BleKeyPress, Clear, Request, WorkRuns, AdvTimeout, Save, BleSleep
    <2>n. \A x : ~Calls(x) /\ ~Due(x)
      BY <2>0, IdleNothing
    <2>1. CASE WorkRuns
      <3>1. /\ works # <<>> /\ todo' = <<<<Head(works)>>>> /\ works' = Tail(works)
            /\ UNCHANGED <<profiles, active, air, conns, adv, transfer, mixed, sleepWork, forceSleep, asleep>>
        BY <2>1 DEF WorkRuns, stack, ghosts, power
      <3>2. Head(works) \in {"update", "raise"} /\ Head(works) \in SimpleCall
        BY <3>1, RestOK DEF BleTypes, SimpleCall
      <3>h. PICK h : h = Head(works)
        OBVIOUS
      <3>a. todo' = <<<<h>>>> /\ h \in SimpleCall /\ h \in {"update", "raise"}
        BY <3>1, <3>2, <3>h
      <3>3. AtOnceInv' /\ (\A x : Calls(x)' <=> x = h) /\ Due(h)'
        <4> DEFINE s == <<h>>
        <4>1. s = <<h>> /\ todo' = <<s>>
          BY <3>a
        <4> HIDE DEF s
        <4>2. h \in SimpleCall \cup Kinds
          BY <3>a
        <4> QED
          BY ONLY <3>a, <4>1, <4>2, CalledOne
      <3>b. "raise" \in {"update", "raise"} /\ WorksOK(works)
        BY DEF BleTypes
      <3>c. \A y : Queued(y) => y = h \/ y \in Range(Tail(works))
        BY <3>1, <3>b, <3>h, QueuedStays
      <3>4. \A y : Queued(y) => Queued(y)' \/ Due(y)'
        <4>1. SUFFICES ASSUME NEW y, Queued(y) PROVE Queued(y)' \/ Due(y)'
          OBVIOUS
        <4>2. CASE y = h
          BY <3>3, <4>2
        <4>3. CASE y \in Range(Tail(works))
          <5>1. Range(works') = Range(Tail(works))
            BY <3>1
          <5> QED
            BY <4>3, <5>1 DEF Queued
        <4> QED
          BY <3>c, <4>1, <4>2, <4>3
      <3>5. ~Calls("transfer")' /\ ~Calls("stop")'
        BY <3>a, <3>3
      <3>6. OwnInv => OwnInv'
        BY <3>1 DEF OwnInv, Open
      <3>7. TransferInv => TransferInv'
        BY <2>n, <3>1, <3>4, <3>5 DEF TransferInv, Transfers, Announced
      <3>8. PairInv => PairInv'
        BY <2>n, <3>1 DEF PairInv
      <3>9. AloneInv => AloneInv'
        BY <2>n, <3>1, <3>4, <3>5 DEF AloneInv, Revives, Transfers
      <3> QED
        BY <3>1, <3>3, <3>6, <3>7, <3>8, <3>9 DEF ReviveInv
    <2>2. CASE AdvTimeout
      <3>1. /\ todo' = <<<<"stop">>, <<"tired">>>> /\ adv'.state = adv.state
            /\ UNCHANGED <<profiles, active, conns, transfer, works, mixed, asleep>>
        BY <2>2 DEF AdvTimeout, stack, ghosts, power, BleTypes, Adv
      <3>2. AtOnceInv' /\ ~Calls("transfer")' /\ Due("tired")'
        <4> DEFINE t == <<<<"stop">>, <<"tired">>>>
        <4>1. Len(t) = 2 /\ t[1] = <<"stop">> /\ t[2] = <<"tired">> /\ t # <<>> /\ Head(t) = <<"stop">>
          OBVIOUS
        <4>2. <<"stop">>[1] = "stop" /\ <<"tired">>[1] = "tired"
          OBVIOUS
        <4>3. todo' = t
          BY <3>1
        <4> HIDE DEF t
        <4>4. AtOnceInv'
          <5>1. \A j \in 2 .. Len(t) : t[j] = <<"tired">>
            BY <4>1
          <5> QED
            BY <4>2, <4>3, <5>1 DEF AtOnceInv, AtOnce
        <4> QED
          BY <4>1, <4>2, <4>3, <4>4 DEF Calls, Idle, Due, In
      <3>3. OwnInv => OwnInv'
        BY <3>1 DEF OwnInv, Open
      <3>4. TransferInv => TransferInv'
        BY <2>n, <3>1, <3>2 DEF TransferInv, Transfers, Announced, Queued
      <3> QED
        BY <3>1, <3>2, <3>3, <3>4 DEF ReviveInv, PairInv, AloneInv, Revives
    <2>3. CASE Save
      <3>1. UNCHANGED <<profiles, active, air, conns, adv, transfer, works, todo, mixed, sleepWork, forceSleep, asleep>>
        BY <2>3 DEF Save, stack, ghosts, power
      <3> QED
        BY <3>1 DEF ReviveInv, AtOnceInv, OwnInv, Open, TransferInv, Transfers, Announced, PairInv, AloneInv, Revives,
                    Queued, Due, In, Calls, Idle, Linked
    <2>4. CASE BleKeyPress
      <3>1. /\ todo' = <<<<"wake">>>>
            /\ UNCHANGED <<profiles, active, conns, adv, transfer, works, mixed, asleep>>
        BY <2>4 DEF BleKeyPress, Active, stack, ghosts
      <3>2. AtOnceInv' /\ (\A x : Calls(x)' <=> x = "wake") /\ Due("wake")'
        BY <3>1, CalledOne DEF SimpleCall
      <3>3. OwnInv => OwnInv'
        BY <3>1 DEF OwnInv, Open
      <3>4. TransferInv => TransferInv'
        BY <2>n, <3>1, <3>2 DEF TransferInv, Transfers, Announced, Queued
      <3>5. PairInv => PairInv'
        BY <2>n, <3>1 DEF PairInv
      <3> QED
        BY <3>1, <3>2, <3>3, <3>4, <3>5 DEF ReviveInv, AloneInv, Revives
    <2>5. ASSUME NEW p \in Index, NEW kind \in {"reconn", "pair"}, Request(kind, p) PROVE ReviveInv'
      <3>1. /\ todo' = <<<<kind, p>>>>
            /\ UNCHANGED <<profiles, active, conns, adv, transfer, works, mixed, asleep>>
        BY <2>5 DEF Request, Requested, stack
      <3>2. AtOnceInv' /\ (\A x : Calls(x)' <=> x = kind)
        BY <3>1, CalledOne DEF Kinds
      <3>3. OwnInv => OwnInv'
        BY <3>1 DEF OwnInv, Open
      <3>4. TransferInv => TransferInv'
        BY <2>n, <3>1, <3>2 DEF TransferInv, Transfers, Announced, Queued
      <3>5. PairInv => PairInv'
        BY <2>n, <3>1 DEF PairInv
      <3> QED
        BY <3>1, <3>2, <3>3, <3>4, <3>5 DEF ReviveInv, AloneInv, Revives
    <2>6. CASE BleSleep
      <3>1. /\ asleep' = TRUE /\ conns' = HungUp(active)
            /\ UNCHANGED <<profiles, active, transfer, works, todo, mixed>>
        BY <2>6 DEF BleSleep, GoesToSleep, ghosts
      <3>2. Hosted(conns', conns)
        BY <3>1, HungUpHosted
      <3>3. AtOnceInv' /\ ~Calls("transfer")' /\ OwnInv' = OwnInv
        BY <2>n, <3>1 DEF ReviveInv, AtOnceInv, OwnInv, Open, Calls, Idle
      <3>4. TransferInv => TransferInv'
        BY <2>n, <3>1, <3>2, <3>3 DEF TransferInv, Transfers, Announced, Queued, Hosted
      <3> QED
        BY <3>1, <3>3, <3>4 DEF ReviveInv, PairInv, AloneInv
    <2>7. CASE Clear
      <3>1. /\ todo' = <<<<"update">>>> /\ profiles' = [profiles EXCEPT ![active].peer = AnyAddr]
            /\ UNCHANGED <<active, conns, transfer, mixed>>
        BY <2>7 DEF Clear, stack
      <3>2. AtOnceInv' /\ (\A x : Calls(x)' <=> x = "update") /\ Due("update")'
        BY <3>1, CalledOne DEF SimpleCall
      <3>3. \A p \in Index : /\ profiles'[p].peer = IF p = active THEN AnyAddr ELSE profiles[p].peer
                             /\ profiles'[p].bt_id = profiles[p].bt_id
        BY <3>1, ProfileChanges
      <3>4. OwnInv => OwnInv'
        BY <3>1, <3>3 DEF OwnInv, Open
      <3>5. Queued("raise")' \/ (profiles'[active].peer = profiles[active].peer /\ works' = works)
        <4>1. CASE Open(active)
          BY <2>7, <3>3, <4>1 DEF Clear, Open, BleTypes
        <4>2. CASE ~Open(active)
          BY <2>7, <4>2, QueuedStays DEF Clear, Queued, BleTypes
        <4> QED
          BY <4>1, <4>2
      <3>6. TransferInv => TransferInv'
        BY <2>n, <3>1, <3>2, <3>5 DEF TransferInv, Transfers, Announced, Queued
      <3> QED
        BY <3>1, <3>2, <3>4, <3>6 DEF ReviveInv, PairInv, AloneInv, Revives
    <2> QED
      BY <1>2, <2>1, <2>2, <2>3, <2>4, <2>5, <2>6, <2>7 DEF BleUser, BleTimers
  <1> QED
    BY <1>1, <1>2

\* The callbacks of the stack, while no call of the thread is under way but
\* those that may wait for it.
LEMMA StackRevives ==
  ASSUME BleTypes, KeptInv, ReviveInv, BleStack
  PROVE  ReviveInv'
  <1> DEFINE Kept == UNCHANGED <<active, transfer, todo>> /\ (~mixed' => ~mixed)
  <1>1. ASSUME Kept
        PROVE  /\ AtOnceInv' /\ \A x : (Calls(x)' <=> Calls(x)) /\ (Due(x)' <=> Due(x))
               /\ Transfers' <=> Transfers
    BY <1>1 DEF ReviveInv, AtOnceInv, Calls, Idle, Due, In, Transfers
  <1>2. ASSUME Reached PROVE ~Calls("reconn") /\ ~Calls("pair")
    BY <1>2, BleAssumption DEF Reached, Calls, BlePoints
  <1>3. ASSUME NEW h \in Hosts, Joins(h) PROVE ReviveInv'
    <2>1. /\ conns' = conns \union {[host |-> h, id |-> air, closing |-> FALSE]}
          /\ profiles' = [profiles EXCEPT ![active].connected = TRUE]
          /\ adv'.state = "none" /\ Kept
          /\ works' = works \/ works' = Submitted("raise")
      BY <1>3 DEF Joins, ghosts
    <2>2. \A p \in Index : profiles'[p].peer = profiles[p].peer /\ profiles'[p].bt_id = profiles[p].bt_id
      BY <2>1, ProfileChanges
    <2>3. \A y : Queued(y) => Queued(y)'
      BY <2>1, QueuedStays DEF Queued, BleTypes
    <2>4. conns' # {} /\ conns \subseteq conns' /\ active \in Index
      BY <2>1 DEF BleTypes
    <2>5. OwnInv => OwnInv'
      BY <2>1, <2>2 DEF OwnInv, Open
    <2>6. TransferInv => TransferInv'
      BY <1>1, <2>1, <2>2, <2>3, <2>4 DEF TransferInv, Announced
    <2> QED
      BY <1>1, <2>1, <2>4, <2>5, <2>6 DEF ReviveInv, PairInv, AloneInv
  <1>4. ASSUME NEW c \in conns, Encrypts(c) \/ Pairs(c) PROVE ReviveInv'
    <2>1. /\ works' = Submitted("raise") /\ conns' = ClosedOn(OtherId(c.id), conns) /\ Kept /\ Reached
          /\ UNCHANGED <<adv, air, sleepWork, forceSleep, asleep>>
      <3>1. CASE Encrypts(c)
        BY <3>1 DEF Encrypts, ghosts, power
      <3>2. CASE Pairs(c)
        BY <3>2 DEF Pairs, power
      <3> QED
        BY <1>4, <3>1, <3>2
    <2>2. Queued("raise")' /\ \A y : Queued(y) => Queued(y)'
      BY <2>1, QueuedStays DEF Queued, BleTypes
    <2>3. Hosted(conns', conns)
      BY <2>1, ClosedOnHosted
    <2>4. ~mixed' /\ OwnInv => OwnInv'
      <3>1. CASE Encrypts(c)
        <4>1. profiles' = [profiles EXCEPT ![active].peer = c.host] /\ c.host \in Hosts
          BY <3>1 DEF Encrypts, BleTypes, Conn
        <4>2. \A p \in Index : p # active => /\ profiles'[p].peer = profiles[p].peer
                                             /\ profiles'[p].bt_id = profiles[p].bt_id
          BY <4>1, ProfileChanges
        <4> QED
          BY <2>1, <4>2 DEF OwnInv, Open
      <3>2. CASE Pairs(c)
        <4>1. ASSUME ~mixed', NEW p \in Index, p # active PROVE profiles'[p] = profiles[p]
          <5>1. profiles[p].peer # c.host
            BY <3>2, <4>1 DEF Pairs
          <5> QED
            BY <3>2, <4>1, <5>1 DEF Pairs
        <4> QED
          BY <2>1, <4>1 DEF OwnInv, Open
      <3> QED
        BY <1>4, <3>1, <3>2
    <2>5. PairInv => PairInv'
      BY <1>1, <1>2, <2>1 DEF PairInv
    <2>6. AloneInv => AloneInv'
      BY <1>1, <2>1, <2>2, <2>3 DEF AloneInv, Revives, Hosted
    <2> QED
      BY <1>1, <2>1, <2>2, <2>4, <2>5, <2>6 DEF ReviveInv, TransferInv, Announced
  <1>5. ASSUME NEW c \in conns, NEW lost \in BOOLEAN, Leaves(c, lost) PROVE ReviveInv'
    <2> DEFINE w == IF lost THEN Submitted("update") ELSE works
    <2>1. /\ conns' = conns \ {c} /\ Kept /\ Reached /\ UNCHANGED asleep
          /\ profiles' = [profiles EXCEPT ![active].connected = FALSE]
          /\ works' = IF c.host = profiles[active].peer /\ "raise" \notin Range(w)
                      THEN Append(w, "raise") ELSE w
      BY <1>5 DEF Leaves, ghosts, FlagCleared, awake
    <2>2. \A p \in Index : profiles'[p].peer = profiles[p].peer /\ profiles'[p].bt_id = profiles[p].bt_id
      BY <2>1, ProfileChanges
    <2>3. w \in Seq({"update", "raise"}) /\ (\A y : Queued(y) => y \in Range(w)) /\ (lost => "update" \in Range(w))
      BY QueuedStays, Submits DEF BleTypes, WorksOK, Queued
    <2> HIDE DEF w
    <2>4. "raise" \in Range(Append(w, "raise")) /\ \A y : y \in Range(w) => y \in Range(Append(w, "raise"))
      BY <2>3, RangeGrows
    <2>5. /\ \A y : Queued(y) => Queued(y)'
          /\ lost => Queued("update")'
          /\ c.host = profiles[active].peer => Queued("raise")'
      BY <2>1, <2>3, <2>4 DEF Queued
    <2>6. OwnInv => OwnInv'
      BY <2>1, <2>2 DEF OwnInv, Open
    <2>7. TransferInv => TransferInv'
      BY <1>1, <2>1, <2>2, <2>5 DEF TransferInv, Announced, BleTypes
    <2>8. IF lost THEN adv'.state = "reconn" ELSE UNCHANGED adv /\ (sleepWork' \/ transfer.type # "none")
      BY <1>5 DEF Leaves, BleTypes, Adv
    <2>9. PairInv => PairInv'
      BY <1>1, <1>2, <2>1, <2>8 DEF PairInv
    <2>10. AloneInv'
      BY <1>1, <2>1, <2>5, <2>8 DEF AloneInv, Revives, Transfers
    <2> QED
      BY <1>1, <2>1, <2>6, <2>7, <2>9, <2>10 DEF ReviveInv
  <1>6. ASSUME NEW c \in conns, Refused(c) PROVE ReviveInv'
    <2>1. /\ conns' = HungUpOn(c.host, profiles[active].bt_id) /\ Kept /\ Reached
          /\ UNCHANGED <<profiles, works, adv, air, sleepWork, forceSleep, asleep>>
      BY <1>6 DEF Refused, power
    <2>2. Hosted(conns', conns)
      BY <2>1, HungUpOnHosted
    <2>3. OwnInv => OwnInv'
      BY <2>1 DEF OwnInv, Open
    <2>4. TransferInv => TransferInv'
      BY <1>1, <2>1, <2>2 DEF TransferInv, Announced, Queued, Hosted
    <2>5. PairInv => PairInv'
      BY <1>1, <1>2, <2>1 DEF PairInv
    <2>6. AloneInv => AloneInv'
      BY <1>1, <2>1, <2>2 DEF AloneInv, Revives, Queued, Hosted
    <2> QED
      BY <1>1, <2>1, <2>3, <2>4, <2>5, <2>6 DEF ReviveInv
  <1> QED
    BY <1>3, <1>4, <1>5, <1>6 DEF BleStack

\* On the 2.4 GHz link the thread's first call is still to be made.
PptInv == transport = "ppt" => todo = <<<<"update">>>>

LEMMA ReviveStart == Init => ReviveInv /\ PptInv
  <1> SUFFICES ASSUME Init PROVE ReviveInv /\ PptInv
    OBVIOUS
  <1>1. BleInit /\ todo = <<<<"update">>>> /\ transfer.type = "none" /\ adv.state = "reconn"
    BY DEF Init, BleInit, NoTransfer
  <1>2. AtOnceInv /\ Due("update") /\ ~Calls("transfer")
    <2> DEFINE t == <<<<"update">>>>
    <2>1. Len(t) = 1 /\ t[1] = <<"update">> /\ Head(t) = <<"update">> /\ <<"update">>[1] = "update"
      OBVIOUS
    <2>2. todo = t
      BY <1>1
    <2> HIDE DEF t
    <2>3. AtOnceInv
      <3>1. \A j \in 2 .. 1 : FALSE
        OBVIOUS
      <3>2. Len(todo) = 1
        BY <2>1, <2>2
      <3> QED
        BY <3>1, <3>2, Zenon DEF AtOnceInv
    <2>4. Due("update")
      BY <2>1, <2>2 DEF Due, In
    <2>5. ~Calls("transfer")
      BY <2>1, <2>2 DEF Calls
    <2> QED
      BY <2>3, <2>4, <2>5
  <1>3. OwnInv
    <2>1. ASSUME NEW p \in Index, profiles[p].peer # AnyAddr PROVE profiles[p].bt_id = Base(p)
      BY <1>1, <2>1 DEF BleInit
    <2> QED
      BY <2>1 DEF OwnInv, Open, Identities
  <1> QED
    BY <1>1, <1>2, <1>3 DEF ReviveInv, TransferInv, Transfers, PairInv, AloneInv, Revives, PptInv

LEMMA SameTransport ==
  ASSUME PptNext
  PROVE  UNCHANGED transport
  BY DEF PptNext, PptThread, PptRadio, SendReport, SenderPolls, PollTimer, AirDelivers, ASecondPasses,
         BatDisplay, BatDisplayOff, Paired, PptKeyPress, PptSelect, PptReconn, Reconnect, PptPair,
         PptSleep, PptReset, PairTimeout, Connected, ConnectTimeout, ConnectLost, power, awake,
         Active, Requested, GoesToSleep, Reset, SleepWorker

LEMMA ReviveStep ==
  ASSUME Calm, BleTypes, KeptInv, ReviveInv, PptInv, Next \/ UNCHANGED vars
  PROVE  ReviveInv' /\ PptInv'
  <1>1. CASE OnPpt
    <2>1. UNCHANGED bleVars /\ UNCHANGED transport /\ transport = "ppt"
      BY <1>1, SameTransport DEF OnPpt, SleepWorker
    <2>2. /\ todo = <<<<"update">>>>
          /\ UNCHANGED <<profiles, active, air, conns, adv, transfer, works, todo, mixed>>
      BY <2>1 DEF PptInv, bleVars
    <2>3. (\A x : Calls(x) <=> Calls(x)') /\ (\A x : Due(x) <=> Due(x)')
      BY <2>2 DEF Calls, Idle, Due, In
    <2>4. Calls("update")' /\ Due("update")'
      <3> DEFINE t == <<<<"update">>>>
      <3>1. Len(t) = 1 /\ t[1] = <<"update">> /\ t # <<>> /\ Head(t) = <<"update">> /\ <<"update">>[1] = "update"
        OBVIOUS
      <3>2. todo' = t
        BY <2>2
      <3> HIDE DEF t
      <3> QED
        BY <3>1, <3>2 DEF Due, In, Calls, Idle
    <2>5. AtOnceInv' = AtOnceInv /\ (OwnInv => OwnInv')
      BY <2>2 DEF AtOnceInv, OwnInv, Open
    <2>6. TransferInv => TransferInv'
      BY <2>2, <2>3 DEF TransferInv, Transfers, Announced, Queued
    <2> QED
      BY <2>1, <2>2, <2>4, <2>5, <2>6 DEF ReviveInv, PairInv, AloneInv, Revives, PptInv
  <1>2. CASE OnBle /\ BleNext
    <2>1. ReviveInv'
      BY <1>2, ThreadRevives, CalledRevives, StackRevives DEF BleNext
    <2>2. transport = "ble" /\ UNCHANGED transport
      <3>1. BleNext => UNCHANGED transport
        BY DEF BleNext, Thread, Switch, Transfer, Update, Stop, Start, Started, Raise, Check, Wake, Tired,
               BleUser, BleKeyPress, Clear, Request, BleTimers, WorkRuns, AdvTimeout, Save, BleSleep,
               BleReset, BleBoot, BleStack, Joins, Encrypts, Pairs, Refused, Leaves, power, awake, Active,
               Requested, GoesToSleep, Reset
      <3> QED
        BY <1>2, <3>1 DEF OnBle
    <2> QED
      BY <2>1, <2>2 DEF PptInv
  <1>3. CASE UNCHANGED vars \/ (OnBle /\ UNCHANGED bleVars /\ SleepWorker)
    <2>1. UNCHANGED <<profiles, active, air, conns, adv, transfer, works, todo, mixed, transport, asleep>>
      BY <1>3 DEF vars, bleVars, power, SleepWorker
    <2>2. sleepWork \/ forceSleep => sleepWork' \/ forceSleep'
      BY <1>3 DEF vars, power, SleepWorker
    <2>3. (\A x : Calls(x) <=> Calls(x)') /\ (\A x : Due(x) <=> Due(x)') /\ (Linked(active) <=> Linked(active)')
      BY <2>1 DEF Calls, Idle, Due, In, Linked
    <2>4. AtOnceInv' = AtOnceInv /\ (OwnInv => OwnInv') /\ (PptInv => PptInv')
      BY <2>1 DEF AtOnceInv, OwnInv, Open, PptInv
    <2>5. TransferInv => TransferInv'
      BY <2>1, <2>3 DEF TransferInv, Transfers, Announced, Queued
    <2>6. PairInv => PairInv'
      BY <2>1, <2>3 DEF PairInv
    <2>7. AloneInv => AloneInv'
      BY <2>1, <2>2, <2>3 DEF AloneInv, Revives, Transfers, Queued
    <2> QED
      BY <2>1, <2>4, <2>5, <2>6, <2>7 DEF ReviveInv
  <1> QED
    BY <1>1, <1>2, <1>3 DEF Next, OnBle

LEMMA RevivesFound == BleTypes /\ KeptInv /\ ReviveInv => Findable
  <1> SUFFICES ASSUME BleTypes, KeptInv, ReviveInv PROVE NoLimbo
    BY KeptIsKept DEF Findable
  <1> SUFFICES ASSUME Quiet, conns = {}, ~asleep, ~mixed
               PROVE  adv.timer \/ sleepWork \/ forceSleep \/ air # 0
    BY DEF NoLimbo
  <1>1. \A x : ~Calls(x) /\ ~Due(x)
    BY IdleNothing DEF Quiet
  <1>2. \A x : ~Queued(x)
    BY DEF Quiet, Queued, Range
  <1>3. ~Transfers
    BY <1>1, <1>2 DEF ReviveInv, TransferInv, Announced
  <1> QED
    BY <1>1, <1>2, <1>3 DEF ReviveInv, AloneInv, Revives

(***************************************************************************)
(* A keyboard without a host is found by one, or is on its way to sleep:   *)
(* it advertises, or a timer is running at whose end it gives up, and then *)
(* it listens to its keys. For any profiles, hosts and connections, and    *)
(* any steps of the thread, its timers, the stack and the user, while the  *)
(* stack's callbacks do not run inside bt_le_adv_stop.                     *)
(***************************************************************************)
THEOREM HostsFindIt ==
  ASSUME Calm
  PROVE  Spec => []Findable
  <1> DEFINE All == LinksInv /\ KeptInv /\ ReviveInv /\ PptInv
  <1>1. Init => All
    BY LinksStart, KeptStart, ReviveStart DEF Init
  <1>2. All /\ [Next]_vars => All'
    <2> SUFFICES ASSUME All, [Next]_vars PROVE All'
      OBVIOUS
    <2>1. LinksInv' /\ BleTypes
      BY LinksStep DEF LinksInv
    <2>2. BleNext \/ UNCHANGED bleVars
      BY DEF Next, OnPpt, OnBle, vars
    <2>3. KeptInv'
      BY <2>1, <2>2, KeptStep
    <2>4. ReviveInv' /\ PptInv'
      BY <2>1, ReviveStep
    <2> QED
      BY <2>1, <2>3, <2>4
  <1>3. All => Findable
    BY RevivesFound DEF LinksInv
  <1> QED
    BY <1>1, <1>2, <1>3, PTL DEF Spec
=============================================================================
