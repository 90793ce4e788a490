--------------------------- MODULE HoldTap_proofs ---------------------------
(***************************************************************************)
(* Hold-taps for any number of keys, slots, captured events and settings:  *)
(* unless an event is lost for want of room, key events reach the keymap   *)
(* in the order they happened, none twice and none left behind.            *)
(*                                                                         *)
(* A replay makes the next hold-tap undecided in its middle, captures the  *)
(* rest once more, and is itself resumed later. That the captured events   *)
(* stay in order rests on the gaps: what is captured anew always finds one *)
(* below every replay that is still to go on (RoomInv).                    *)
(*                                                                         *)
(* First the invariant, then what a step does to the sequence of calls,    *)
(* then one part of the invariant after another.                           *)
(***************************************************************************)
EXTENDS HoldTap, FiniteSetTheorems, SequenceTheorems, WellFoundedInduction, TLAPS

\* Of a hold-tap that holds while undecided and lingers, the hold is released
\* twice at the end of a hold; here no key has both options.
Unlingering == \A s \in Setups : \A p \in DOMAIN s.conf : s.conf[p].hwu => ~s.conf[p].linger

-----------------------------------------------------------------------------
(* The invariant *)

Here == 1 .. Len(todo)
Places == 1 .. MaxCaptured

\* Kinds of calls. A key event on its way and the end of a release may lead to
\* a captured event; so may the keycode of a hold.
IsEvent(c) == c.op \in Moving
Past(c) == c.op \in {"listen", "capture", "keymap"}
IsReplay(c) == c.op = "replay"
IsEnding(c) == c.op = "release"
IsKeycode(c) == c.op = "keycode"
IsHold(c) == IsKeycode(c) /\ IsMod(c)
Weighs(c) == IsEvent(c) \/ IsEnding(c)
IsFirst(c) == IsReplay(c) /\ c.from = 1
ByTimer(c) == c.op = "decide" /\ c.moment = "timer"

DecideCall ==
  [op : {"decide"}, slot : Slot,
   moment : {"timer", "key-up", "key-down", "quick", "other-down", "other-up"}]
ReplayCall == [op : {"replay"}, from : 1 .. MaxCaptured + 1]
SlotCall == [op : {"schedule", "release"}, slot : Slot]
Call == PositionEvent(Moving) \cup KeycodeEvent \cup DecideCall \cup ReplayCall \cup SlotCall
Owed == [n : 1 .. MaxEvents, key : Key, down : BOOLEAN, under : SUBSET Key]

TypeInv ==
  /\ TypeOK
  /\ todo \in Seq(Call)
  /\ owed \subseteq Owed
  /\ \A o \in owed : o.n <= events

Shape ==
  /\ \A i, j \in Here : i < j /\ IsKeycode(todo[j]) => IsKeycode(todo[i])
  /\ \A j \in Here : todo[j].op \in {"position", "keymap"} \/ ByTimer(todo[j]) => j = 1
  /\ \A i, j \in Here : i < j /\ (todo[j].op = "listen" \/ IsFirst(todo[j]))
        => IsKeycode(todo[i])
  /\ \A j \in Here : IsFirst(todo[j]) => undecided = 0
  /\ \A i, j \in Here : i < j /\ Weighs(todo[i]) /\ Weighs(todo[j])
        => \E k \in Here : i < k /\ k < j /\ IsReplay(todo[k])

IsCaptured(k) == captured[k] # None /\ captured[k].op = "position"
Filled(m, k) == \A l \in m .. k : captured[l] # None
After(j, k) == \E i \in Here : j < i /\ IsReplay(todo[i]) /\ todo[i].from <= k
Behind(k) == After(0, k)
Cover ==
  \A k \in Places : captured[k] # None =>
    \/ undecided # 0 /\ Filled(1, k)
    \/ \E j \in Here : IsReplay(todo[j]) /\ todo[j].from <= k /\ Filled(todo[j].from, k)

Stands(o, e) == o.n = e.n /\ o.key = e.key /\ o.down = e.down
OwedInv ==
  /\ \A o, q \in owed : o.n = q.n => o = q
  /\ \A j \in Here : IsEvent(todo[j]) => \E o \in owed : Stands(o, todo[j])
  /\ \A k \in Places : IsCaptured(k) => \E o \in owed : Stands(o, captured[k])
  /\ \A o \in owed : \/ \E j \in Here : IsEvent(todo[j]) /\ todo[j].n = o.n
                     \/ \E k \in Places : IsCaptured(k) /\ captured[k].n = o.n

LineInv ==
  /\ \A i, j \in Here : i < j /\ IsEvent(todo[i]) /\ IsEvent(todo[j]) => todo[i].n < todo[j].n
  /\ \A k, l \in Places : k < l /\ IsCaptured(k) /\ IsCaptured(l) => captured[k].n < captured[l].n
  /\ \A j \in Here, k \in Places : IsEvent(todo[j]) /\ IsCaptured(k) =>
       /\ After(j, k) => todo[j].n < captured[k].n
       /\ ~After(j, k) => captured[k].n < todo[j].n

Opposite(r, o) == r.key = o.key /\ r.down # o.down
TurnsInv ==
  /\ \A o, q \in owed : o.key = q.key /\ o.down = q.down /\ o.n < q.n =>
       \E r \in owed : Opposite(r, o) /\ o.n < r.n /\ r.n < q.n
  /\ \A o \in owed : o.down # (o.key \in down) => \E r \in owed : Opposite(r, o) /\ o.n < r.n

Room(m, c) == c < m /\ \A k \in m - c .. m - 1 : captured[k] = None
NoReplay(i, j) == \A k \in Here : i < k /\ k < j => ~IsReplay(todo[k])
First(j) == IsReplay(todo[j]) /\ NoReplay(0, j)
Catching == undecided # 0 /\ ~Conf(undecided).hwu
Waiting == {i \in InUse : Conf(i).retro /\ slots[i].status = "timer"}
Weight(j) == IF \E i \in Here : i < j /\ Weighs(todo[i]) THEN 1 ELSE 0
HoldWeight == IF Catching /\ \E j \in Here : IsHold(todo[j]) THEN 1 ELSE 0
RetroWeight == IF Waiting # {} THEN 1 ELSE 0
Load(j) == Weight(j) + HoldWeight + RetroWeight
RoomPairs ==
  /\ \A i, j \in Here : i < j /\ IsReplay(todo[i]) /\ IsReplay(todo[j]) =>
       todo[i].from < todo[j].from /\ Room(todo[j].from, 1)
  /\ \A h, i, j \in Here : h < i /\ i < j /\ IsReplay(todo[h]) /\ Weighs(todo[i]) /\ IsReplay(todo[j]) =>
       /\ todo[h].from + 2 <= todo[j].from
       /\ NoReplay(i, j) => Room(todo[j].from, 2)
RoomFirst ==
  \A j \in Here : First(j) /\ undecided # 0 =>
    Room(todo[j].from, 1 + Load(j))
RoomDown ==
  \A i, j \in Here : First(j) /\ undecided = 0 /\ i < j /\ IsEvent(todo[i]) /\ todo[i].down =>
    todo[j].from > 1 /\ (Past(todo[i]) /\ Waiting # {} => todo[j].from > 2)
RoomInv == RoomPairs /\ RoomFirst /\ RoomDown
HoldOnce == Catching => \A i, j \in Here : IsHold(todo[i]) /\ IsHold(todo[j]) => i = j

HasEnding(i) == \E j \in Here : IsEnding(todo[j]) /\ todo[j].slot = i
EndingInv ==
  \A j \in Here : IsEnding(todo[j]) =>
      /\ todo[j].slot \in InUse
      /\ \A i \in Here : IsEnding(todo[i]) /\ todo[i].slot = todo[j].slot => i = j
      /\ \A i \in Here : i < j /\ IsEvent(todo[i]) => todo[i].key # slots[todo[j].slot].key
      /\ \A k \in Places : IsCaptured(k) /\ captured[k].key = slots[todo[j].slot].key => After(j, k)
KeyUpInv ==
  \A j \in Here : IsEnding(todo[j]) /\ todo[j].slot = undecided =>
     j > 1 /\ todo[j - 1] = Decide(undecided, "key-up")
SlotsInv ==
  /\ \A i, j \in InUse : slots[i].key = slots[j].key => i = j
  /\ \A i \in InUse : ~HasEnding(i) =>
      /\ \A o \in owed : o.key = slots[i].key /\ o.down => \E q \in owed : Opposite(q, o) /\ q.n < o.n
      /\ slots[i].key \notin down => \E q \in owed : q.key = slots[i].key /\ ~q.down
  /\ \A i \in InUse, k \in Places : IsCaptured(k) /\ captured[k].key = slots[i].key => Behind(k)

KeymapInv ==
  \A j \in Here : todo[j].op = "keymap" /\ undecided # 0 =>
     /\ ~todo[j].down
     /\ \A k \in Places : IsCaptured(k) /\ captured[k].key = todo[j].key => Behind(k)

Alone(e) == \A s \in Waiting : slots[s].key = e.key /\ ~e.down
Leaving(s, j) == \E i \in Here : /\ i < j
                                 /\ \/ IsEnding(todo[i]) /\ todo[i].slot = s
                                    \/ Past(todo[i]) /\ ~todo[i].down /\ todo[i].key = slots[s].key
WaitingInv ==
  /\ undecided # 0 => \A s, t \in Waiting : s = t
  /\ \A j \in Here : todo[j].op = "listen" => Alone(todo[j])
  /\ \A j \in Here : Past(todo[j]) /\ todo[j].down =>
       \A s, t \in Waiting : ~Leaving(s, j) /\ ~Leaving(t, j) => s = t
  /\ ~Quiet /\ ByTimer(todo[1]) =>
       \/ Len(todo) = 1
       \/ Len(todo) > 1 /\ todo[2].op = "capture" /\ Alone(todo[2])
       \/ Len(todo) > 2 /\ todo[2] = Decide(todo[1].slot, "key-up") /\ todo[3] = Ending(todo[1].slot)

Good ==
  /\ TypeInv
  /\ Shape
  /\ Cover
  /\ OwedInv
  /\ LineInv
  /\ TurnsInv
  /\ RoomInv
  /\ HoldOnce
  /\ EndingInv
  /\ KeyUpInv
  /\ SlotsInv
  /\ KeymapInv
  /\ WaitingInv

Lost == Fault("lost") # {}
IInv == ~Lost => Good /\ Fault("order") = {}
-----------------------------------------------------------------------------
(* Calls *)

\* What a call is by its op.
LEMMA CallKinds ==
  ASSUME NEW c \in Call
  PROVE  /\ c.op \in Moving \cup {"keycode", "decide", "replay", "schedule", "release"}
         /\ IsEvent(c) => c \in PositionEvent(Moving)
         /\ IsKeycode(c) => c \in KeycodeEvent
         /\ c.op = "decide" => c \in DecideCall
         /\ IsReplay(c) => c \in ReplayCall
         /\ c.op \in {"schedule", "release"} => c \in SlotCall
  BY DEF Call, PositionEvent, KeycodeEvent, DecideCall, ReplayCall, SlotCall, Moving,
         IsEvent, IsKeycode, IsReplay

\* A key event goes on its way.
LEMMA Renamed ==
  ASSUME NEW e, NEW o, o \in Moving, e \in PositionEvent(Moving)
  PROVE  /\ [e EXCEPT !.op = o] \in PositionEvent({o})
         /\ [e EXCEPT !.op = o] \in PositionEvent(Moving)
         /\ [e EXCEPT !.op = o] \in Call
         /\ [e EXCEPT !.op = o].op = o /\ [e EXCEPT !.op = o].n = e.n
         /\ [e EXCEPT !.op = o].key = e.key /\ [e EXCEPT !.op = o].down = e.down
         /\ [e EXCEPT !.op = o].time = e.time
  BY DEF PositionEvent, Call

Light(c) == c.op \in {"decide", "schedule", "keycode"}
Heavy(c) == IsEvent(c) \/ IsReplay(c) \/ IsEnding(c)

LEMMA LightOrHeavy ==
  ASSUME NEW c \in Call
  PROVE  /\ Light(c) <=> ~Heavy(c)
         /\ Light(c) => ~IsEvent(c) /\ ~IsReplay(c) /\ ~IsEnding(c) /\ ~Weighs(c) /\ ~IsFirst(c)
                        /\ ~Past(c) /\ c.op \notin {"position", "listen", "capture", "keymap"}
         /\ Past(c) => IsEvent(c)
         /\ IsEvent(c) => ~IsReplay(c) /\ ~IsEnding(c) /\ ~IsKeycode(c)
         /\ IsReplay(c) => ~IsEvent(c) /\ ~IsEnding(c) /\ ~IsKeycode(c) /\ ~Weighs(c) /\ ~Past(c)
         /\ IsEnding(c) => ~IsEvent(c) /\ ~IsReplay(c) /\ ~IsKeycode(c) /\ ~Past(c)
  BY CallKinds DEF Light, Heavy, IsEvent, IsReplay, IsEnding, IsKeycode, Moving, Weighs,
                   IsFirst, Past

-----------------------------------------------------------------------------
(* A step replaces the first call *)

Splices(q) == todo # <<>> /\ q \in Seq(Call) /\ todo' = q \o Tail(todo)

LEMMA Splicing ==
  ASSUME todo \in Seq(Call), NEW q, Splices(q)
  PROVE  /\ todo' \in Seq(Call)
         /\ Len(todo) \in Nat /\ Len(q) \in Nat /\ 1 \in Here /\ Head(todo) = todo[1]
         /\ Here' = 1 .. Len(q) + Len(todo) - 1
         /\ \A j \in 1 .. Len(q) : j \in Here' /\ todo'[j] = q[j]
         /\ \A j \in Here' : j > Len(q) =>
              /\ j - (Len(q) - 1) \in Here /\ j - (Len(q) - 1) > 1
              /\ todo'[j] = todo[j - (Len(q) - 1)]
         /\ \A j \in Here : j > 1 =>
              j + (Len(q) - 1) \in Here' /\ todo'[j + (Len(q) - 1)] = todo[j]
  <1>1. PICK t : t = Tail(todo)
    OBVIOUS
  <1>2. PICK m \in Nat : m = Len(todo)
    OBVIOUS
  <1>3. PICK d \in Nat : d = Len(q)
    BY DEF Splices
  <1>4. /\ t \in Seq(Call) /\ Len(t) = m - 1 /\ m > 0
        /\ \A j \in 1 .. m - 1 : t[j] = todo[j + 1]
    BY <1>1, <1>2, EmptySeq, HeadTailProperties DEF Splices
  <1>5. todo' = q \o t /\ q \in Seq(Call)
    BY <1>1 DEF Splices
  <1>6. /\ q \o t \in Seq(Call) /\ Len(q \o t) = d + (m - 1)
        /\ \A j \in 1 .. d + (m - 1) : (q \o t)[j] = IF j <= d THEN q[j] ELSE t[j - d]
    <2>1. t \in Seq(Call) /\ q \in Seq(Call)
      BY <1>4, <1>5
    <2>2. /\ q \o t \in Seq(Call) /\ Len(q \o t) = Len(q) + Len(t)
          /\ \A j \in 1 .. Len(q) + Len(t) :
               (q \o t)[j] = IF j <= Len(q) THEN q[j] ELSE t[j - Len(q)]
      BY ONLY <2>1, ConcatProperties
    <2> QED
      BY ONLY <1>3, <1>4, <2>2
  <1>7. /\ todo' \in Seq(Call) /\ Len(todo') = d + (m - 1)
        /\ \A j \in 1 .. d + (m - 1) : todo'[j] = IF j <= d THEN q[j] ELSE t[j - d]
    BY <1>5, <1>6
  <1>8. Here = 1 .. m /\ Here' = 1 .. d + m - 1
    BY <1>2, <1>7 DEF Here
  <1>9. ASSUME NEW j \in 1 .. d PROVE j \in Here' /\ todo'[j] = q[j]
    BY <1>4, <1>7, <1>8
  <1>10. ASSUME NEW j \in Here', j > d
         PROVE  j - (d - 1) \in Here /\ j - (d - 1) > 1 /\ todo'[j] = todo[j - (d - 1)]
    <2>1. PICK i \in 1 .. m - 1 : i = j - d
      BY <1>8, <1>10
    <2>2. todo'[j] = t[i] /\ t[i] = todo[i + 1] /\ i + 1 = j - (d - 1)
      BY <1>4, <1>7, <1>8, <1>10, <2>1
    <2> QED
      BY <1>8, <2>1, <2>2
  <1>11. ASSUME NEW j \in Here, j > 1
         PROVE  j + (d - 1) \in Here' /\ todo'[j + (d - 1)] = todo[j]
    <2>1. PICK i \in 1 .. m - 1 : i = j - 1
      BY <1>8, <1>11
    <2>2. PICK l \in 1 .. d + (m - 1) : l = j + (d - 1) /\ l - d = i /\ l > d
      BY <1>8, <2>1
    <2>3. todo'[l] = t[i] /\ t[i] = todo[i + 1] /\ i + 1 = j
      <3>1. ~(l <= d)
        BY <2>1, <2>2
      <3>2. todo'[l] = t[l - d]
        BY ONLY <1>7, <2>2, <3>1
      <3> QED
        <4>1. i + 1 = j /\ l - d = i
          BY <1>8, <2>1, <2>2
        <4>2. t[i] = todo[i + 1]
          BY <1>4
        <4> QED
          BY ONLY <3>2, <4>1, <4>2
    <2> QED
      BY <1>8, <2>2, <2>3
  <1> QED
    BY <1>2, <1>3, <1>4, <1>7, <1>8, <1>9, <1>10, <1>11

\* The calls that matter, from the one after place lo on, are d places further on;
\* new are the places of others.
Like(x, c) ==
  /\ IsEvent(x) <=> IsEvent(c)
  /\ IsReplay(x) <=> IsReplay(c)
  /\ IsEnding(x) <=> IsEnding(c)
  /\ IsEvent(c) => x.n = c.n /\ x.key = c.key /\ x.down = c.down
  /\ IsReplay(c) => x.from = c.from
  /\ IsEnding(c) => x.slot = c.slot

Moves(d, lo, new) ==
  /\ d \in Int
  /\ \A j \in Here : j > lo /\ Heavy(todo[j]) => j + d \in Here' /\ Like(todo'[j + d], todo[j])
  /\ \A j \in Here' : Heavy(todo'[j]) =>
       j \in new \/ (j - d \in Here /\ j - d > lo /\ Like(todo'[j], todo[j - d]))

LEMMA Rest ==
  ASSUME todo \in Seq(Call), NEW q, Splices(q)
  PROVE  Moves(Len(q) - 1, 1, {j \in 1 .. Len(q) : Heavy(q[j])})
  <1>1. PICK n \in Nat : n = Len(q)
    BY Splicing
  <1>2. PICK d \in Int : d = n - 1
    OBVIOUS
  <1>3. ASSUME NEW c PROVE Like(c, c)
    BY DEF Like
  <1>4. ASSUME NEW j \in Here, j > 1
        PROVE  j + d \in Here' /\ Like(todo'[j + d], todo[j])
    <2>1. j + d \in Here' /\ todo'[j + d] = todo[j]
      BY <1>1, <1>2, <1>4, Splicing
    <2> QED
      BY <1>3, <2>1
  <1>5. ASSUME NEW j \in Here', Heavy(todo'[j])
        PROVE  \/ j \in {i \in 1 .. n : Heavy(q[i])}
               \/ j - d \in Here /\ j - d > 1 /\ Like(todo'[j], todo[j - d])
    <2>1. CASE j > n
      <3>1. j - d \in Here /\ j - d > 1 /\ todo'[j] = todo[j - d]
        BY <1>1, <1>2, <2>1, Splicing
      <3> QED
        BY <1>3, <3>1
    <2>2. CASE ~(j > n)
      <3>1. j \in 1 .. n
        BY <1>1, <2>2, Splicing
      <3>2. todo'[j] = q[j]
        BY <1>1, <3>1, Splicing
      <3> QED
        BY <1>5, <3>1, <3>2
    <2> QED
      BY <2>1, <2>2
  <1> QED
    BY <1>1, <1>2, <1>4, <1>5 DEF Moves

\* Light calls instead of a light one; or an event goes on its way.
Lights(q) == \A j \in 1 .. Len(q) : Light(q[j])
Carries(q) ==
  /\ Len(q) > 0 /\ IsEvent(todo[1]) /\ Like(q[Len(q)], todo[1])
  /\ \A j \in 1 .. Len(q) : j < Len(q) => Light(q[j])
Keeps(d) == Moves(d, 0, {})
Drops(d) == Moves(d, 1, {})

LEMMA LightSteps ==
  ASSUME todo \in Seq(Call), NEW q, Splices(q), Lights(q)
  PROVE  /\ Drops(Len(q) - 1)
         /\ Light(todo[1]) => Keeps(Len(q) - 1)
  <1>0. PICK n \in Nat : n = Len(q)
    BY Splicing
  <1>1. PICK d \in Int : d = Len(q) - 1
    BY <1>0
  <1>2. \A j \in 1 .. Len(q) : q[j] \in Call
    BY Splicing DEF Splices
  <1>3. {j \in 1 .. Len(q) : Heavy(q[j])} = {}
    BY <1>2, LightOrHeavy DEF Lights
  <1>4. Drops(d)
    BY <1>1, <1>3, Rest DEF Drops
  <1>5. ASSUME Light(todo[1]) PROVE Keeps(d)
    <2>1. todo[1] \in Call /\ Here \subseteq Nat
      BY Splicing DEF Here
    <2>2. ~Heavy(todo[1])
      BY <1>5, <2>1, LightOrHeavy
    <2>3. \A j \in Here : Heavy(todo[j]) => j > 1
      BY <2>1, <2>2 DEF Here
    <2>4. \A j \in Here : j > 0
      BY DEF Here
    <2> QED
      BY <1>4, <2>3, <2>4 DEF Drops, Keeps, Moves
  <1> QED
    BY <1>1, <1>4, <1>5

LEMMA CarrySteps ==
  ASSUME todo \in Seq(Call), NEW q, Splices(q), Carries(q)
  PROVE  Keeps(Len(q) - 1)
  <1>1. PICK n \in Nat : n = Len(q)
    BY Splicing
  <1>2. PICK d \in Int : d = n - 1
    OBVIOUS
  <1>3. n > 0 /\ n \in 1 .. n /\ IsEvent(todo[1]) /\ Like(q[n], todo[1])
    BY <1>1 DEF Carries
  <1>4. \A j \in 1 .. n : q[j] \in Call
    BY <1>1, Splicing DEF Splices
  <1>5. \A j \in 1 .. n : Heavy(q[j]) => j = n
    BY <1>1, <1>4, LightOrHeavy DEF Carries
  <1>6. Moves(d, 1, {j \in 1 .. n : Heavy(q[j])})
    BY <1>1, <1>2, Rest
  <1>7. n \in Here' /\ todo'[n] = q[n] /\ 1 \in Here
    BY <1>1, <1>3, Splicing
  <1>8. ASSUME NEW j \in Here, Heavy(todo[j]) PROVE j + d \in Here' /\ Like(todo'[j + d], todo[j])
    <2>1. CASE j = 1
      <3>1. j + d = n
        BY <1>2, <2>1
      <3> QED
        BY <1>3, <1>7, <2>1, <3>1
    <2>2. CASE j > 1
      BY <1>6, <1>8, <2>2 DEF Moves
    <2> QED
      BY <2>1, <2>2 DEF Here
  <1>9. ASSUME NEW j \in Here', Heavy(todo'[j])
        PROVE  j - d \in Here /\ j - d > 0 /\ Like(todo'[j], todo[j - d])
    <2>1. CASE j \in {i \in 1 .. n : Heavy(q[i])}
      <3>1. j = n /\ j - d = 1
        BY <1>2, <1>5, <2>1
      <3> QED
        BY <1>3, <1>7, <3>1
    <2>2. CASE j \notin {i \in 1 .. n : Heavy(q[i])}
      <3>1. j - d \in Here /\ j - d > 1 /\ Like(todo'[j], todo[j - d])
        BY <1>6, <1>9, <2>2 DEF Moves
      <3> QED
        BY <3>1 DEF Here
    <2> QED
      BY <2>1, <2>2
  <1>10. \A j \in Here : j > 0
    BY DEF Here
  <1> QED
    BY <1>1, <1>2, <1>8, <1>9, <1>10 DEF Keeps, Moves

-----------------------------------------------------------------------------
(* The calls for a set of slots *)

Below(S, s) == {t \in S : t < s}

LEMMA BelowCounts ==
  ASSUME NEW S \in SUBSET Nat, IsFiniteSet(S), NEW s \in S
  PROVE  /\ IsFiniteSet(Below(S, s)) /\ Cardinality(Below(S, s)) \in Nat
         /\ Cardinality(S) \in Nat /\ Cardinality(Below(S, s)) < Cardinality(S)
         /\ \A t \in S : s < t => Cardinality(Below(S, s)) < Cardinality(Below(S, t))
  <1>1. ASSUME NEW T, IsFiniteSet(T), s \in T, Below(S, s) \subseteq T
        PROVE  Cardinality(Below(S, s)) < Cardinality(T)
    <2>1. Below(S, s) \subseteq T \ {s}
      BY <1>1 DEF Below
    <2>2. IsFiniteSet(T \ {s}) /\ Cardinality(T \ {s}) = Cardinality(T) - 1
      BY <1>1, FS_RemoveElement
    <2>3. Cardinality(Below(S, s)) <= Cardinality(T \ {s}) /\ IsFiniteSet(Below(S, s))
      BY <2>1, <2>2, FS_Subset
    <2>4. Cardinality(Below(S, s)) \in Nat /\ Cardinality(T) \in Nat
      BY <1>1, <2>3, FS_CardinalityType
    <2> QED
      BY <2>2, <2>3, <2>4
  <1>2. ASSUME NEW t \in S PROVE IsFiniteSet(Below(S, t)) /\ Cardinality(Below(S, t)) \in Nat
    <2>1. Below(S, t) \subseteq S
      BY DEF Below
    <2>2. IsFiniteSet(Below(S, t))
      BY <2>1, FS_Subset
    <2> QED
      BY <2>2, FS_CardinalityType
  <1>3. Cardinality(S) \in Nat
    BY FS_CardinalityType
  <1>4. Cardinality(Below(S, s)) < Cardinality(S)
    <2>1. Below(S, s) \subseteq S
      BY DEF Below
    <2> QED
      BY <1>1, <2>1
  <1>5. ASSUME NEW t \in S, s < t
        PROVE  Cardinality(Below(S, s)) < Cardinality(Below(S, t))
    <2>0. ASSUME NEW u \in Below(S, s) PROVE u \in Below(S, t)
      <3>1. u \in S /\ u < s /\ u \in Nat /\ s \in Nat /\ t \in Nat
        BY <2>0 DEF Below
      <3>2. u < t
        BY <1>5, <3>1
      <3> QED
        BY <3>1, <3>2 DEF Below
    <2>1. s \in Below(S, t) /\ Below(S, s) \subseteq Below(S, t)
      BY <1>5, <2>0 DEF Below
    <2> QED
      BY <1>1, <1>2, <2>1
  <1> QED
    BY <1>2, <1>3, <1>4, <1>5
\* The loops of the code make one call for each slot of a set, and no other.
LEMMA NthMember ==
  ASSUME NEW S \in SUBSET Nat, IsFiniteSet(S)
  PROVE  /\ Cardinality(S) \in Nat
         /\ \A n \in 1 .. Cardinality(S) : Nth(S, n) \in S
  <1>0. Cardinality(S) \in Nat
    BY FS_CardinalityType
  <1> DEFINE C == Cardinality(S)
             f == [s \in S |-> Cardinality(Below(S, s)) + 1]
  <1>1. ASSUME NEW s \in S, NEW t \in S, Cardinality(Below(S, s)) = Cardinality(Below(S, t))
        PROVE  s = t
    <2>1. /\ Cardinality(Below(S, s)) \in Nat /\ Cardinality(Below(S, t)) \in Nat
          /\ s < t => Cardinality(Below(S, s)) < Cardinality(Below(S, t))
          /\ t < s => Cardinality(Below(S, t)) < Cardinality(Below(S, s))
      BY BelowCounts
    <2> QED
      BY <1>1, <2>1
  <1>2. ASSUME NEW s \in S PROVE f[s] \in 1 .. C
    BY <1>0, BelowCounts
  <1>3. f \in Injection(S, 1 .. C)
    <2>1. f \in [S -> 1 .. C]
      BY <1>2
    <2>2. ASSUME NEW s \in S, NEW t \in S, f[s] = f[t] PROVE s = t
      <3>1. Cardinality(Below(S, s)) \in Nat /\ Cardinality(Below(S, t)) \in Nat
        BY BelowCounts
      <3>2. Cardinality(Below(S, s)) = Cardinality(Below(S, t))
        BY <2>2, <3>1
      <3> QED
        BY <1>1, <3>2
    <2> HIDE DEF f
    <2> QED
      BY <2>1, <2>2 DEF Injection, IsInjective
  <1>4. IsFiniteSet(1 .. C) /\ Cardinality(1 .. C) = C
    BY <1>0, FS_Interval
  <1>5. f \in Surjection(S, 1 .. C)
    <2> HIDE DEF f
    <2> QED
      BY <1>3, <1>4, FS_Injection
  <1>6. ASSUME NEW n \in 1 .. C
        PROVE  Nth(S, n) \in S /\ Cardinality(Below(S, Nth(S, n))) = n - 1
    <2>1. PICK s \in S : f[s] = n
      BY <1>5 DEF Surjection
    <2>2. Cardinality(Below(S, s)) = n - 1
      BY <1>0, <2>1, BelowCounts
    <2> QED
      BY <2>2 DEF Nth, Below
  <1> QED
    BY <1>0, <1>6

-----------------------------------------------------------------------------
(* The types of what the handlers read and call *)

LEMMA Boards ==
  ASSUME setup \in Setups
  PROVE  /\ HoldTap \subseteq Key /\ None \notin Key /\ None \notin HoldTap
         /\ None \notin PositionEvent({"position"}) /\ None \notin KeycodeEvent
         /\ \A p \in HoldTap : setup.conf[p] \in Config
         /\ setup.limit \in Nat
         /\ MaxHeld \in Nat \ {0} /\ MaxCaptured \in Nat \ {0} /\ MaxTime \in Nat /\ MaxEvents \in Nat
         /\ Slot = 1 .. MaxHeld /\ Places = 1 .. MaxCaptured
  BY HoldTapAssumption DEF HoldTap, Slot, Places

\* What a slot in use holds.
LEMMA Slots ==
  ASSUME TypeOK
  PROVE  /\ \A i \in Slot : /\ slots[i].key \in HoldTap \cup {None} /\ slots[i].time \in 0 .. MaxTime
                            /\ slots[i].status \in {"undecided", "tap", "interrupt", "timer"}
                            /\ slots[i].first \in Key \cup {None}
         /\ \A i \in InUse : /\ i \in Slot /\ slots[i].key \in HoldTap /\ slots[i].key \in Key
                             /\ Conf(i) \in Config
         /\ DOMAIN slots = Slot
         /\ undecided # 0 => undecided \in InUse /\ slots[undecided].status = "undecided"
         /\ DOMAIN captured = Places
  <1>1. slots \in [Slot -> [key : HoldTap \cup {None}, time : 0 .. MaxTime,
                            status : {"undecided", "tap", "interrupt", "timer"},
                            first : Key \cup {None}]]
    BY DEF TypeOK
  <1>2. \A i \in Slot : /\ slots[i].key \in HoldTap \cup {None} /\ slots[i].time \in 0 .. MaxTime
                        /\ slots[i].status \in {"undecided", "tap", "interrupt", "timer"}
                        /\ slots[i].first \in Key \cup {None}
    BY <1>1
  <1>3. \A i \in InUse : /\ i \in Slot /\ slots[i].key \in HoldTap /\ slots[i].key \in Key
                         /\ Conf(i) \in Config
    BY <1>2, Boards DEF InUse, Conf, TypeOK
  <1> QED
    BY <1>1, <1>2, <1>3 DEF TypeOK, InUse, Places

\* The bindings of a hold-tap.
LEMMA Bindings ==
  ASSUME TypeOK, NEW i \in InUse
  PROVE  /\ HoldDown(i) \in Call /\ IsKeycode(HoldDown(i)) /\ Light(HoldDown(i)) /\ IsHold(HoldDown(i))
         /\ HoldUp(i) \in Call /\ IsKeycode(HoldUp(i)) /\ Light(HoldUp(i)) /\ IsHold(HoldUp(i))
         /\ TapDown(i) \in Call /\ IsKeycode(TapDown(i)) /\ Light(TapDown(i)) /\ ~IsHold(TapDown(i))
         /\ TapUp(i) \in Call /\ IsKeycode(TapUp(i)) /\ Light(TapUp(i)) /\ ~IsHold(TapUp(i))
  <1>1. slots[i].key \in Key /\ slots[i].time \in 0 .. MaxTime
    BY Slots
  <1>2. ASSUME NEW p \in Key, NEW b \in {"hold", "tap", "plain"}, NEW u \in BOOLEAN,
               NEW t \in 0 .. MaxTime
        PROVE  /\ Keycode(p, b, u, t) \in Call /\ IsKeycode(Keycode(p, b, u, t))
               /\ Light(Keycode(p, b, u, t))
               /\ IsHold(Keycode(p, b, u, t)) <=> b = "hold"
    BY DEF Call, KeycodeEvent, Keycode, IsKeycode, Light, IsHold, IsMod
  <1> QED
    BY <1>1, <1>2 DEF HoldDown, HoldUp, TapDown, TapUp

LEMMA Decisions ==
  ASSUME NEW i \in Slot,
         NEW m \in {"timer", "key-up", "key-down", "quick", "other-down", "other-up"}
  PROVE  /\ Decide(i, m) \in Call /\ Light(Decide(i, m)) /\ ~IsKeycode(Decide(i, m))
         /\ ~IsHold(Decide(i, m))
         /\ Decide(i, m).op = "decide" /\ Decide(i, m).slot = i /\ Decide(i, m).moment = m
         /\ ByTimer(Decide(i, m)) <=> m = "timer"
  BY DEF Call, DecideCall, Decide, Light, IsKeycode, IsHold, ByTimer

LEMMA Others ==
  ASSUME MaxCaptured \in Nat
  PROVE  /\ \A i \in Slot : /\ Schedule(i) \in Call /\ Light(Schedule(i)) /\ ~IsKeycode(Schedule(i))
                            /\ ~ByTimer(Schedule(i)) /\ Schedule(i).op = "schedule"
                            /\ Ending(i) \in Call /\ IsEnding(Ending(i)) /\ Ending(i).slot = i
                            /\ Ending(i).op = "release"
         /\ \A n \in 1 .. MaxCaptured + 1 :
              Replay(n) \in Call /\ IsReplay(Replay(n)) /\ Replay(n).from = n /\ Replay(n).op = "replay"
  BY DEF Call, SlotCall, Schedule, Ending, ReplayCall, Replay, Light, IsKeycode, ByTimer, IsEnding,
         IsReplay

\* The first call.
LEMMA Heads ==
  ASSUME TypeInv, todo # <<>>
  PROVE  /\ todo \in Seq(Call) /\ Head(todo) = todo[1] /\ todo[1] \in Call /\ 1 \in Here
         /\ Len(todo) \in Nat /\ Len(todo) > 0 /\ Here = 1 .. Len(todo)
         /\ \A j \in Here : todo[j] \in Call
  BY EmptySeq DEF TypeInv, Here

-----------------------------------------------------------------------------
(* The calls that each handler puts in place of its own *)

\* An event goes on, as op, after the calls before it.
Onward(q, o) ==
  /\ Splices(q) /\ Carries(q) /\ Len(q) > 0 /\ q[Len(q)] = [todo[1] EXCEPT !.op = o]

LEMMA OnwardIs ==
  ASSUME TypeInv, todo # <<>>, IsEvent(todo[1]), NEW q, NEW o, o \in Moving,
         q \in Seq(Call), Len(q) > 0, q[Len(q)] = [todo[1] EXCEPT !.op = o],
         \A j \in 1 .. Len(q) : j < Len(q) => Light(q[j]),
         todo' = q \o Tail(todo)
  PROVE  /\ Onward(q, o)
         /\ q[Len(q)].op = o /\ q[Len(q)].n = todo[1].n /\ q[Len(q)].key = todo[1].key
         /\ q[Len(q)].down = todo[1].down
  <1>1. todo[1] \in PositionEvent(Moving)
    BY Heads, CallKinds
  <1>2. PICK e : e = todo[1]
    OBVIOUS
  <1>3. PICK x : x = [e EXCEPT !.op = o]
    OBVIOUS
  <1>4. /\ x.op = o /\ x.n = e.n /\ x.key = e.key /\ x.down = e.down /\ x \in Call
    BY <1>1, <1>2, <1>3, Renamed
  <1>5. IsEvent(x) /\ IsEvent(e) /\ e \in Call
    BY <1>2, <1>4, Heads DEF IsEvent
  <1>6. Like(x, e)
    BY <1>4, <1>5, LightOrHeavy DEF Like
  <1> QED
    BY <1>2, <1>3, <1>4, <1>6 DEF Onward, Splices, Carries

LEMMA InterruptCalls ==
  ASSUME TypeInv, Interrupt
  PROVE  /\ todo # <<>> /\ IsEvent(todo[1]) /\ todo[1].op = "position"
         /\ \E q : /\ Onward(q, "listen")
                   /\ \A j \in 1 .. Len(q) : j < Len(q) => IsHold(q[j])
                   /\ (\A i \in Retro(todo[1].key) : Conf(i).hwu) => Len(q) = 1
                   /\ (\A s, t \in Waiting : s = t) => Len(q) <= 2
  <1> DEFINE S == {i \in Retro(Head(todo).key) : ~Conf(i).hwu}
             q1 == ForEach(S, HoldDown)
             x == [Head(todo) EXCEPT !.op = "listen"]
             q == q1 \o <<x>>
  <1>1. todo # <<>> /\ Head(todo) = todo[1] /\ todo[1].op = "position" /\ IsEvent(todo[1])
    BY Heads DEF Interrupt, Quiet, IsEvent, Moving
  <1>2. todo' = q1 \o <<x>> \o Tail(todo)
    BY DEF Interrupt
  <1>3. S \subseteq Waiting /\ S \subseteq InUse /\ S \subseteq Slot /\ Slot \subseteq Nat
    BY DEF Retro, Waiting, InUse, Slot
  <1>4. IsFiniteSet(Slot) /\ IsFiniteSet(S)
    <2>0. setup \in Setups
      BY DEF TypeInv, TypeOK
    <2>1. IsFiniteSet(Slot)
      BY <2>0, Boards, FS_Interval
    <2> QED
      BY <1>3, <2>1, FS_Subset
  <1> HIDE DEF S
  <1>5. /\ Cardinality(S) \in Nat
        /\ \A n \in 1 .. Cardinality(S) : Nth(S, n) \in S
    BY <1>3, <1>4, NthMember
  <1>6. PICK c \in Nat : c = Cardinality(S)
    BY <1>5
  <1>7. /\ q1 = [n \in 1 .. c |-> HoldDown(Nth(S, n))]
        /\ \A n \in 1 .. c : Nth(S, n) \in InUse
    BY <1>3, <1>5, <1>6 DEF ForEach
  <1>8. \A n \in 1 .. c : HoldDown(Nth(S, n)) \in Call /\ Light(HoldDown(Nth(S, n)))
                          /\ IsHold(HoldDown(Nth(S, n)))
    BY <1>7, Bindings DEF TypeInv
  <1>9. q1 \in Seq(Call) /\ Len(q1) = c
    BY <1>7, <1>8
  <1>10. x \in Call
    BY <1>1, Heads, CallKinds, Renamed DEF Moving
  <1>11. \A n \in 1 .. c : q1[n] = HoldDown(Nth(S, n))
    BY <1>7
  <1> HIDE DEF q1, x
  <1>12. /\ q \in Seq(Call) /\ Len(q) = c + 1 /\ q[c + 1] = x
         /\ \A n \in 1 .. c : q[n] = q1[n]
    BY <1>9, <1>10
  <1>13. todo' = q \o Tail(todo)
    <2>1. Tail(todo) \in Seq(Call) /\ <<x>> \in Seq(Call)
      BY <1>1, <1>10, Heads
    <2> QED
      BY <1>2, <1>9, <2>1
  <1> HIDE DEF q
  <1>14. \A j \in 1 .. Len(q) : j < Len(q) => IsHold(q[j]) /\ Light(q[j])
    BY <1>8, <1>11, <1>12
  <1>15. "listen" \in Moving /\ q[Len(q)] = [todo[1] EXCEPT !.op = "listen"] /\ Len(q) > 0
    BY <1>1, <1>12 DEF Moving, x
  <1>16. Onward(q, "listen")
    BY <1>1, <1>12, <1>13, <1>14, <1>15, OnwardIs
  <1>17. ASSUME \A i \in Retro(todo[1].key) : Conf(i).hwu PROVE Len(q) = 1
    <2>1. S = {}
      BY <1>1, <1>17 DEF S
    <2> QED
      BY <1>6, <1>12, <2>1, FS_EmptySet
  <1>18. ASSUME \A s, t \in Waiting : s = t PROVE Len(q) <= 2
    <2>1. CASE S = {}
      BY <1>6, <1>12, <2>1, FS_EmptySet
    <2>2. CASE S # {}
      <3>1. PICK s \in S : TRUE
        BY <2>2
      <3>2. S = {s}
        BY <1>3, <1>18, <3>1
      <3>3. c = 1
        BY <1>6, <3>2, FS_Singleton
      <3> QED
        BY <1>12, <3>3
    <2> QED
      BY <2>1, <2>2
  <1> QED
    BY <1>1, <1>14, <1>16, <1>17, <1>18

LEMMA ListenCalls ==
  ASSUME TypeInv, Listen
  PROVE  /\ todo # <<>> /\ IsEvent(todo[1]) /\ todo[1].op = "listen"
         /\ \E q, o : /\ Onward(q, o)
                      /\ \/ /\ o = "keymap" /\ Len(q) = 1
                            /\ undecided = 0 \/ slots[undecided].key = todo[1].key
                         \/ o = "capture" /\ Len(q) = 1 /\ undecided # 0
                         \/ o = "capture" /\ Len(q) = 2 /\ undecided # 0 /\ q[1] = Decide(undecided, "timer")
  <1> DEFINE x(o) == [todo[1] EXCEPT !.op = o]
  <1>1. todo # <<>> /\ Head(todo) = todo[1] /\ todo[1].op = "listen" /\ IsEvent(todo[1])
    BY Heads DEF Listen, Quiet, IsEvent, Moving
  <1>2. Tail(todo) \in Seq(Call)
    BY <1>1, Heads
  <1>3. "keymap" \in Moving /\ "capture" \in Moving
    BY DEF Moving
  <1>4. todo[1] \in PositionEvent(Moving)
    BY <1>1, Heads, CallKinds
  <1>5. ASSUME NEW o, o \in Moving PROVE x(o) \in Call
    BY <1>4, <1>5, Renamed
  <1> HIDE DEF x
  <1>6. ASSUME NEW o, o \in Moving, todo' = <<x(o)>> \o Tail(todo)
        PROVE  Onward(<<x(o)>>, o) /\ Len(<<x(o)>>) = 1
    <2>1. PICK q : q = <<x(o)>>
      OBVIOUS
    <2>2. q \in Seq(Call) /\ Len(q) = 1 /\ q[1] = x(o)
      BY <1>5, <1>6, <2>1
    <2>3. q[Len(q)] = [todo[1] EXCEPT !.op = o] /\ \A j \in 1 .. Len(q) : ~(j < Len(q))
      BY <2>2 DEF x
    <2> QED
      BY <1>1, <1>6, <2>1, <2>2, <2>3, OnwardIs
  <1>7. CASE undecided = 0
    <2>1. todo' = <<x("keymap")>> \o Tail(todo)
      BY <1>1, <1>7 DEF Listen, x
    <2> QED
      BY <1>1, <1>3, <1>6, <1>7, <2>1
  <1>8. CASE undecided # 0 /\ slots[undecided].key = todo[1].key
    <2>1. todo' = <<x("keymap")>> \o Tail(todo)
      BY <1>1, <1>8 DEF Listen, x
    <2> QED
      BY <1>1, <1>3, <1>6, <1>8, <2>1
  <1>9. CASE undecided # 0 /\ slots[undecided].key # todo[1].key
    <2>1. PICK d : d = Decide(undecided, "timer")
      OBVIOUS
    <2>2. todo' = (IF TimedOut(undecided, todo[1]) THEN <<d>> ELSE <<>>)
                     \o <<x("capture")>> \o Tail(todo)
      BY <1>1, <1>9, <2>1 DEF Listen, x
    <2>3. d \in Call /\ Light(d)
      BY <1>9, <2>1, Decisions DEF TypeInv, TypeOK
    <2>4. CASE TimedOut(undecided, todo[1])
      <3>1. PICK q : q = <<d, x("capture")>>
        OBVIOUS
      <3>2. q \in Seq(Call) /\ Len(q) = 2 /\ q[1] = d /\ q[2] = x("capture")
        BY <1>3, <1>5, <2>3, <3>1
      <3>3. todo' = q \o Tail(todo)
        <4>1. PICK c : c = x("capture") /\ c \in Call
          BY <1>3, <1>5
        <4>2. PICK t \in Seq(Call) : t = Tail(todo)
          BY <1>2
        <4>3. (<<d>> \o <<c>>) \o t = <<d, c>> \o t
          BY <2>3, <4>1, <4>2
        <4> QED
          BY <2>2, <2>4, <3>1, <4>1, <4>2, <4>3
      <3>4. q[Len(q)] = [todo[1] EXCEPT !.op = "capture"] /\ \A j \in 1 .. Len(q) : j < Len(q) => Light(q[j])
        BY <2>3, <3>2 DEF x
      <3>5. Onward(q, "capture")
        <4>1. Len(q) > 0
          BY <3>2
        <4> QED
          BY <1>1, <1>3, <3>2, <3>3, <3>4, <4>1, OnwardIs
      <3> QED
        BY <1>1, <1>9, <2>1, <3>2, <3>5
    <2>5. CASE ~TimedOut(undecided, todo[1])
      <3>1. todo' = <<x("capture")>> \o Tail(todo)
        <4>1. PICK c : c = x("capture") /\ c \in Call
          BY <1>3, <1>5
        <4>2. PICK t \in Seq(Call) : t = Tail(todo)
          BY <1>2
        <4>3. (<<>> \o <<c>>) \o t = <<c>> \o t
          BY <4>1, <4>2
        <4> QED
          BY <2>2, <2>5, <4>1, <4>2, <4>3
      <3> QED
        BY <1>1, <1>3, <1>6, <1>9, <3>1
    <2> QED
      BY <2>4, <2>5
  <1> QED
    BY <1>7, <1>8, <1>9

LEMMA CaptureCalls ==
  ASSUME TypeInv, Capture
  PROVE  /\ todo # <<>> /\ IsEvent(todo[1]) /\ todo[1].op = "capture"
         /\ \/ /\ undecided = 0 \/ Bubbles(todo[1])
               /\ UNCHANGED <<captured, faults>>
               /\ \E q : Onward(q, "keymap") /\ Len(q) = 1
            \/ /\ undecided # 0 /\ ~Bubbles(todo[1])
               /\ Capturing([todo[1] EXCEPT !.op = "position"])
               /\ \E q : /\ Splices(q) /\ Lights(q) /\ Len(q) = 1
                         /\ ~IsKeycode(q[1]) /\ ~ByTimer(q[1])
  <1>1. todo # <<>> /\ Head(todo) = todo[1] /\ todo[1].op = "capture" /\ IsEvent(todo[1])
    BY Heads DEF Capture, Quiet, IsEvent, Moving
  <1>2. CASE undecided = 0 \/ Bubbles(todo[1])
    <2>1. PICK x : x = [todo[1] EXCEPT !.op = "keymap"]
      OBVIOUS
    <2>2. todo' = <<x>> \o Tail(todo) /\ UNCHANGED <<captured, faults>>
      BY <1>1, <1>2, <2>1 DEF Capture
    <2>3. x \in Call
      BY <1>1, <2>1, Heads, CallKinds, Renamed DEF Moving
    <2>4. PICK q : q = <<x>>
      OBVIOUS
    <2>5. /\ q \in Seq(Call) /\ Len(q) = 1 /\ q[Len(q)] = [todo[1] EXCEPT !.op = "keymap"]
          /\ \A j \in 1 .. Len(q) : ~(j < Len(q))
      BY <2>1, <2>3, <2>4
    <2>6. "keymap" \in Moving /\ Len(q) > 0
      BY <2>5 DEF Moving
    <2>7. Onward(q, "keymap")
      BY <1>1, <2>2, <2>4, <2>5, <2>6, OnwardIs
    <2> QED
      BY <1>1, <1>2, <2>2, <2>5, <2>7
  <1>3. CASE ~(undecided = 0 \/ Bubbles(todo[1]))
    <2>1. PICK m \in {"other-down", "other-up"} : m = IF todo[1].down THEN "other-down" ELSE "other-up"
      OBVIOUS
    <2>2. PICK d : d = Decide(undecided, m)
      OBVIOUS
    <2>3. d \in Call /\ Light(d) /\ ~IsKeycode(d) /\ ~ByTimer(d)
      BY <1>3, <2>2, Decisions DEF TypeInv, TypeOK
    <2>4. todo' = <<d>> \o Tail(todo) /\ Capturing([todo[1] EXCEPT !.op = "position"])
      BY <1>1, <1>3, <2>1, <2>2 DEF Capture
    <2>5. PICK q : q = <<d>>
      OBVIOUS
    <2>6. q \in Seq(Call) /\ Len(q) = 1 /\ q[1] = d /\ todo' = q \o Tail(todo)
      BY <2>3, <2>4, <2>5
    <2>7. Splices(q) /\ Lights(q)
      BY <1>1, <2>3, <2>6 DEF Splices, Lights
    <2> QED
      BY <1>1, <1>3, <2>3, <2>4, <2>6, <2>7
  <1> QED
    BY <1>2, <1>3

\* One that goes leaves nothing.
LEMMA Gone ==
  ASSUME TypeInv, todo # <<>>, todo' = Tail(todo)
  PROVE  Splices(<<>>) /\ Lights(<<>>) /\ Len(<<>>) = 0
  <1>1. Tail(todo) \in Seq(Call)
    BY Heads
  <1>2. PICK c \in Seq(Call) : c = <<>>
    BY EmptySeq
  <1>3. PICK t \in Seq(Call) : t = Tail(todo)
    BY <1>1
  <1>4. c \o t = t /\ Len(c) = 0
    BY <1>2
  <1>5. Splices(c)
    BY <1>3, <1>4 DEF Splices
  <1>6. Lights(c)
    BY <1>4 DEF Lights
  <1> QED
    BY <1>2, <1>4, <1>5, <1>6

\* One call, or two, or three, in place of the first.
LEMMA Instead ==
  ASSUME TypeInv, todo # <<>>, NEW a \in Call, NEW b \in Call, NEW c \in Call
  PROVE  /\ todo' = <<a>> \o Tail(todo) => Splices(<<a>>)
         /\ Len(<<a>>) = 1 /\ <<a>>[1] = a
         /\ todo' = <<a, b>> \o Tail(todo) => Splices(<<a, b>>)
         /\ Len(<<a, b>>) = 2 /\ <<a, b>>[1] = a /\ <<a, b>>[2] = b
         /\ todo' = <<a, b, c>> \o Tail(todo) => Splices(<<a, b, c>>)
         /\ Len(<<a, b, c>>) = 3 /\ <<a, b, c>>[1] = a /\ <<a, b, c>>[2] = b /\ <<a, b, c>>[3] = c
         /\ todo' = (<<a>> \o <<b>>) \o Tail(todo) => Splices(<<a, b>>)
         /\ todo' = (<<>> \o <<a>>) \o Tail(todo) => Splices(<<a>>)
         /\ todo' = (<<>> \o <<a, b>>) \o Tail(todo) => Splices(<<a, b>>)
         /\ todo' = (<<a>> \o <<b, c>>) \o Tail(todo) => Splices(<<a, b, c>>)
  <1>0. Tail(todo) \in Seq(Call)
    BY Heads
  <1>1. PICK t \in Seq(Call) : t = Tail(todo)
    BY <1>0
  <1>2. /\ <<a>> \in Seq(Call) /\ <<a, b>> \in Seq(Call) /\ <<a, b, c>> \in Seq(Call)
        /\ <<b>> \in Seq(Call) /\ <<b, c>> \in Seq(Call)
    OBVIOUS
  <1>3. (<<a>> \o <<b>>) \o t = <<a, b>> \o t
    <2>1. PICK x : x = <<a>>
      OBVIOUS
    <2>2. PICK y : y = <<b>>
      OBVIOUS
    <2>3. PICK z : z = <<a, b>>
      OBVIOUS
    <2>4. /\ x \in Seq(Call) /\ Len(x) = 1 /\ x[1] = a /\ y \in Seq(Call) /\ Len(y) = 1 /\ y[1] = b
          /\ z \in Seq(Call) /\ Len(z) = 2 /\ z[1] = a /\ z[2] = b
      BY <2>1, <2>2, <2>3
    <2>5. PICK w : w = x \o y
      OBVIOUS
    <2>6. /\ w \in Seq(Call) /\ Len(w) = Len(x) + Len(y)
          /\ \A i \in 1 .. Len(x) + Len(y) : w[i] = IF i <= Len(x) THEN x[i] ELSE y[i - Len(x)]
      BY ONLY <2>4, <2>5, ConcatProperties
    <2>7. Len(w) = 2 /\ w[1] = a /\ w[2] = b
      BY ONLY <2>4, <2>6
    <2>8. w = z
      BY ONLY <2>4, <2>6, <2>7, SeqEqual
    <2> QED
      BY <2>1, <2>2, <2>3, <2>5, <2>8
  <1>4. (<<a>> \o <<b, c>>) \o t = <<a, b, c>> \o t
    OBVIOUS
  <1>5. <<>> \o <<a>> = <<a>>
    OBVIOUS
  <1>6. <<>> \o <<a, b>> = <<a, b>>
    OBVIOUS
  <1> QED
    BY <1>1, <1>2, <1>3, <1>4, <1>5, <1>6 DEF Splices

LEMMA DecideNothingCalls ==
  ASSUME TypeInv, DecideNothing
  PROVE  /\ todo # <<>> /\ Light(todo[1]) /\ ~IsKeycode(todo[1])
         /\ ~(undecided # 0 /\ todo[1] = Decide(undecided, "key-up"))
         /\ \E q : /\ Splices(q) /\ Lights(q)
                   /\ \/ Len(q) = 0
                      \/ Len(q) = 1 /\ IsKeycode(q[1]) /\ undecided # 0 /\ Conf(undecided).hwu
  <1> DEFINE d == todo[1]
  <1>1. todo # <<>> /\ Head(todo) = d /\ d \in Call /\ d.op = "decide" /\ Light(d) /\ ~IsKeycode(d)
    BY Heads DEF DecideNothing, Quiet, Light, IsKeycode
  <1>2. ASSUME undecided # 0, d = Decide(undecided, "key-up") PROVE FALSE
    <2>1. d.slot = undecided /\ d.moment = "key-up"
      BY <1>2 DEF Decide
    <2>2. Open(d.slot)
      BY <1>2, <2>1, Slots DEF Open, TypeInv
    <2>3. ~Holds(d.slot, d.moment)
      BY <2>1 DEF Holds
    <2>4. Verdict(Conf(d.slot).flavor, d.moment) = "tap"
      BY <2>1 DEF Verdict
    <2> QED
      BY <1>1, <2>2, <2>3, <2>4 DEF DecideNothing
  <1>3. CASE todo' = Tail(todo)
    BY <1>1, <1>2, <1>3, Gone
  <1>4. CASE Open(d.slot) /\ Holds(d.slot, d.moment) /\ todo' = <<HoldDown(d.slot)>> \o Tail(todo)
    <2>1. d.slot = undecided /\ undecided # 0 /\ Conf(undecided).hwu /\ undecided \in InUse
      <3>1. d \in DecideCall
        BY <1>1, CallKinds
      <3> QED
        BY <1>4, <3>1, Boards, Slots DEF Open, Holds, DecideCall, Slot, TypeInv, TypeOK
    <2>2. PICK h : h = HoldDown(d.slot)
      OBVIOUS
    <2>3. h \in Call /\ IsKeycode(h) /\ Light(h)
      BY <2>1, <2>2, Bindings DEF TypeInv
    <2>4. PICK q : q = <<h>>
      OBVIOUS
    <2>5. Splices(q) /\ Len(q) = 1 /\ q[1] = h
      BY <1>1, <1>4, <2>2, <2>3, <2>4, Instead
    <2>6. Lights(q)
      BY <2>3, <2>5 DEF Lights
    <2> QED
      BY <1>1, <1>2, <2>1, <2>3, <2>5, <2>6
  <1> QED
    BY <1>1, <1>3, <1>4 DEF DecideNothing

\* What a press becomes: no more than one hold and one tap keycode.
LEMMA Presses ==
  ASSUME TypeOK, NEW i \in InUse, NEW status
  PROVE  /\ PressBinding(i, status) \in Seq(Call)
         /\ \A j \in 1 .. Len(PressBinding(i, status)) : IsKeycode(PressBinding(i, status)[j])
  <1>1. PICK a : a = HoldDown(i)
    OBVIOUS
  <1>2. PICK b : b = HoldUp(i)
    OBVIOUS
  <1>3. PICK c : c = TapDown(i)
    OBVIOUS
  <1>4. a \in Call /\ b \in Call /\ c \in Call /\ IsKeycode(a) /\ IsKeycode(b) /\ IsKeycode(c)
    BY <1>1, <1>2, <1>3, Bindings
  <1>5. PICK q : q = PressBinding(i, status)
    OBVIOUS
  <1>6. \/ q = <<>> \/ q = <<a>> \/ q = <<b>> \o <<c>> \/ q = <<>> \o <<c>>
    BY <1>1, <1>2, <1>3, <1>5 DEF PressBinding
  <1>7. q = <<>> => q \in Seq(Call) /\ Len(q) = 0
    BY EmptySeq
  <1>8. q = <<a>> => q \in Seq(Call) /\ Len(q) = 1 /\ q[1] = a
    BY <1>4
  <1>9. q = <<b>> \o <<c>> => q \in Seq(Call) /\ Len(q) = 2 /\ q[1] = b /\ q[2] = c
    <2>1. PICK x : x = <<b>>
      OBVIOUS
    <2>2. PICK y : y = <<c>>
      OBVIOUS
    <2>3. /\ x \in Seq(Call) /\ Len(x) = 1 /\ x[1] = b /\ y \in Seq(Call) /\ Len(y) = 1 /\ y[1] = c
      BY <1>4, <2>1, <2>2
    <2>4. PICK w : w = x \o y
      OBVIOUS
    <2>5. /\ w \in Seq(Call) /\ Len(w) = Len(x) + Len(y)
          /\ \A l \in 1 .. Len(x) + Len(y) : w[l] = IF l <= Len(x) THEN x[l] ELSE y[l - Len(x)]
      BY ONLY <2>3, <2>4, ConcatProperties
    <2>6. Len(w) = 2 /\ w[1] = b /\ w[2] = c
      BY ONLY <2>3, <2>5
    <2> QED
      BY <2>1, <2>2, <2>4, <2>5, <2>6
  <1>10. q = <<>> \o <<c>> => q \in Seq(Call) /\ Len(q) = 1 /\ q[1] = c
    BY <1>4
  <1>11. q \in Seq(Call) /\ \A j \in 1 .. Len(q) : IsKeycode(q[j])
    <2>1. CASE q = <<>>
      BY <1>7, <2>1
    <2>2. CASE q = <<a>>
      BY <1>4, <1>8, <2>2
    <2>3. CASE q = <<b>> \o <<c>>
      BY <1>4, <1>9, <2>3
    <2>4. CASE q = <<>> \o <<c>>
      BY <1>4, <1>10, <2>4
    <2> QED
      BY <1>6, <2>1, <2>2, <2>3, <2>4
  <1> QED
    BY <1>5, <1>11

LEMMA DecideFinallyCalls ==
  ASSUME TypeInv, DecideFinally
  PROVE  /\ todo # <<>> /\ Light(todo[1]) /\ ~IsKeycode(todo[1]) /\ undecided # 0
         /\ todo[1].op = "decide" /\ todo[1].slot = undecided /\ undecided' = 0
         /\ \E st \in {"tap", "interrupt", "timer"} :
              /\ slots' = [slots EXCEPT ![undecided].status = st]
              /\ st = "timer" => ByTimer(todo[1])
         /\ \E q : /\ Splices(q) /\ Len(q) > 0 /\ q[Len(q)] = Replay(1)
                   /\ \A j \in 1 .. Len(q) : j < Len(q) => IsKeycode(q[j])
  <1> DEFINE d == todo[1]
             v == Verdict(Conf(undecided).flavor, d.moment)
             st == Positional(undecided, v)
  <1>1. todo # <<>> /\ Head(todo) = d /\ d \in Call /\ d.op = "decide" /\ Light(d) /\ ~IsKeycode(d)
    BY Heads DEF DecideFinally, Quiet, Light, IsKeycode
  <1>2. d \in DecideCall
    BY <1>1, CallKinds
  <1>3. d.slot = undecided /\ undecided # 0 /\ undecided \in InUse
    <2>1. d.slot \in Slot
      BY <1>2 DEF DecideCall
    <2>2. d.slot = undecided
      BY <1>1 DEF DecideFinally, Open
    <2>3. 0 \notin Slot
      BY DEF Slot
    <2> QED
      BY <2>1, <2>2, <2>3, Slots DEF TypeInv
  <1>4. v # "undecided" /\ slots' = [slots EXCEPT ![undecided].status = st] /\ undecided' = 0
    BY <1>1, <1>3 DEF DecideFinally
  <1>5. v \in {"tap", "interrupt", "timer"} /\ (v = "timer" => d.moment = "timer")
    BY <1>4 DEF Verdict
  <1>6. st \in {"tap", "interrupt", "timer"} /\ (st = "timer" => ByTimer(d))
    BY <1>1, <1>5 DEF Positional, ByTimer
  <1>7. PICK p : p = PressBinding(undecided, st)
    OBVIOUS
  <1>8. PICK r : r = Replay(1)
    OBVIOUS
  <1>9. todo' = (p \o <<r>>) \o Tail(todo)
    <2>0. Head(todo).slot = undecided /\ Head(todo) = d
      BY <1>1, <1>3
    <2>1. todo' = AfterDecision(undecided, st) \o Tail(todo)
      BY ONLY <2>0, DecideFinally, Zenon DEF DecideFinally
    <2> HIDE DEF v, st
    <2> QED
      BY ONLY <1>7, <1>8, <2>1 DEF AfterDecision
  <1>10. p \in Seq(Call) /\ \A j \in 1 .. Len(p) : IsKeycode(p[j])
    BY <1>3, <1>7, Presses DEF TypeInv
  <1>11. r \in Call
    <2>1. MaxCaptured \in Nat /\ 1 \in 1 .. MaxCaptured + 1
      BY Boards DEF TypeInv, TypeOK
    <2> QED
      BY <1>8, <2>1, Others
  <1>12. PICK q : q = p \o <<r>>
    OBVIOUS
  <1>13. q \in Seq(Call) /\ Len(q) = Len(p) + 1 /\ q[Len(p) + 1] = r /\ Len(p) \in Nat
         /\ \A j \in 1 .. Len(p) : q[j] = p[j]
    BY <1>10, <1>11, <1>12
  <1>14. Splices(q)
    BY <1>1, <1>9, <1>12, <1>13 DEF Splices
  <1>15. \A j \in 1 .. Len(q) : j < Len(q) => IsKeycode(q[j])
    BY <1>10, <1>13
  <1>16. Len(q) > 0 /\ q[Len(q)] = Replay(1)
    BY <1>8, <1>13
  <1> HIDE DEF v, st
  <1> QED
    BY <1>1, <1>3, <1>4, <1>6, <1>14, <1>15, <1>16

LEMMA ReplayCalls ==
  ASSUME TypeInv, ReplayNext
  PROVE  /\ todo # <<>> /\ IsReplay(todo[1]) /\ ~IsKeycode(todo[1])
         /\ todo[1].from \in 1 .. MaxCaptured + 1
         /\ \/ /\ (todo[1].from = 1 /\ undecided # 0) \/ todo[1].from > MaxCaptured
                  \/ captured[todo[1].from] = None
               /\ captured' = captured
               /\ \E q : Splices(q) /\ Lights(q) /\ Len(q) = 0
            \/ /\ ~(todo[1].from = 1 /\ undecided # 0) /\ todo[1].from \in Places
               /\ captured[todo[1].from] # None
               /\ captured' = [captured EXCEPT ![todo[1].from] = None]
               /\ \E q : /\ Splices(q) /\ Len(q) = 2
                         /\ q[1] = captured[todo[1].from] /\ q[2] = Replay(todo[1].from + 1)
  <1> DEFINE d == todo[1]
             n == todo[1].from
  <1>1. todo # <<>> /\ Head(todo) = d /\ d \in Call /\ IsReplay(d) /\ ~IsKeycode(d)
    BY Heads DEF ReplayNext, Quiet, IsReplay, IsKeycode
  <1>2. n \in 1 .. MaxCaptured + 1 /\ MaxCaptured \in Nat
    BY <1>1, CallKinds, Boards DEF ReplayCall, TypeInv, TypeOK
  <1>3. CASE (n = 1 /\ undecided # 0) \/ n > MaxCaptured \/ captured[n] = None
    <2>1. todo' = Tail(todo) /\ captured' = captured
      BY <1>1, <1>3 DEF ReplayNext
    <2> QED
      BY <1>1, <1>2, <1>3, <2>1, Gone
  <1>4. CASE ~((n = 1 /\ undecided # 0) \/ n > MaxCaptured \/ captured[n] = None)
    <2>1. PICK a : a = captured[n]
      OBVIOUS
    <2>2. PICK b : b = Replay(n + 1)
      OBVIOUS
    <2>3. captured' = [captured EXCEPT ![n] = None] /\ todo' = <<a, b>> \o Tail(todo)
      BY <1>1, <1>4, <2>1, <2>2 DEF ReplayNext, ReplayFrom
    <2>4. n \in 1 .. MaxCaptured /\ n + 1 \in 1 .. MaxCaptured + 1
      BY <1>2, <1>4
    <2>5. a \in PositionEvent({"position"}) \cup KeycodeEvent
      BY <1>4, <2>1, <2>4 DEF TypeInv, TypeOK
    <2>6. a \in Call
      BY <2>5 DEF Call, PositionEvent, Moving
    <2>7. b \in Call
      BY <1>2, <2>2, <2>4, Others
    <2>8. PICK q : q = <<a, b>>
      OBVIOUS
    <2>9. Splices(q) /\ Len(q) = 2 /\ q[1] = a /\ q[2] = b
      BY <1>1, <2>3, <2>6, <2>7, <2>8, Instead
    <2> QED
      BY <1>1, <1>2, <1>4, <2>1, <2>2, <2>3, <2>4, <2>9 DEF Places
  <1> QED
    BY <1>3, <1>4

\* The first of some numbers.
LEMMA LeastOne ==
  ASSUME NEW T \in SUBSET Nat, T # {}
  PROVE  /\ \E n \in T : \A k \in T : n <= k
         /\ Min(T) \in T /\ \A k \in T : Min(T) <= k
  <1> DEFINE R == OpToRel(<, Nat)
  <1>1. IsWellFoundedOn(R, Nat)
    BY NatLessThanWellFounded, Zenon
  <1>2. \A n, k \in Nat : n < k => <<n, k>> \in R
    BY DEF OpToRel
  <1> HIDE DEF R
  <1>3. PICK n \in T : \A k \in T : ~(<<k, n>> \in R)
    BY <1>1, WFMin
  <1>4. ASSUME NEW k \in T PROVE n <= k
    <2>1. n \in Nat /\ k \in Nat /\ ~(<<k, n>> \in R)
      BY <1>3
    <2>2. ~(k < n)
      BY <1>2, <2>1
    <2> QED
      BY <2>1, <2>2
  <1> QED
    BY <1>4 DEF Min

\* The keymap has the event.
AtKeymap == todo # <<>> /\ IsEvent(todo[1]) /\ todo[1].op = "keymap"

LEMMA PlainKeyCalls ==
  ASSUME TypeInv, PlainKey
  PROVE  /\ AtKeymap /\ todo[1].key \notin HoldTap /\ Delivered(todo[1])
         /\ \E q : Splices(q) /\ Lights(q) /\ Len(q) = 1 /\ IsKeycode(q[1]) /\ ~IsHold(q[1])
  <1>1. todo # <<>> /\ Head(todo) = todo[1] /\ todo[1].op = "keymap" /\ IsEvent(todo[1])
        /\ todo[1] \in Call
    BY Heads DEF PlainKey, Quiet, IsEvent, Moving
  <1>2. PICK e : e = todo[1]
    OBVIOUS
  <1>3. e \in PositionEvent(Moving)
    BY <1>1, <1>2, CallKinds
  <1>4. PICK a : a = Keycode(e.key, "plain", e.down, e.time)
    OBVIOUS
  <1>5. a \in Call /\ IsKeycode(a) /\ Light(a) /\ ~IsHold(a)
    BY <1>3, <1>4 DEF PositionEvent, Call, KeycodeEvent, Keycode, IsKeycode, Light, IsHold, IsMod
  <1>6. todo' = <<a>> \o Tail(todo) /\ Delivered(e) /\ e.key \notin HoldTap
    BY <1>1, <1>2, <1>4 DEF PlainKey
  <1>7. PICK q : q = <<a>>
    OBVIOUS
  <1>8. Splices(q) /\ Len(q) = 1 /\ q[1] = a
    BY <1>1, <1>5, <1>6, <1>7, Instead
  <1>9. Lights(q)
    BY <1>5, <1>8 DEF Lights
  <1> QED
    BY <1>1, <1>2, <1>5, <1>6, <1>8, <1>9 DEF AtKeymap

LEMMA BindingPressedCalls ==
  ASSUME TypeInv, BindingPressed
  PROVE  /\ AtKeymap /\ todo[1].key \in HoldTap /\ todo[1].down /\ Delivered(todo[1])
         /\ \/ /\ slots' = slots /\ undecided' = undecided
               /\ \E q : Splices(q) /\ Lights(q) /\ Len(q) = 0
            \/ /\ undecided = 0
               /\ \E i \in Slot \ InUse :
                    /\ slots' = [slots EXCEPT ![i] = [Free EXCEPT !.key = todo[1].key, !.time = todo[1].time]]
                    /\ undecided' = i
               /\ \E q : /\ Splices(q) /\ Lights(q)
                         /\ \A j \in 1 .. Len(q) : ~IsKeycode(q[j]) /\ ~ByTimer(q[j])
  <1>1. todo # <<>> /\ Head(todo) = todo[1] /\ todo[1].op = "keymap" /\ IsEvent(todo[1])
        /\ todo[1] \in Call
    BY Heads DEF BindingPressed, Quiet, IsEvent, Moving
  <1>2. todo[1].key \in HoldTap /\ todo[1].down /\ Delivered(todo[1])
    BY <1>1 DEF BindingPressed
  <1>3. CASE Ignored
    <2>1. todo' = Tail(todo) /\ slots' = slots /\ undecided' = undecided
      BY <1>3 DEF BindingPressed
    <2> QED
      BY <1>1, <1>2, <2>1, Gone DEF AtKeymap
  <1>4. CASE ~Ignored
    <2> DEFINE i == Min(Slot \ InUse)
    <2>1. undecided = 0 /\ InUse # Slot
      BY <1>4 DEF Ignored
    <2>2. i \in Slot \ InUse
      <3>1. PICK S : S = Slot \ InUse
        OBVIOUS
      <3>2. S # {} /\ S \subseteq Nat
        BY <2>1, <3>1 DEF InUse, Slot
      <3> QED
        BY <3>1, <3>2, LeastOne
    <2> HIDE DEF i
    <2>3. /\ slots' = [slots EXCEPT ![i] = [Free EXCEPT !.key = todo[1].key, !.time = todo[1].time]]
          /\ undecided' = i
      BY <1>1, <1>4 DEF BindingPressed, i
    <2>4. PICK a : a = Decide(i, "quick")
      OBVIOUS
    <2>5. PICK b : b = Decide(i, "key-down")
      OBVIOUS
    <2>6. PICK c : c = Schedule(i)
      OBVIOUS
    <2>7. MaxCaptured \in Nat
      BY Boards DEF TypeInv, TypeOK
    <2>8. /\ a \in Call /\ Light(a) /\ ~IsKeycode(a) /\ ~ByTimer(a)
          /\ b \in Call /\ Light(b) /\ ~IsKeycode(b) /\ ~ByTimer(b)
          /\ c \in Call /\ Light(c) /\ ~IsKeycode(c) /\ ~ByTimer(c)
      BY <2>2, <2>4, <2>5, <2>6, <2>7, Decisions, Others
    <2>9. todo' = ((IF QuickTap(todo[1].key, todo[1].time) THEN <<a>> ELSE <<>>) \o <<b, c>>) \o Tail(todo)
      <3>1. PICK t \in Seq(Call) : t = Tail(todo)
        <4>1. Tail(todo) \in Seq(Call)
          BY <1>1, Heads
        <4> QED
          BY <4>1
      <3>2. todo' = ((IF QuickTap(todo[1].key, todo[1].time) THEN <<a>> ELSE <<>>) \o <<b, c>>) \o t
        BY <1>1, <1>4, <2>4, <2>5, <2>6, <3>1 DEF BindingPressed, i
      <3> QED
        BY <3>1, <3>2
    <2>10. CASE QuickTap(todo[1].key, todo[1].time)
      <3>1. PICK q : q = <<a, b, c>>
        OBVIOUS
      <3>2. Splices(q) /\ Len(q) = 3 /\ q[1] = a /\ q[2] = b /\ q[3] = c
        BY <1>1, <2>8, <2>9, <2>10, <3>1, Instead
      <3>3. \A j \in 1 .. Len(q) : Light(q[j]) /\ ~IsKeycode(q[j]) /\ ~ByTimer(q[j])
        BY <2>8, <3>2
      <3> QED
        BY <1>1, <1>2, <2>1, <2>2, <2>3, <3>2, <3>3 DEF AtKeymap, Lights
    <2>11. CASE ~QuickTap(todo[1].key, todo[1].time)
      <3>1. PICK q : q = <<b, c>>
        OBVIOUS
      <3>2. Splices(q) /\ Len(q) = 2 /\ q[1] = b /\ q[2] = c
        BY <1>1, <2>8, <2>9, <2>11, <3>1, Instead
      <3>3. \A j \in 1 .. Len(q) : Light(q[j]) /\ ~IsKeycode(q[j]) /\ ~ByTimer(q[j])
        BY <2>8, <3>2
      <3> QED
        BY <1>1, <1>2, <2>1, <2>2, <2>3, <3>2, <3>3 DEF AtKeymap, Lights
    <2> QED
      BY <2>10, <2>11
  <1> QED
    BY <1>3, <1>4

LEMMA StartTimerCalls ==
  ASSUME TypeInv, StartTimer
  PROVE  /\ todo # <<>> /\ Light(todo[1]) /\ todo[1].op = "schedule" /\ todo[1].slot \in Slot
         /\ \E q : Splices(q) /\ Lights(q) /\ Len(q) = 0
  <1>1. todo # <<>> /\ Head(todo) = todo[1] /\ todo[1].op = "schedule" /\ todo[1] \in Call
    BY Heads DEF StartTimer, Quiet
  <1>2. todo[1].slot \in Slot /\ Light(todo[1])
    BY <1>1, CallKinds DEF SlotCall, Light
  <1>3. todo' = Tail(todo)
    BY DEF StartTimer
  <1> QED
    BY <1>1, <1>2, <1>3, Gone

LEMMA BindingReleasedCalls ==
  ASSUME TypeInv, BindingReleased
  PROVE  /\ AtKeymap /\ todo[1].key \in HoldTap /\ ~todo[1].down /\ Delivered(todo[1])
         /\ \/ /\ Found(todo[1].key) = {}
               /\ \E q : Splices(q) /\ Lights(q) /\ Len(q) = 0
            \/ \E i \in Found(todo[1].key) : \E q :
                 /\ Splices(q) /\ Len(q) \in {2, 3} /\ q[Len(q)] = Ending(i)
                 /\ q[Len(q) - 1] = Decide(i, "key-up")
                 /\ Len(q) = 3 => q[1] = Decide(i, "timer")
                 /\ \A j \in 1 .. Len(q) : j < Len(q) => Light(q[j]) /\ ~IsKeycode(q[j])
                 /\ i \in Slot
  <1>1. todo # <<>> /\ Head(todo) = todo[1] /\ todo[1].op = "keymap" /\ IsEvent(todo[1])
        /\ todo[1] \in Call
    BY Heads DEF BindingReleased, Quiet, IsEvent, Moving
  <1>2. todo[1].key \in HoldTap /\ ~todo[1].down /\ Delivered(todo[1])
    BY <1>1 DEF BindingReleased
  <1>3. CASE Found(todo[1].key) = {}
    <2>1. todo' = Tail(todo)
      BY <1>1, <1>3 DEF BindingReleased
    <2> QED
      BY <1>1, <1>2, <1>3, <2>1, Gone DEF AtKeymap
  <1>4. CASE Found(todo[1].key) # {}
    <2> DEFINE i == Min(Found(todo[1].key))
    <2>1. i \in Found(todo[1].key) /\ i \in Slot
      <3>1. PICK S : S = Found(todo[1].key)
        OBVIOUS
      <3>2. S # {} /\ S \subseteq Slot /\ Slot \subseteq Nat
        BY <1>4, <3>1 DEF Found, InUse, Slot
      <3>3. S \in SUBSET Nat
        BY <3>2
      <3> QED
        BY <3>1, <3>2, <3>3, LeastOne
    <2> HIDE DEF i
    <2>2. PICK a : a = Decide(i, "timer")
      OBVIOUS
    <2>3. PICK b : b = Decide(i, "key-up")
      OBVIOUS
    <2>4. PICK c : c = Ending(i)
      OBVIOUS
    <2>5. MaxCaptured \in Nat
      BY Boards DEF TypeInv, TypeOK
    <2>6. /\ a \in Call /\ Light(a) /\ ~IsKeycode(a)
          /\ b \in Call /\ Light(b) /\ ~IsKeycode(b)
          /\ c \in Call
      BY <2>1, <2>2, <2>3, <2>4, <2>5, Decisions, Others
    <2>7. todo' = ((IF TimedOut(i, todo[1]) THEN <<a>> ELSE <<>>) \o <<b, c>>) \o Tail(todo)
      <3>1. PICK t \in Seq(Call) : t = Tail(todo)
        <4>1. Tail(todo) \in Seq(Call)
          BY <1>1, Heads
        <4> QED
          BY <4>1
      <3>2. todo' = ((IF TimedOut(i, todo[1]) THEN <<a>> ELSE <<>>) \o <<b, c>>) \o t
        BY <1>1, <1>4, <2>2, <2>3, <2>4, <3>1 DEF BindingReleased, i
      <3> QED
        BY <3>1, <3>2
    <2>8. CASE TimedOut(i, todo[1])
      <3>1. PICK q : q = <<a, b, c>>
        OBVIOUS
      <3>2. Splices(q) /\ Len(q) = 3 /\ q[1] = a /\ q[2] = b /\ q[3] = c
        BY <1>1, <2>6, <2>7, <2>8, <3>1, Instead
      <3>3. \A j \in 1 .. Len(q) : j < Len(q) => Light(q[j]) /\ ~IsKeycode(q[j])
        BY <2>6, <3>2
      <3>4. q[Len(q)] = c /\ q[Len(q) - 1] = b
        BY <3>2
      <3> QED
        BY <1>1, <1>2, <2>1, <2>2, <2>3, <2>4, <3>2, <3>3, <3>4 DEF AtKeymap
    <2>9. CASE ~TimedOut(i, todo[1])
      <3>1. PICK q : q = <<b, c>>
        OBVIOUS
      <3>2. Splices(q) /\ Len(q) = 2 /\ q[1] = b /\ q[2] = c
        BY <1>1, <2>6, <2>7, <2>9, <3>1, Instead
      <3>3. \A j \in 1 .. Len(q) : j < Len(q) => Light(q[j]) /\ ~IsKeycode(q[j])
        BY <2>6, <3>2
      <3>4. q[Len(q)] = c /\ q[Len(q) - 1] = b
        BY <3>2
      <3>5. Len(q) # 3 /\ Len(q) \in {2, 3}
        BY <3>2
      <3>6. Splices(q) /\ q[Len(q)] = Ending(i) /\ q[Len(q) - 1] = Decide(i, "key-up")
        BY <2>3, <2>4, <3>2, <3>4
      <3> QED
        BY <1>1, <1>2, <2>1, <3>3, <3>5, <3>6 DEF AtKeymap
    <2> QED
      BY <2>8, <2>9
  <1> QED
    BY <1>3, <1>4

LEMMA KeycodeCalls ==
  ASSUME TypeInv, KeycodeRaised
  PROVE  /\ todo # <<>> /\ Light(todo[1]) /\ IsKeycode(todo[1]) /\ todo[1] \in KeycodeEvent
         /\ \E q : Splices(q) /\ Lights(q) /\ Len(q) = 0
         /\ \/ Catching /\ IsHold(todo[1]) /\ Capturing(todo[1])
            \/ UNCHANGED captured
  <1>1. todo # <<>> /\ Head(todo) = todo[1] /\ todo[1].op = "keycode" /\ todo[1] \in Call
    BY Heads DEF KeycodeRaised, Quiet
  <1>2. Light(todo[1]) /\ IsKeycode(todo[1]) /\ todo[1] \in KeycodeEvent
    BY <1>1, CallKinds DEF Light, IsKeycode
  <1>3. todo' = Tail(todo)
    BY DEF KeycodeRaised
  <1>4. \/ Catching /\ IsHold(todo[1]) /\ Capturing(todo[1])
        \/ UNCHANGED captured
    BY <1>1, <1>2 DEF KeycodeRaised, CatchesMod, Catching, IsHold
  <1> QED
    BY <1>1, <1>2, <1>3, <1>4, Gone

\* At the end of a release its bindings are released, the hold no more than once.
LEMMA ReleaseCalls ==
  ASSUME TypeInv, Release, Unlingering, todo[1].slot \in InUse
  PROVE  /\ todo # <<>> /\ IsEnding(todo[1]) /\ ~IsKeycode(todo[1]) /\ todo[1].slot \in Slot
         /\ slots' = [slots EXCEPT ![todo[1].slot] = Free]
         /\ \E q : /\ Splices(q) /\ \A j \in 1 .. Len(q) : IsKeycode(q[j])
                   /\ \A j, l \in 1 .. Len(q) : IsHold(q[j]) /\ IsHold(q[l]) => j = l
  <1> DEFINE i == todo[1].slot
  <1>1. todo # <<>> /\ Head(todo) = todo[1] /\ todo[1].op = "release" /\ todo[1] \in Call
    BY Heads DEF Release, Quiet
  <1>2. IsEnding(todo[1]) /\ ~IsKeycode(todo[1]) /\ i \in Slot
    BY <1>1, CallKinds DEF SlotCall, IsEnding, IsKeycode
  <1>3. slots' = [slots EXCEPT ![i] = Free]
    <2>1. Head(todo).slot = i
      BY <1>1
    <2> HIDE DEF i
    <2> QED
      BY ONLY <2>1, Release, Zenon DEF Release
  <1>30. todo' = (IF RetroTap(i) THEN PressBinding(i, "tap") \o ReleaseBinding(i, "tap")
                  ELSE ReleaseBinding(i, slots[i].status))
                   \o (IF Lingers(i) THEN <<HoldUp(i)>> ELSE <<>>) \o Tail(todo)
    <2>1. Head(todo).slot = i
      BY <1>1
    <2> HIDE DEF i
    <2> QED
      BY ONLY <2>1, Release, Zenon DEF Release
  <1> HIDE DEF i
  <1>4. i \in InUse
    BY DEF i
  <1>5. ~Lingers(i) /\ Conf(i) \in Config
    <2>1. setup \in Setups /\ slots[i].key \in HoldTap /\ Conf(i) \in Config
      BY <1>4, Slots DEF TypeInv, TypeOK
    <2> QED
      BY <2>1 DEF Lingers, Conf, Unlingering, HoldTap
  <1>6. PICK a : a = HoldUp(i)
    OBVIOUS
  <1>7. PICK b : b = TapDown(i)
    OBVIOUS
  <1>8. PICK c : c = TapUp(i)
    OBVIOUS
  <1>9. /\ a \in Call /\ IsKeycode(a) /\ b \in Call /\ IsKeycode(b) /\ ~IsHold(b)
        /\ c \in Call /\ IsKeycode(c) /\ ~IsHold(c)
    BY <1>4, <1>6, <1>7, <1>8, Bindings DEF TypeInv
  <1>10. PICK t \in Seq(Call) : t = Tail(todo)
    <2>1. Tail(todo) \in Seq(Call)
      BY <1>1, Heads
    <2> QED
      BY <2>1
  <1>110. PICK q : q = IF RetroTap(i) THEN PressBinding(i, "tap") \o ReleaseBinding(i, "tap")
                       ELSE ReleaseBinding(i, slots[i].status)
    OBVIOUS
  <1>11. todo' = q \o (<<>> \o t)
    <2>1. PICK z : z = IF Lingers(i) THEN <<HoldUp(i)>> ELSE <<>>
      OBVIOUS
    <2>2. todo' = q \o z \o t
      BY ONLY <1>10, <1>30, <1>110, <2>1
    <2>3. z = <<>>
      BY ONLY <1>5, <2>1
    <2> QED
      BY ONLY <2>2, <2>3
  <1>12. <<>> \o t = t
    OBVIOUS
  <1>13. \/ q = <<>> \/ q = <<a>> \/ q = <<c>>
         \/ q = (<<a>> \o <<b>>) \o <<c>> \/ q = (<<>> \o <<b>>) \o <<c>>
    BY <1>6, <1>7, <1>8, <1>110 DEF PressBinding, ReleaseBinding
  <1>14. \/ q \in Seq(Call) /\ Len(q) = 0
         \/ q \in Seq(Call) /\ Len(q) = 1 /\ q[1] \in {a, c}
         \/ q \in Seq(Call) /\ Len(q) = 2 /\ q[1] = b /\ q[2] = c
         \/ q \in Seq(Call) /\ Len(q) = 3 /\ q[1] = a /\ q[2] = b /\ q[3] = c
    <2>1. CASE q = <<>>
      BY <2>1, EmptySeq
    <2>2. CASE q = <<a>> \/ q = <<c>>
      <3>1. CASE q = <<a>>
        BY <1>9, <3>1
      <3>2. CASE q = <<c>>
        BY <1>9, <3>2
      <3> QED
        BY <2>2, <3>1, <3>2
    <2>3. PICK x : x = <<a>>
      OBVIOUS
    <2>4. PICK y : y = <<b>>
      OBVIOUS
    <2>5. PICK z : z = <<c>>
      OBVIOUS
    <2>6. /\ x \in Seq(Call) /\ Len(x) = 1 /\ x[1] = a /\ y \in Seq(Call) /\ Len(y) = 1 /\ y[1] = b
          /\ z \in Seq(Call) /\ Len(z) = 1 /\ z[1] = c
      BY <1>9, <2>3, <2>4, <2>5
    <2>7. PICK w : w = x \o y
      OBVIOUS
    <2>8. /\ w \in Seq(Call) /\ Len(w) = Len(x) + Len(y)
          /\ \A l \in 1 .. Len(x) + Len(y) : w[l] = IF l <= Len(x) THEN x[l] ELSE y[l - Len(x)]
      BY ONLY <2>6, <2>7, ConcatProperties
    <2>9. Len(w) = 2 /\ w[1] = a /\ w[2] = b
      BY ONLY <2>6, <2>8
    <2>10. CASE q = (<<a>> \o <<b>>) \o <<c>>
      <3>1. q = w \o z
        BY <2>3, <2>4, <2>5, <2>7, <2>10
      <3>2. /\ q \in Seq(Call) /\ Len(q) = Len(w) + Len(z)
            /\ \A l \in 1 .. Len(w) + Len(z) : q[l] = IF l <= Len(w) THEN w[l] ELSE z[l - Len(w)]
        <4>1. w \in Seq(Call) /\ z \in Seq(Call)
          BY <2>6, <2>8
        <4> QED
          BY ONLY <3>1, <4>1, ConcatProperties
      <3>3. Len(q) = 3 /\ q[1] = a /\ q[2] = b /\ q[3] = c
        BY ONLY <2>6, <2>9, <3>2
      <3> QED
        BY <3>2, <3>3
    <2>11. CASE q = (<<>> \o <<b>>) \o <<c>>
      <3>1. q = y \o z
        <4>1. <<>> \o y = y
          BY ONLY <2>6
        <4> QED
          BY <2>4, <2>5, <2>11, <4>1
      <3>2. /\ q \in Seq(Call) /\ Len(q) = Len(y) + Len(z)
            /\ \A l \in 1 .. Len(y) + Len(z) : q[l] = IF l <= Len(y) THEN y[l] ELSE z[l - Len(y)]
        BY ONLY <2>6, <3>1, ConcatProperties
      <3>3. Len(q) = 2 /\ q[1] = b /\ q[2] = c
        BY ONLY <2>6, <3>2
      <3> QED
        BY <3>2, <3>3
    <2> QED
      BY <1>13, <2>1, <2>2, <2>10, <2>11
  <1>15. Splices(q)
    BY <1>1, <1>10, <1>11, <1>12, <1>14 DEF Splices
  <1>16. /\ \A j \in 1 .. Len(q) : IsKeycode(q[j])
         /\ \A j, l \in 1 .. Len(q) : IsHold(q[j]) /\ IsHold(q[l]) => j = l
    <2>1. CASE Len(q) = 0
      BY <2>1
    <2>2. CASE Len(q) = 1 /\ q[1] \in {a, c}
      BY <1>9, <2>2
    <2>3. CASE Len(q) = 2 /\ q[1] = b /\ q[2] = c
      BY <1>9, <2>3
    <2>4. CASE Len(q) = 3 /\ q[1] = a /\ q[2] = b /\ q[3] = c
      BY <1>9, <2>4
    <2> QED
      BY <1>14, <2>1, <2>2, <2>3, <2>4
  <1> QED
    BY <1>1, <1>2, <1>3, <1>15, <1>16 DEF i

-----------------------------------------------------------------------------
(* Types *)

Row == [key : HoldTap \cup {None}, time : 0 .. MaxTime,
        status : {"undecided", "tap", "interrupt", "timer"}, first : Key \cup {None}]
CapturedType ==
  captured \in [Places -> {None} \cup PositionEvent({"position"}) \cup KeycodeEvent]
UndecidedType ==
  /\ undecided \in Slot \cup {0}
  /\ undecided # 0 => slots[undecided].key # None /\ slots[undecided].status = "undecided"

LEMMA TypeParts ==
  TypeOK <=> /\ setup \in Setups
             /\ now \in 0 .. MaxTime /\ events \in 0 .. MaxEvents /\ down \subseteq Key
             /\ slots \in [Slot -> Row]
             /\ CapturedType
             /\ UndecidedType
             /\ timers \subseteq Slot
             /\ last.key \in HoldTap \cup {None} /\ last.time \in Int
             /\ on \subseteq Key \X {"hold", "tap", "plain"}
  BY DEF TypeOK, Row, CapturedType, UndecidedType, Places

\* A captured event is one of the two kinds of events.
LEMMA CapturedKept ==
  ASSUME CapturedType, NEW e \in PositionEvent({"position"}) \cup KeycodeEvent,
         Capturing(e), ~Lost'
  PROVE  /\ CapturedType'
         /\ \E g \in Gaps : /\ captured' = [captured EXCEPT ![g] = e] /\ g \in Places
                            /\ \A k \in Places : captured[k] = None => g <= k
         /\ faults' = faults
  <1>1. DOMAIN captured = Places /\ Places \subseteq Nat
    BY DEF CapturedType, Places
  <1>2. Gaps # {} /\ faults' = faults
    <2>1. ASSUME Gaps = {} PROVE FALSE
      <3>1. <<"lost", e.key>> \in faults'
        BY <2>1 DEF Capturing
      <3> QED
        BY <3>1 DEF Lost, Fault
    <2> QED
      BY <2>1 DEF Capturing
  <1>3. Gaps \in SUBSET Nat
    BY <1>1 DEF Gaps
  <1>4. Min(Gaps) \in Gaps /\ \A k \in Gaps : Min(Gaps) <= k
    BY <1>2, <1>3, LeastOne
  <1>5. captured' = [captured EXCEPT ![Min(Gaps)] = e]
    BY <1>2 DEF Capturing, Captured
  <1>6. PICK g \in Gaps : g = Min(Gaps)
    BY <1>4
  <1>7. g \in Places /\ \A k \in Places : captured[k] = None => g <= k
    BY <1>1, <1>4, <1>6 DEF Gaps
  <1>8. CapturedType'
    BY <1>5, <1>6, <1>7 DEF CapturedType, Places
  <1> QED
    BY <1>2, <1>5, <1>6, <1>7, <1>8

\* What the calls leave alone.
Same == UNCHANGED <<setup, now, events, down>>

LEMMA TypeOfRest ==
  ASSUME TypeInv, Same, todo' \in Seq(Call), owed' \subseteq owed,
         slots' \in [Slot -> Row], CapturedType', UndecidedType', timers' \subseteq Slot,
         last'.key \in HoldTap \cup {None}, last'.time \in Int,
         on' \subseteq Key \X {"hold", "tap", "plain"}
  PROVE  TypeInv'
  <1>1. TypeOK
    BY DEF TypeInv
  <1>2. /\ setup' = setup /\ now' = now /\ events' = events /\ down' = down
        /\ HoldTap' = HoldTap /\ Row' = Row
    BY DEF Same, HoldTap, Row
  <1>3. TypeOK'
    <2>1. /\ setup \in Setups /\ now \in 0 .. MaxTime /\ events \in 0 .. MaxEvents /\ down \subseteq Key
          /\ slots' \in [Slot -> Row']
      BY <1>1, <1>2, TypeParts
    <2> QED
      BY <1>2, <2>1 DEF TypeOK, Row, CapturedType, UndecidedType, Places
  <1> QED
    BY <1>2, <1>3 DEF TypeInv

LEMMA TypeFacts ==
  ASSUME TypeInv
  PROVE  /\ setup \in Setups
         /\ now \in 0 .. MaxTime /\ events \in 0 .. MaxEvents /\ down \subseteq Key
         /\ slots \in [Slot -> Row] /\ CapturedType /\ UndecidedType /\ timers \subseteq Slot
         /\ last.key \in HoldTap \cup {None} /\ last.time \in Int
         /\ on \subseteq Key \X {"hold", "tap", "plain"}
         /\ owed \subseteq Owed /\ \A o \in owed : o.n <= events /\ o.n \in Nat /\ o.n >= 1
  <1>1. owed \subseteq Owed /\ \A o \in owed : o.n <= events
    BY DEF TypeInv
  <1>2. MaxEvents \in Nat
    BY HoldTapAssumption
  <1>3. \A o \in owed : o.n \in Nat /\ o.n >= 1
    BY <1>1, <1>2 DEF Owed
  <1> QED
    BY <1>1, <1>3, TypeParts DEF TypeInv

LEMMA TypeListener ==
  ASSUME TypeInv, Interrupt \/ Listen \/ Capture, todo' \in Seq(Call), ~Lost'
  PROVE  TypeInv'
  <1>1. CASE Interrupt
    <2>1. /\ Same /\ owed' = owed /\ captured' = captured /\ undecided' = undecided
          /\ timers' = timers /\ last' = last /\ on' = on
      BY <1>1 DEF Interrupt, input, history, Same
    <2>2. PICK held : /\ held \subseteq {i \in InUse : slots[i].status = "timer"}
                      /\ slots' = [i \in Slot |-> IF i \in held THEN [slots[i] EXCEPT !.status = "interrupt"]
                                                  ELSE slots[i]]
      BY <1>1 DEF Interrupt, Retro
    <2>3. slots' \in [Slot -> Row]
      <3>1. \A i \in Slot : slots[i] \in Row /\ [slots[i] EXCEPT !.status = "interrupt"] \in Row
        BY TypeFacts DEF Row
      <3> QED
        BY <2>2, <3>1
    <2>4. UndecidedType'
      BY <2>1, <2>2, TypeFacts DEF UndecidedType
    <2>5. CapturedType'
      BY <2>1, TypeFacts DEF CapturedType
    <2> QED
      BY <2>1, <2>3, <2>4, <2>5, TypeFacts, TypeOfRest
  <1>2. CASE Listen
    <2>1. /\ Same /\ owed' = owed /\ captured' = captured /\ undecided' = undecided
          /\ timers' = timers /\ last' = last /\ on' = on
      BY <1>2 DEF Listen, input, history, Same
    <2>2. todo[1] \in PositionEvent(Moving) /\ Head(todo) = todo[1]
      BY <1>2, ListenCalls, Heads, CallKinds
    <2>3. \/ slots' = slots
          \/ undecided # 0 /\ slots' = [slots EXCEPT ![undecided].first = FirstOther(undecided, todo[1])]
      BY <1>2, <2>2 DEF Listen
    <2>4. undecided # 0 => undecided \in Slot /\ FirstOther(undecided, todo[1]) \in Key \cup {None}
      BY <2>2, TypeFacts DEF UndecidedType, FirstOther, Row, PositionEvent
    <2>5. slots' \in [Slot -> Row]
      <3>1. CASE slots' = slots
        BY <3>1, TypeFacts
      <3>2. CASE undecided # 0 /\ slots' = [slots EXCEPT ![undecided].first = FirstOther(undecided, todo[1])]
        <4>1. PICK f \in Key \cup {None} : f = FirstOther(undecided, todo[1])
          BY <2>4, <3>2
        <4>2. PICK u \in Slot : u = undecided
          BY <2>4, <3>2
        <4>3. [slots[u] EXCEPT !.first = f] \in Row
          BY TypeFacts DEF Row
        <4> QED
          BY <3>2, <4>1, <4>2, <4>3, TypeFacts
      <3> QED
        BY <2>3, <3>1, <3>2
    <2>6. UndecidedType'
      <3>1. CASE slots' = slots
        BY <2>1, <3>1, TypeFacts DEF UndecidedType
      <3>2. CASE undecided # 0 /\ slots' = [slots EXCEPT ![undecided].first = FirstOther(undecided, todo[1])]
        <4>1. PICK f : f = FirstOther(undecided, todo[1])
          OBVIOUS
        <4>2. PICK u \in Slot : u = undecided
          BY <2>4, <3>2
        <4>3. slots[u] \in Row
          BY TypeFacts
        <4>4. slots'[u].key = slots[u].key /\ slots'[u].status = slots[u].status
          BY <3>2, <4>1, <4>2, <4>3, TypeFacts DEF Row
        <4> QED
          BY <2>1, <4>2, <4>4, TypeFacts DEF UndecidedType
      <3> QED
        BY <2>3, <3>1, <3>2
    <2>7. CapturedType'
      BY <2>1, TypeFacts DEF CapturedType
    <2> QED
      BY <2>1, <2>5, <2>6, <2>7, TypeFacts, TypeOfRest
  <1>3. CASE Capture
    <2>1. /\ Same /\ owed' = owed /\ slots' = slots /\ undecided' = undecided
          /\ timers' = timers /\ last' = last /\ on' = on
      BY <1>3 DEF Capture, input, Same
    <2>2. CapturedType'
      <3>1. CASE UNCHANGED <<captured, faults>>
        BY <3>1, TypeFacts DEF CapturedType
      <3>2. CASE Capturing([todo[1] EXCEPT !.op = "position"])
        <4>1. PICK e : e = [todo[1] EXCEPT !.op = "position"]
          OBVIOUS
        <4>2. e \in PositionEvent({"position"})
          BY <1>3, <4>1, CaptureCalls, Heads, CallKinds, Renamed DEF Moving
        <4> QED
          BY <3>2, <4>1, <4>2, CapturedKept, TypeFacts
      <3> QED
        BY <1>3, <3>1, <3>2, CaptureCalls
    <2>3. UndecidedType'
      BY <2>1, TypeFacts DEF UndecidedType
    <2> QED
      BY <2>1, <2>2, <2>3, TypeFacts, TypeOfRest
  <1> QED
    BY <1>1, <1>2, <1>3

LEMMA TypeDecision ==
  ASSUME TypeInv, DecideNothing \/ DecideFinally \/ ReplayNext \/ StartTimer \/ KeycodeRaised,
         todo' \in Seq(Call), ~Lost'
  PROVE  TypeInv'
  <1>1. CASE DecideNothing
    <2>1. /\ Same /\ owed' = owed /\ captured' = captured /\ undecided' = undecided
          /\ timers' = timers /\ last' = last /\ on' = on /\ slots' = slots
      BY <1>1 DEF DecideNothing, input, history, code, Same
    <2>2. UndecidedType' /\ CapturedType'
      BY <2>1, TypeFacts DEF UndecidedType, CapturedType
    <2> QED
      BY <2>1, <2>2, TypeFacts, TypeOfRest
  <1>2. CASE DecideFinally
    <2>1. /\ Same /\ owed' = owed /\ captured' = captured /\ undecided' = 0
          /\ timers' = timers /\ on' = on
      <3>1. UNCHANGED <<input, captured, timers, on, owed>>
        BY ONLY <1>2, Zenon DEF DecideFinally
      <3> QED
        BY <1>2, <3>1, DecideFinallyCalls DEF input, Same
    <2>2. PICK st \in {"tap", "interrupt", "timer"} : slots' = [slots EXCEPT ![undecided].status = st]
      BY <1>2, DecideFinallyCalls
    <2>3. PICK u \in Slot : u = undecided
      BY <1>2, DecideFinallyCalls, TypeFacts DEF UndecidedType
    <2>4. slots' \in [Slot -> Row]
      <3>1. [slots[u] EXCEPT !.status = st] \in Row
        BY TypeFacts DEF Row
      <3> QED
        BY <2>2, <2>3, <3>1, TypeFacts
    <2>5. last' \in {last, TappedKey(undecided)}
      <3>1. Head(todo).slot = undecided
        BY <1>2, DecideFinallyCalls, Heads
      <3> QED
        BY ONLY <1>2, <3>1, Zenon DEF DecideFinally
    <2>6. last'.key \in HoldTap \cup {None} /\ last'.time \in Int
      <3>1. slots[u] \in Row /\ MaxTime \in Nat
        BY TypeFacts, HoldTapAssumption
      <3> QED
        BY <2>3, <2>5, <3>1, TypeFacts DEF Row, TappedKey
    <2>7. UndecidedType' /\ CapturedType'
      BY <2>1, TypeFacts DEF UndecidedType, CapturedType
    <2> QED
      BY <2>1, <2>4, <2>6, <2>7, TypeFacts, TypeOfRest
  <1>3. CASE ReplayNext
    <2>1. /\ Same /\ owed' = owed /\ undecided' = undecided
          /\ timers' = timers /\ last' = last /\ on' = on /\ slots' = slots
      BY <1>3 DEF ReplayNext, input, history, Same
    <2>2. CapturedType'
      BY <1>3, ReplayCalls, TypeFacts DEF CapturedType
    <2>3. UndecidedType'
      BY <2>1, TypeFacts DEF UndecidedType
    <2> QED
      BY <2>1, <2>2, <2>3, TypeFacts, TypeOfRest
  <1>4. CASE StartTimer
    <2>1. /\ Same /\ owed' = owed /\ captured' = captured /\ undecided' = undecided
          /\ timers' = timers \cup {Head(todo).slot} /\ last' = last /\ on' = on /\ slots' = slots
      BY <1>4 DEF StartTimer, input, history, Same
    <2>2. timers' \subseteq Slot
      BY <1>4, <2>1, StartTimerCalls, Heads, TypeFacts
    <2>3. UndecidedType' /\ CapturedType'
      BY <2>1, TypeFacts DEF UndecidedType, CapturedType
    <2> QED
      BY <2>1, <2>2, <2>3, TypeFacts, TypeOfRest
  <1>5. CASE KeycodeRaised
    <2>1. /\ Same /\ owed' = owed /\ undecided' = undecided
          /\ timers' = timers /\ slots' = slots
      BY <1>5 DEF KeycodeRaised, input, Same
    <2>2. PICK e \in KeycodeEvent : e = todo[1] /\ e = Head(todo)
      BY <1>5, KeycodeCalls, Heads
    <2>3. last' \in {last, [key |-> None, time |-> e.time]}
      BY <1>5, <2>2 DEF KeycodeRaised
    <2>4. last'.key \in HoldTap \cup {None} /\ last'.time \in Int
      BY <2>2, <2>3, TypeFacts, HoldTapAssumption DEF KeycodeEvent
    <2>5. on' \subseteq on \cup {<<e.key, e.binding>>}
      BY <1>5, <2>2 DEF KeycodeRaised
    <2>6. on' \subseteq Key \X {"hold", "tap", "plain"}
      BY <2>2, <2>5, TypeFacts DEF KeycodeEvent
    <2>7. CapturedType'
      <3>1. CASE UNCHANGED captured
        BY <3>1, TypeFacts DEF CapturedType
      <3>2. CASE Capturing(todo[1])
        BY <2>2, <3>2, CapturedKept, TypeFacts
      <3> QED
        BY <1>5, <3>1, <3>2, KeycodeCalls
    <2>8. UndecidedType'
      BY <2>1, TypeFacts DEF UndecidedType
    <2> QED
      BY <2>1, <2>4, <2>6, <2>7, <2>8, TypeFacts, TypeOfRest
  <1> QED
    BY <1>1, <1>2, <1>3, <1>4, <1>5

LEMMA ReleaseHead ==
  ASSUME TypeInv, EndingInv, KeyUpInv, Release
  PROVE  /\ todo # <<>> /\ Head(todo) = todo[1] /\ IsEnding(todo[1]) /\ 1 \in Here
         /\ todo[1].slot \in InUse /\ todo[1].slot # undecided
  <1>1. todo # <<>> /\ Head(todo).op = "release"
    BY Release, Zenon DEF Release, Quiet
  <1>2. Head(todo) = todo[1] /\ 1 \in Here /\ IsEnding(todo[1])
    BY <1>1, Heads DEF IsEnding
  <1> QED
    BY <1>1, <1>2 DEF EndingInv, KeyUpInv

LEMMA TypeKeymap ==
  ASSUME TypeInv, EndingInv, KeyUpInv, Unlingering,
         PlainKey \/ BindingPressed \/ BindingReleased \/ Release,
         todo' \in Seq(Call), ~Lost'
  PROVE  TypeInv'
  <1>1. CASE PlainKey
    <2>1. /\ Same /\ owed' \subseteq owed /\ captured' = captured /\ undecided' = undecided
          /\ timers' = timers /\ last' = last /\ on' = on /\ slots' = slots
      BY <1>1 DEF PlainKey, input, code, Same, Delivered
    <2>2. UndecidedType' /\ CapturedType'
      BY <2>1, TypeFacts DEF UndecidedType, CapturedType
    <2> QED
      BY <2>1, <2>2, TypeFacts, TypeOfRest
  <1>2. CASE BindingPressed
    <2>1. /\ Same /\ owed' \subseteq owed /\ captured' = captured
          /\ timers' = timers /\ last' = last /\ on' = on
      BY <1>2 DEF BindingPressed, input, Same, Delivered
    <2>2. slots' \in [Slot -> Row] /\ UndecidedType'
      <3>1. CASE slots' = slots /\ undecided' = undecided
        BY <3>1, TypeFacts DEF UndecidedType
      <3>2. CASE \E i \in Slot \ InUse :
                   /\ slots' = [slots EXCEPT ![i] = [Free EXCEPT !.key = todo[1].key, !.time = todo[1].time]]
                   /\ undecided' = i
        <4>1. PICK i \in Slot :
                   /\ slots' = [slots EXCEPT ![i] = [Free EXCEPT !.key = todo[1].key, !.time = todo[1].time]]
                   /\ undecided' = i
          BY <3>2
        <4>2. PICK e \in PositionEvent(Moving) : e = todo[1] /\ e.key \in HoldTap
          BY <1>2, BindingPressedCalls, Heads, CallKinds DEF AtKeymap
        <4>3. PICK r : r = [Free EXCEPT !.key = e.key, !.time = e.time]
          OBVIOUS
        <4>4. r \in Row /\ r.key = e.key /\ r.status = "undecided" /\ e.key # None
          BY <4>2, <4>3, Boards, TypeFacts DEF Free, Row, PositionEvent
        <4>5. slots' = [slots EXCEPT ![i] = r]
          BY <4>1, <4>2, <4>3
        <4> QED
          BY <4>1, <4>4, <4>5, TypeFacts DEF UndecidedType
      <3> QED
        BY <1>2, <3>1, <3>2, BindingPressedCalls
    <2>3. CapturedType'
      BY <2>1, TypeFacts DEF CapturedType
    <2> QED
      BY <2>1, <2>2, <2>3, TypeFacts, TypeOfRest
  <1>3. CASE BindingReleased
    <2>1. /\ Same /\ owed' \subseteq owed /\ captured' = captured /\ undecided' = undecided
          /\ timers' \subseteq timers /\ last' = last /\ on' = on /\ slots' = slots
      BY <1>3 DEF BindingReleased, input, Same, Delivered, Stopped
    <2>2. UndecidedType' /\ CapturedType'
      BY <2>1, TypeFacts DEF UndecidedType, CapturedType
    <2> QED
      BY <2>1, <2>2, TypeFacts, TypeOfRest
  <1>4. CASE Release
    <2> DEFINE i == todo[1].slot
    <2>1. Head(todo) = todo[1]
      BY <1>4, ReleaseHead
    <2>2. i \in InUse /\ i # undecided
      BY <1>4, ReleaseHead
    <2>3. i \in Slot /\ slots[i] \in Row
      BY <2>2, TypeFacts DEF InUse
    <2>4. /\ Same /\ owed' = owed /\ captured' = captured /\ undecided' = undecided
          /\ timers' = timers /\ on' = on /\ slots' = [slots EXCEPT ![i] = Free]
      <3>1. UNCHANGED <<input, undecided, captured, timers, on, history>>
        BY ONLY <1>4, Zenon DEF Release
      <3> QED
        BY <1>4, <2>2, <3>1, ReleaseCalls DEF input, history, Same
    <2>5. last' \in {last, TappedKey(i)}
      <3>1. Head(todo).slot = i
        BY <2>1
      <3> HIDE DEF i
      <3> QED
        BY ONLY <1>4, <3>1, Zenon DEF Release
    <2> HIDE DEF i
    <2>6. last'.key \in HoldTap \cup {None} /\ last'.time \in Int
      BY <2>3, <2>5, TypeFacts, HoldTapAssumption DEF Row, TappedKey
    <2>7. slots' \in [Slot -> Row] /\ UndecidedType'
      <3>1. Free \in Row
        BY HoldTapAssumption DEF Free, Row
      <3> QED
        BY <2>2, <2>3, <2>4, <3>1, TypeFacts DEF UndecidedType
    <2>8. CapturedType'
      BY <2>4, TypeFacts DEF CapturedType
    <2> QED
      BY <2>4, <2>6, <2>7, <2>8, TypeFacts, TypeOfRest
  <1> QED
    BY <1>1, <1>2, <1>3, <1>4

-----------------------------------------------------------------------------
(* The shape of the sequence of calls *)

\* What calls may take the place of the first.
Fitting(q) ==
  /\ Len(q) = 0 \/ ~IsKeycode(todo[1])
  /\ \A i, j \in 1 .. Len(q) : i < j /\ IsKeycode(q[j]) => IsKeycode(q[i])
  /\ \A j \in 1 .. Len(q) : q[j].op \in {"position", "keymap"} \/ ByTimer(q[j]) => j = 1
  /\ \A i, j \in 1 .. Len(q) : i < j /\ (q[j].op = "listen" \/ IsFirst(q[j])) => IsKeycode(q[i])
  /\ \A j \in 1 .. Len(q) : IsFirst(q[j]) => undecided' = 0
  /\ undecided' = undecided \/ ~IsKeycode(todo[1])
  /\ \A i, j \in 1 .. Len(q) : Weighs(q[i]) /\ Weighs(q[j]) => i = j
  /\ \A i \in 1 .. Len(q) : Weighs(q[i]) =>
       Weighs(todo[1]) \/ \E k \in 1 .. Len(q) : i < k /\ IsReplay(q[k])

LEMMA ShapeKept ==
  ASSUME Shape, todo \in Seq(Call), NEW q, Splices(q), Fitting(q)
  PROVE  Shape'
  <1>1. PICK n \in Nat : n = Len(q)
    BY Splicing
  <1>2. PICK m \in Nat : m = Len(todo)
    OBVIOUS
  <1>3. PICK d \in Int : d = n - 1
    OBVIOUS
  <1>4. /\ Here = 1 .. m /\ m > 0 /\ 1 \in Here /\ Here' = 1 .. n + m - 1
        /\ \A j \in 1 .. n : j \in Here' /\ todo'[j] = q[j]
        /\ \A j \in Here' : j > n => j - d \in Here /\ j - d > 1 /\ todo'[j] = todo[j - d]
        /\ \A j \in Here : j > 1 => j + d \in Here' /\ todo'[j + d] = todo[j]
    <2>1. Here = 1 .. m
      BY <1>2 DEF Here
    <2>2. 1 \in Here /\ Here' = 1 .. n + m - 1
      BY <1>1, <1>2, Splicing
    <2>3. m > 0
      BY <2>1, <2>2
    <2> QED
      BY <1>1, <1>3, <2>1, <2>2, <2>3, Splicing
  <1>5. \A j \in Here' : j \in 1 .. n \/ j > n
    BY <1>4
  <1>6. ASSUME NEW i \in Here', NEW j \in Here', i < j, IsKeycode(todo'[j])
        PROVE  IsKeycode(todo'[i])
    <2>1. CASE j \in 1 .. n
      <3>1. i \in 1 .. n
        BY <1>4, <1>6, <2>1
      <3> QED
        BY <1>1, <1>4, <1>6, <2>1, <3>1 DEF Fitting
    <2>2. CASE j > n
      <3>1. PICK l \in Here : l = j - d /\ l > 1 /\ IsKeycode(todo[l])
        BY <1>4, <1>6, <2>2
      <3>2. IsKeycode(todo[1])
        BY <1>4, <3>1 DEF Shape
      <3>3. n = 0
        BY <1>1, <3>2 DEF Fitting
      <3>4. PICK k \in Here : k = i - d /\ k > 1 /\ todo'[i] = todo[k]
        BY <1>4, <3>3
      <3>5. k < l
        BY <1>4, <1>6, <3>1, <3>4
      <3> QED
        BY <3>1, <3>4, <3>5 DEF Shape
    <2> QED
      BY <1>5, <2>1, <2>2
  <1>7. ASSUME NEW j \in Here', todo'[j].op \in {"position", "keymap"} \/ ByTimer(todo'[j])
        PROVE  j = 1
    <2>1. CASE j \in 1 .. n
      BY <1>1, <1>4, <1>7, <2>1 DEF Fitting
    <2>2. CASE j > n
      <3>1. PICK l \in Here : l = j - d /\ l > 1 /\ todo'[j] = todo[l]
        BY <1>4, <2>2
      <3> QED
        BY <1>7, <3>1 DEF Shape
    <2> QED
      BY <1>5, <2>1, <2>2
  <1>8. ASSUME NEW i \in Here', NEW j \in Here', i < j, todo'[j].op = "listen" \/ IsFirst(todo'[j])
        PROVE  IsKeycode(todo'[i])
    <2>1. CASE j \in 1 .. n
      <3>1. i \in 1 .. n
        BY <1>4, <1>8, <2>1
      <3> QED
        BY <1>1, <1>4, <1>8, <2>1, <3>1 DEF Fitting
    <2>2. CASE j > n
      <3>1. PICK l \in Here : l = j - d /\ l > 1 /\ todo'[j] = todo[l]
        BY <1>4, <2>2
      <3>2. IsKeycode(todo[1])
        BY <1>4, <1>8, <3>1 DEF Shape
      <3>3. n = 0
        BY <1>1, <3>2 DEF Fitting
      <3>4. PICK k \in Here : k = i - d /\ k > 1 /\ todo'[i] = todo[k]
        BY <1>4, <3>3
      <3>5. k < l
        BY <1>4, <1>8, <3>1, <3>4
      <3> QED
        BY <1>8, <3>1, <3>4, <3>5 DEF Shape
    <2> QED
      BY <1>5, <2>1, <2>2
  <1>9. ASSUME NEW j \in Here', IsFirst(todo'[j]) PROVE undecided' = 0
    <2>1. CASE j \in 1 .. n
      BY <1>1, <1>4, <1>9, <2>1 DEF Fitting
    <2>2. CASE j > n
      <3>1. PICK l \in Here : l = j - d /\ l > 1 /\ todo'[j] = todo[l]
        BY <1>4, <2>2
      <3>2. IsKeycode(todo[1]) /\ undecided = 0
        BY <1>4, <1>9, <3>1 DEF Shape
      <3> QED
        BY <3>2 DEF Fitting
    <2> QED
      BY <1>5, <2>1, <2>2
  <1>10. ASSUME NEW i \in Here', NEW j \in Here', i < j, Weighs(todo'[i]), Weighs(todo'[j])
         PROVE  \E k \in Here' : i < k /\ k < j /\ IsReplay(todo'[k])
    <2>1. CASE j \in 1 .. n
      <3>1. i \in 1 .. n
        BY <1>4, <1>10, <2>1
      <3>2. i = j
        BY <1>1, <1>4, <1>10, <2>1, <3>1 DEF Fitting
      <3> QED
        BY <1>4, <1>10, <3>2
    <2>2. CASE j > n
      <3>1. PICK l \in Here : l = j - d /\ l > 1 /\ Weighs(todo[l])
        BY <1>4, <1>10, <2>2
      <3>2. ASSUME NEW h \in Here, h < l, Weighs(todo[h]), h = 1 \/ h + d = i, i <= h + d
            PROVE  \E k \in Here' : i < k /\ k < j /\ IsReplay(todo'[k])
        <4>1. PICK k \in Here : h < k /\ k < l /\ IsReplay(todo[k])
          BY <3>1, <3>2 DEF Shape
        <4>2. k > 1 /\ k + d \in Here' /\ todo'[k + d] = todo[k]
          BY <1>4, <3>2, <4>1
        <4>3. i < k + d /\ k + d < j
          BY <1>4, <3>1, <3>2, <4>1
        <4> QED
          BY <4>1, <4>2, <4>3
      <3>3. CASE i \in 1 .. n
        <4>1. CASE \E k \in 1 .. n : i < k /\ IsReplay(q[k])
          BY <1>4, <2>2, <4>1
        <4>2. CASE ~\E k \in 1 .. n : i < k /\ IsReplay(q[k])
          <5>1. Weighs(todo[1])
            BY <1>1, <1>4, <1>10, <3>3, <4>2 DEF Fitting
          <5>2. i <= 1 + d
            BY <1>3, <3>3
          <5> QED
            BY <1>4, <3>1, <3>2, <5>1, <5>2
        <4> QED
          BY <4>1, <4>2
      <3>4. CASE i > n
        <4>1. PICK h \in Here : h = i - d /\ todo'[i] = todo[h]
          BY <1>4, <3>4
        <4>2. h < l /\ h + d = i
          BY <1>4, <1>10, <3>1, <4>1
        <4>3. i <= h + d
          BY <1>4, <4>2
        <4> QED
          BY <1>10, <3>2, <4>1, <4>2, <4>3
      <3> QED
        BY <1>5, <3>3, <3>4
    <2> QED
      BY <1>5, <2>1, <2>2
  <1> QED
    BY <1>6, <1>7, <1>8, <1>9, <1>10 DEF Shape

\* An event that goes on fits, but only as the first call does it reach the keymap.
LEMMA OnwardFits ==
  ASSUME TypeInv, undecided' = undecided, NEW q, NEW o, Onward(q, o), todo # <<>>,
         o \in {"listen", "capture", "keymap"},
         \A j \in 1 .. Len(q) : j < Len(q) => q[j] \in Call /\ Light(q[j]) /\ (ByTimer(q[j]) => j = 1),
         o = "keymap" => Len(q) = 1,
         o = "listen" => \A j \in 1 .. Len(q) : j < Len(q) => IsKeycode(q[j]),
         \A i, j \in 1 .. Len(q) : i < j /\ j < Len(q) /\ IsKeycode(q[j]) => IsKeycode(q[i])
  PROVE  Fitting(q)
  <1>1. PICK n \in Nat : n = Len(q) /\ n > 0
    BY DEF Onward, Splices
  <1>2. PICK x : x = q[n]
    OBVIOUS
  <1>3. x.op = o /\ x \in Call /\ IsEvent(todo[1]) /\ todo[1] \in Call
    <2>1. IsEvent(todo[1]) /\ todo[1] \in Call /\ o \in Moving
      BY Heads DEF Onward, Carries, Moving
    <2>2. todo[1] \in PositionEvent(Moving)
      BY <2>1, CallKinds
    <2>3. x = [todo[1] EXCEPT !.op = o]
      BY <1>1, <1>2 DEF Onward
    <2>4. PICK e \in PositionEvent(Moving) : e = todo[1]
      BY <2>2
    <2>5. x = [e EXCEPT !.op = o]
      BY <2>3, <2>4
    <2>6. x.op = o /\ x \in Call
      <3>1. [e EXCEPT !.op = o].op = o /\ [e EXCEPT !.op = o] \in Call
        BY <2>1, Renamed, Zenon
      <3> QED
        BY <2>5, <3>1
    <2> QED
      BY <2>1, <2>6
  <1>4. IsEvent(x) /\ ~IsKeycode(x) /\ ~ByTimer(x) /\ ~IsFirst(x) /\ ~IsReplay(x) /\ Weighs(todo[1])
        /\ ~IsKeycode(todo[1])
    BY <1>3 DEF IsEvent, Moving, IsKeycode, ByTimer, IsFirst, IsReplay, Weighs
  <1>5. \A j \in 1 .. n : j = n \/ j < n
    BY <1>1
  <1>6. \A j \in 1 .. n : j < n => /\ ~Weighs(q[j]) /\ ~IsFirst(q[j]) /\ q[j].op # "listen"
                                   /\ q[j].op \notin {"position", "keymap"}
    BY <1>1, LightOrHeavy
  <1> QED
    BY <1>1, <1>2, <1>3, <1>4, <1>5, <1>6 DEF Fitting

\* Nothing but decisions, keycodes and the like.
LEMMA LightFits ==
  ASSUME TypeInv, todo # <<>>, undecided' = undecided \/ ~IsKeycode(todo[1]), NEW q, Splices(q), Lights(q),
         Len(q) = 0 \/ ~IsKeycode(todo[1]),
         \A i, j \in 1 .. Len(q) : i < j /\ IsKeycode(q[j]) => IsKeycode(q[i]),
         \A j \in 1 .. Len(q) : ByTimer(q[j]) => j = 1
  PROVE  Fitting(q)
  <1>1. \A j \in 1 .. Len(q) : q[j] \in Call /\ Light(q[j])
    BY DEF Splices, Lights
  <1>2. \A j \in 1 .. Len(q) : /\ ~Weighs(q[j]) /\ ~IsFirst(q[j]) /\ q[j].op # "listen"
                               /\ q[j].op \notin {"position", "keymap"}
    BY <1>1, LightOrHeavy
  <1> QED
    BY <1>2 DEF Fitting

LEMMA ShapeListener ==
  ASSUME TypeInv, Shape, Interrupt \/ Listen \/ Capture
  PROVE  Shape'
  <1>0. todo \in Seq(Call) /\ undecided' = undecided
    BY DEF TypeInv, Interrupt, Listen, Capture
  <1>1. CASE Interrupt
    <2>1. PICK q : Onward(q, "listen") /\ \A j \in 1 .. Len(q) : j < Len(q) => IsHold(q[j])
      BY <1>1, InterruptCalls
    <2>2. \A j \in 1 .. Len(q) : j < Len(q) => /\ q[j] \in Call /\ IsKeycode(q[j]) /\ Light(q[j])
                                               /\ ~ByTimer(q[j])
      BY <2>1 DEF Onward, Splices, IsHold, IsKeycode, Light, ByTimer
    <2>3. Fitting(q)
      BY <1>0, <1>1, <2>1, <2>2, InterruptCalls, OnwardFits
    <2> QED
      BY <1>0, <2>1, <2>3, ShapeKept DEF Onward
  <1>2. CASE Listen
    <2>1. PICK q, o : /\ Onward(q, o)
                      /\ \/ o = "keymap" /\ Len(q) = 1
                         \/ o = "capture" /\ Len(q) = 1 /\ undecided # 0
                         \/ o = "capture" /\ Len(q) = 2 /\ undecided # 0 /\ q[1] = Decide(undecided, "timer")
      BY <1>2, ListenCalls
    <2>20. PICK n \in {1, 2} : n = Len(q) /\ (n = 2 => q[1] = Decide(undecided, "timer"))
      BY <2>1
    <2>2. /\ o \in {"capture", "keymap"} /\ o # "listen"
          /\ \A j \in 1 .. Len(q) : j < Len(q) => j = 1 /\ q[1] = Decide(undecided, "timer")
          /\ \A j \in 1 .. Len(q) : j < Len(q) => \A i \in 1 .. Len(q) : ~(i < j)
          /\ o = "keymap" => Len(q) = 1
      BY <2>1, <2>20
    <2>3. \A j \in 1 .. Len(q) : j < Len(q) => q[j] \in Call /\ Light(q[j])
      BY <2>1, <2>2 DEF Onward, Splices, Carries
    <2>4. Fitting(q)
      BY <1>0, <1>2, <2>1, <2>2, <2>3, ListenCalls, OnwardFits
    <2> QED
      BY <1>0, <2>1, <2>4, ShapeKept DEF Onward
  <1>3. CASE Capture
    <2>1. CASE \E q : Onward(q, "keymap") /\ Len(q) = 1
      <3>1. PICK q : Onward(q, "keymap") /\ Len(q) = 1
        BY <2>1
      <3>2. \A j \in 1 .. Len(q) : ~(j < Len(q))
        BY <3>1
      <3>3. Fitting(q)
        BY <1>0, <1>3, <3>1, <3>2, CaptureCalls, OnwardFits
      <3> QED
        BY <1>0, <3>1, <3>3, ShapeKept DEF Onward
    <2>2. CASE \E q : Splices(q) /\ Lights(q) /\ Len(q) = 1 /\ ~IsKeycode(q[1]) /\ ~ByTimer(q[1])
      <3>1. PICK q : Splices(q) /\ Lights(q) /\ Len(q) = 1
        BY <2>2
      <3>2. \A i, j \in 1 .. Len(q) : j = 1 /\ ~(i < j)
        BY <3>1
      <3>3. Fitting(q)
        <4>1. ~IsKeycode(todo[1])
          BY <1>3, CaptureCalls DEF IsKeycode
        <4> QED
          BY <1>0, <1>3, <3>1, <3>2, <4>1, CaptureCalls, LightFits
      <3> QED
        BY <1>0, <3>1, <3>3, ShapeKept
    <2> QED
      BY <1>3, <2>1, <2>2, CaptureCalls
  <1> QED
    BY <1>1, <1>2, <1>3

LEMMA ShapeDecision ==
  ASSUME TypeInv, Shape, DecideNothing \/ DecideFinally \/ ReplayNext \/ StartTimer \/ KeycodeRaised
  PROVE  Shape'
  <1>0. todo \in Seq(Call)
    BY DEF TypeInv
  <1>1. CASE DecideNothing
    <2>1. PICK q : Splices(q) /\ Lights(q) /\ Len(q) \in {0, 1}
      BY <1>1, DecideNothingCalls
    <2>2. \A i, j \in 1 .. Len(q) : j = 1 /\ ~(i < j)
      <3>1. CASE Len(q) = 0
        BY <3>1
      <3>2. CASE Len(q) = 1
        BY <3>2
      <3> QED
        BY <2>1, <3>1, <3>2
    <2>3. undecided' = undecided
      BY <1>1 DEF DecideNothing, code
    <2>4. Fitting(q)
      BY <1>1, <2>1, <2>2, <2>3, DecideNothingCalls, LightFits
    <2> QED
      BY <1>0, <2>1, <2>4, ShapeKept
  <1>2. CASE DecideFinally
    <2>1. PICK q : /\ Splices(q) /\ Len(q) > 0 /\ q[Len(q)] = Replay(1)
                   /\ \A j \in 1 .. Len(q) : j < Len(q) => IsKeycode(q[j])
      BY <1>2, DecideFinallyCalls
    <2>2. PICK n \in Nat : n = Len(q)
      BY <2>1 DEF Splices
    <2>3. \A j \in 1 .. n : j = n \/ j < n
      BY <2>2
    <2>4. \A j \in 1 .. n : j < n =>
            /\ IsKeycode(q[j]) /\ ~ByTimer(q[j]) /\ ~Weighs(q[j]) /\ ~IsFirst(q[j])
            /\ q[j].op \notin {"position", "keymap", "listen"}
      BY <2>1, <2>2 DEF IsKeycode, ByTimer, Weighs, IsEvent, IsEnding, IsFirst, IsReplay, Moving
    <2>5. /\ ~IsKeycode(q[n]) /\ ~ByTimer(q[n]) /\ ~Weighs(q[n])
          /\ q[n].op \notin {"position", "keymap", "listen"}
      BY <2>1, <2>2 DEF IsKeycode, ByTimer, Weighs, IsEvent, IsEnding, IsFirst, IsReplay, Moving, Replay
    <2>6. Fitting(q)
      BY <1>2, <2>1, <2>2, <2>3, <2>4, <2>5, DecideFinallyCalls DEF Fitting
    <2> QED
      BY <1>0, <2>1, <2>6, ShapeKept
  <1>3. CASE ReplayNext
    <2>0. undecided' = undecided
      BY <1>3 DEF ReplayNext
    <2>1. CASE \E q : Splices(q) /\ Lights(q) /\ Len(q) = 0
      <3>1. PICK q : Splices(q) /\ Lights(q) /\ Len(q) = 0
        BY <2>1
      <3>2. Fitting(q)
        BY <1>3, <2>0, <3>1, ReplayCalls, LightFits
      <3> QED
        BY <1>0, <3>1, <3>2, ShapeKept
    <2>2. CASE /\ todo[1].from \in Places /\ captured[todo[1].from] # None
               /\ \E q : /\ Splices(q) /\ Len(q) = 2
                         /\ q[1] = captured[todo[1].from] /\ q[2] = Replay(todo[1].from + 1)
      <3>1. PICK q : /\ Splices(q) /\ Len(q) = 2
                     /\ q[1] = captured[todo[1].from] /\ q[2] = Replay(todo[1].from + 1)
        BY <2>2
      <3>2. q[1] \in PositionEvent({"position"}) \cup KeycodeEvent
        BY <2>2, <3>1, TypeFacts DEF CapturedType
      <3>3. /\ ~ByTimer(q[1]) /\ ~IsFirst(q[1]) /\ q[1].op # "listen"
        BY <3>2 DEF PositionEvent, KeycodeEvent, ByTimer, IsFirst, IsReplay
      <3>4. /\ ~IsKeycode(q[2]) /\ ~ByTimer(q[2]) /\ ~Weighs(q[2]) /\ IsReplay(q[2]) /\ ~IsFirst(q[2])
            /\ q[2].op \notin {"position", "keymap", "listen"}
        <4>1. q[2].op = "replay" /\ q[2].from # 1
          BY <2>2, <3>1 DEF Replay, Places
        <4> QED
          BY <4>1 DEF IsKeycode, ByTimer, Weighs, IsEvent, IsEnding, IsFirst, IsReplay, Moving
      <3>5. Fitting(q)
        <4>1. \A j \in 1 .. Len(q) : j = 1 \/ j = 2
          BY <3>1
        <4>2. 1 < 2 /\ 2 \in 1 .. Len(q)
          BY <3>1
        <4> QED
          BY <1>3, <2>0, <3>1, <3>3, <3>4, <4>1, <4>2, ReplayCalls DEF Fitting
      <3> QED
        BY <1>0, <3>1, <3>5, ShapeKept
    <2> QED
      BY <1>3, <2>1, <2>2, ReplayCalls
  <1>4. CASE StartTimer
    <2>1. PICK q : Splices(q) /\ Lights(q) /\ Len(q) = 0
      BY <1>4, StartTimerCalls
    <2>2. undecided' = undecided
      BY <1>4 DEF StartTimer
    <2>3. Fitting(q)
      BY <1>4, <2>1, <2>2, StartTimerCalls, LightFits
    <2> QED
      BY <1>0, <2>1, <2>3, ShapeKept
  <1>5. CASE KeycodeRaised
    <2>1. PICK q : Splices(q) /\ Lights(q) /\ Len(q) = 0
      BY <1>5, KeycodeCalls
    <2>2. undecided' = undecided
      BY <1>5 DEF KeycodeRaised
    <2>3. Fitting(q)
      BY <1>5, <2>1, <2>2, KeycodeCalls, LightFits
    <2> QED
      BY <1>0, <2>1, <2>3, ShapeKept
  <1> QED
    BY <1>1, <1>2, <1>3, <1>4, <1>5

LEMMA ShapeKeymap ==
  ASSUME TypeInv, Shape, EndingInv, KeyUpInv, Unlingering, PlainKey \/ BindingPressed \/ BindingReleased \/ Release
  PROVE  Shape'
  <1>0. todo \in Seq(Call)
    BY DEF TypeInv
  <1>1. ASSUME AtKeymap PROVE ~IsKeycode(todo[1]) /\ Weighs(todo[1]) /\ todo # <<>>
    BY <1>1 DEF AtKeymap, IsKeycode, Weighs
  <1>2. CASE PlainKey
    <2>1. PICK q : Splices(q) /\ Lights(q) /\ Len(q) = 1
      BY <1>2, PlainKeyCalls
    <2>2. \A i, j \in 1 .. Len(q) : j = 1 /\ ~(i < j)
      BY <2>1
    <2>3. Fitting(q)
      BY <1>1, <1>2, <2>1, <2>2, PlainKeyCalls, LightFits
    <2> QED
      BY <1>0, <2>1, <2>3, ShapeKept
  <1>3. CASE BindingPressed
    <2>1. PICK q : /\ Splices(q) /\ Lights(q)
                   /\ Len(q) = 0 \/ \A j \in 1 .. Len(q) : ~IsKeycode(q[j]) /\ ~ByTimer(q[j])
      BY <1>3, BindingPressedCalls
    <2>2. \A j \in 1 .. Len(q) : ~IsKeycode(q[j]) /\ ~ByTimer(q[j])
      BY <2>1
    <2>3. Fitting(q)
      BY <1>1, <1>3, <2>1, <2>2, BindingPressedCalls, LightFits
    <2> QED
      BY <1>0, <2>1, <2>3, ShapeKept
  <1>4. CASE BindingReleased
    <2>1. CASE \E q : Splices(q) /\ Lights(q) /\ Len(q) = 0
      <3>1. PICK q : Splices(q) /\ Lights(q) /\ Len(q) = 0
        BY <2>1
      <3>2. Fitting(q)
        BY <1>1, <1>4, <3>1, BindingReleasedCalls, LightFits
      <3> QED
        BY <1>0, <3>1, <3>2, ShapeKept
    <2>2. CASE \E i \in Found(todo[1].key) : \E q :
                 /\ Splices(q) /\ Len(q) \in {2, 3} /\ q[Len(q)] = Ending(i)
                 /\ q[Len(q) - 1] = Decide(i, "key-up")
                 /\ \A j \in 1 .. Len(q) : j < Len(q) => Light(q[j]) /\ ~IsKeycode(q[j])
      <3>0. PICK i \in Found(todo[1].key) : \E q :
                 /\ Splices(q) /\ Len(q) \in {2, 3} /\ q[Len(q)] = Ending(i)
                 /\ q[Len(q) - 1] = Decide(i, "key-up")
                 /\ \A j \in 1 .. Len(q) : j < Len(q) => Light(q[j]) /\ ~IsKeycode(q[j])
        BY <2>2
      <3>1. PICK q :
                 /\ Splices(q) /\ Len(q) \in {2, 3} /\ q[Len(q)] = Ending(i)
                 /\ q[Len(q) - 1] = Decide(i, "key-up")
                 /\ \A j \in 1 .. Len(q) : j < Len(q) => Light(q[j]) /\ ~IsKeycode(q[j])
        BY <3>0
      <3>2. PICK n \in {2, 3} : n = Len(q)
        BY <3>1
      <3>3. \A j \in 1 .. n : j < n =>
              /\ ~IsKeycode(q[j]) /\ ~Weighs(q[j]) /\ ~IsFirst(q[j])
              /\ q[j].op \notin {"position", "keymap", "listen"}
        BY <3>1, <3>2, LightOrHeavy DEF Splices
      <3>4. /\ ~IsKeycode(q[n]) /\ ~ByTimer(q[n]) /\ ~IsFirst(q[n])
            /\ q[n].op \notin {"position", "keymap", "listen"}
        BY <3>1, <3>2 DEF Ending, IsKeycode, ByTimer, IsFirst, IsReplay
      <3>5. ~ByTimer(q[n - 1])
        BY <3>1, <3>2 DEF Decide, ByTimer
      <3>6. \A j \in 1 .. n : j = n \/ j < n
        BY <3>2
      <3>7. \A j \in 1 .. n : j = n \/ j = n - 1 \/ j = 1
        <4>1. n = 2 \/ n = 3
          BY <3>2
        <4>2. CASE n = 2
          BY <4>2
        <4>3. CASE n = 3
          BY <4>3
        <4> QED
          BY <4>1, <4>2, <4>3
      <3>8. ~IsKeycode(todo[1]) /\ Weighs(todo[1])
        BY <1>1, <1>4, BindingReleasedCalls
      <3>9. undecided' = undecided
        BY <1>4 DEF BindingReleased
      <3>10. /\ \A j \in 1 .. n : ~IsKeycode(q[j]) /\ ~IsFirst(q[j])
                                  /\ q[j].op \notin {"position", "keymap", "listen"}
             /\ \A j \in 1 .. n : ByTimer(q[j]) => j = 1
             /\ \A j \in 1 .. n : Weighs(q[j]) => j = n
        BY <3>3, <3>4, <3>5, <3>6, <3>7
      <3>11. Fitting(q)
        BY <3>2, <3>8, <3>9, <3>10 DEF Fitting
      <3> QED
        BY <1>0, <3>1, <3>11, ShapeKept
    <2> QED
      BY <1>4, <2>1, <2>2, BindingReleasedCalls
  <1>5. CASE Release
    <2>1. todo[1].slot \in InUse
      BY <1>5, ReleaseHead
    <2>2. PICK q : Splices(q) /\ \A j \in 1 .. Len(q) : IsKeycode(q[j])
      BY <1>5, <2>1, ReleaseCalls
    <2>3. Lights(q) /\ \A j \in 1 .. Len(q) : ~ByTimer(q[j])
      BY <2>2 DEF Lights, IsKeycode, Light, ByTimer
    <2>4. Fitting(q)
      BY <1>5, <2>1, <2>2, <2>3, ReleaseCalls, LightFits
    <2> QED
      BY <1>0, <2>2, <2>4, ShapeKept
  <1> QED
    BY <1>2, <1>3, <1>4, <1>5

-----------------------------------------------------------------------------
(* Steps that leave the events on their way, and the captured ones, in order *)

SameCaptured ==
  \A k \in Places : (IsCaptured(k)' <=> IsCaptured(k)) /\ (IsCaptured(k) => captured'[k] = captured[k])
Events(d) ==
  /\ d \in Int
  /\ \A j \in Here : IsEvent(todo[j]) => j + d \in Here' /\ Like(todo'[j + d], todo[j])
  /\ \A j \in Here' : IsEvent(todo'[j]) => j - d \in Here /\ Like(todo'[j], todo[j - d])
Later(d) ==
  \A j \in Here, k \in Places : IsEvent(todo[j]) => (After(j + d, k)' <=> After(j, k))
Calm(d) == Events(d) /\ Later(d) /\ SameCaptured /\ owed' = owed /\ down' = down

\* What comes after a call.
LEMMA MovedAfter ==
  ASSUME todo \in Seq(Call), todo' \in Seq(Call), NEW d, NEW lo \in {0, 1}, NEW new, Moves(d, lo, new),
         NEW j \in Nat, j >= lo, NEW k \in Places
  PROVE  /\ After(j, k) => After(j + d, k)'
         /\ (\A i \in new : IsReplay(todo'[i]) => i <= j + d) => (After(j + d, k)' => After(j, k))
  <1>1. Here \subseteq Nat /\ Here' \subseteq Nat /\ d \in Int
    BY DEF Here, Moves
  <1>2. ASSUME After(j, k) PROVE After(j + d, k)'
    <2>1. PICK i \in Here : j < i /\ IsReplay(todo[i]) /\ todo[i].from <= k
      BY <1>2 DEF After
    <2>2. i > lo /\ Heavy(todo[i])
      BY <1>1, <2>1 DEF Heavy
    <2>3. i + d \in Here' /\ Like(todo'[i + d], todo[i])
      BY <2>2 DEF Moves
    <2>4. j + d < i + d
      BY <1>1, <2>1
    <2> QED
      BY <2>1, <2>3, <2>4 DEF Like, After
  <1>3. ASSUME \A i \in new : IsReplay(todo'[i]) => i <= j + d, After(j + d, k)' PROVE After(j, k)
    <2>1. PICK i \in Here' : j + d < i /\ IsReplay(todo'[i]) /\ todo'[i].from <= k
      BY <1>3 DEF After
    <2>2. i \notin new /\ Heavy(todo'[i])
      BY <1>1, <1>3, <2>1 DEF Heavy
    <2>3. i - d \in Here /\ Like(todo'[i], todo[i - d])
      BY <2>2 DEF Moves
    <2>4. j < i - d
      BY <1>1, <2>1
    <2> QED
      BY <2>1, <2>3, <2>4 DEF Like, After
  <1> QED
    BY <1>2, <1>3

LEMMA CalmMoves ==
  ASSUME todo \in Seq(Call), todo' \in Seq(Call), NEW d, NEW lo \in {0, 1}, NEW new, Moves(d, lo, new),
         \A i \in new : i \in Int /\ i <= 1 + d /\ (i \in Here' => ~IsEvent(todo'[i])),
         lo = 1 => ~IsEvent(todo[1])
  PROVE  Events(d) /\ Later(d)
  <1>1. Here \subseteq Nat /\ Here' \subseteq Nat /\ d \in Int /\ \A j \in Here : j >= 1
    BY DEF Here, Moves
  <1>2. ASSUME NEW j \in Here, IsEvent(todo[j])
        PROVE  j > lo /\ j + d \in Here' /\ Like(todo'[j + d], todo[j])
    <2>1. j > lo
      BY <1>1, <1>2
    <2> QED
      BY <1>2, <2>1 DEF Moves, Heavy
  <1>3. ASSUME NEW j \in Here', IsEvent(todo'[j]) PROVE j - d \in Here /\ Like(todo'[j], todo[j - d])
    BY <1>3 DEF Moves, Heavy
  <1>4. ASSUME NEW j \in Here, NEW k \in Places, IsEvent(todo[j]) PROVE After(j + d, k)' <=> After(j, k)
    <2>1. j \in Nat /\ j >= 1 /\ d \in Int
      BY <1>1
    <2>2. lo \in Nat /\ lo <= 1
      OBVIOUS
    <2>3. j >= lo
      BY ONLY <2>1, <2>2
    <2>4. ASSUME NEW i \in new PROVE i <= j + d
      <3>1. i \in Int /\ i <= 1 + d
        OBVIOUS
      <3> QED
        BY ONLY <2>1, <3>1
    <2> QED
      BY <2>1, <2>3, <2>4, MovedAfter
  <1> QED
    BY <1>1, <1>2, <1>3, <1>4 DEF Events, Later

LEMMA CalmKeeps ==
  ASSUME todo \in Seq(Call), todo' \in Seq(Call), NEW d, Keeps(d)
  PROVE  Events(d) /\ Later(d)
  BY CalmMoves DEF Keeps

LEMMA CalmDrops ==
  ASSUME todo \in Seq(Call), todo' \in Seq(Call), NEW d, Drops(d), ~IsEvent(todo[1])
  PROVE  Events(d) /\ Later(d)
  BY CalmMoves DEF Drops

LEMMA CalmOwed ==
  ASSUME OwedInv, NEW d, Calm(d)
  PROVE  OwedInv'
  <1>1. owed' = owed /\ Places' = Places
    BY DEF Calm, Places
  <1>2. ASSUME NEW j \in Here', IsEvent(todo'[j]) PROVE \E o \in owed : Stands(o, todo'[j])
    <2>1. j - d \in Here /\ Like(todo'[j], todo[j - d])
      BY <1>2 DEF Calm, Events
    <2> QED
      BY <1>2, <2>1 DEF OwedInv, Stands, Like
  <1>3. ASSUME NEW k \in Places, IsCaptured(k)' PROVE \E o \in owed : Stands(o, captured'[k])
    BY <1>3 DEF Calm, SameCaptured, OwedInv
  <1>4. ASSUME NEW o \in owed
        PROVE  \/ \E j \in Here' : IsEvent(todo'[j]) /\ todo'[j].n = o.n
               \/ \E k \in Places : IsCaptured(k)' /\ captured'[k].n = o.n
    <2>1. CASE \E j \in Here : IsEvent(todo[j]) /\ todo[j].n = o.n
      <3>1. PICK j \in Here : IsEvent(todo[j]) /\ todo[j].n = o.n
        BY <2>1
      <3>2. j + d \in Here' /\ Like(todo'[j + d], todo[j])
        BY <3>1 DEF Calm, Events
      <3> QED
        BY <3>1, <3>2 DEF Like
    <2>2. CASE \E k \in Places : IsCaptured(k) /\ captured[k].n = o.n
      BY <2>2 DEF Calm, SameCaptured
    <2> QED
      BY <2>1, <2>2 DEF OwedInv
  <1> QED
    BY <1>1, <1>2, <1>3, <1>4 DEF OwedInv

LEMMA CalmLine ==
  ASSUME todo \in Seq(Call), todo' \in Seq(Call), LineInv, NEW d, Calm(d)
  PROVE  LineInv'
  <1>1. Here \subseteq Nat /\ Here' \subseteq Nat /\ d \in Int /\ Places' = Places
    BY DEF Here, Calm, Events, Places
  <1>2. ASSUME NEW j \in Here', IsEvent(todo'[j])
        PROVE  j - d \in Here /\ IsEvent(todo[j - d]) /\ todo'[j].n = todo[j - d].n
    BY <1>2 DEF Calm, Events, Like
  <1>3. ASSUME NEW i \in Here', NEW j \in Here', i < j, IsEvent(todo'[i]), IsEvent(todo'[j])
        PROVE  todo'[i].n < todo'[j].n
    <2>1. i - d < j - d
      BY <1>1, <1>3
    <2> QED
      BY <1>2, <1>3, <2>1 DEF LineInv
  <1>4. ASSUME NEW k \in Places, NEW l \in Places, k < l, IsCaptured(k)', IsCaptured(l)'
        PROVE  captured'[k].n < captured'[l].n
    BY <1>4 DEF Calm, SameCaptured, LineInv
  <1>5. ASSUME NEW j \in Here', NEW k \in Places, IsEvent(todo'[j]), IsCaptured(k)'
        PROVE  /\ After(j, k)' => todo'[j].n < captured'[k].n
               /\ ~After(j, k)' => captured'[k].n < todo'[j].n
    <2>1. PICK i \in Here : i = j - d /\ IsEvent(todo[i]) /\ todo'[j].n = todo[i].n
      BY <1>2, <1>5
    <2>2. j = i + d
      BY <1>1, <2>1
    <2>3. After(j, k)' <=> After(i, k)
      <3>1. After(i + d, k)' <=> After(i, k)
        BY <2>1 DEF Calm, Later
      <3> QED
        BY <2>2, <3>1
    <2>4. IsCaptured(k) /\ captured'[k] = captured[k]
      BY <1>5 DEF Calm, SameCaptured
    <2> QED
      BY <2>1, <2>3, <2>4 DEF LineInv
  <1> QED
    BY <1>1, <1>3, <1>4, <1>5 DEF LineInv

LEMMA CalmTurns ==
  ASSUME TurnsInv, NEW d, Calm(d)
  PROVE  TurnsInv'
  BY DEF TurnsInv, Calm, Opposite

-----------------------------------------------------------------------------
(* Kinds of steps *)

\* The slots keep their keys.
SameKeys ==
  setup' = setup /\ InUse' = InUse /\ \A i \in InUse : slots'[i].key = slots[i].key
SameLine == undecided' = undecided /\ owed' = owed /\ down' = down

\* Nothing but the calls around the events changes.
Passing ==
  \/ Interrupt
  \/ Listen
  \/ DecideNothing
  \/ StartTimer
  \/ Capture /\ UNCHANGED captured
  \/ KeycodeRaised /\ UNCHANGED captured
Rolls(d) == Keeps(d) /\ SameKeys /\ SameLine /\ captured' = captured

LEMMA PassingFrame ==
  ASSUME TypeInv, Passing
  PROVE  SameKeys /\ SameLine /\ captured' = captured
  <1>1. setup' = setup /\ SameLine /\ captured' = captured
    BY DEF Passing, SameLine, Interrupt, Listen, DecideNothing, StartTimer, Capture, KeycodeRaised,
           input, history, code
  <1>2. \A i \in Slot : slots'[i].key = slots[i].key
    <2>1. CASE Interrupt
      <3>1. PICK held : slots' = [i \in Slot |-> IF i \in held THEN [slots[i] EXCEPT !.status = "interrupt"]
                                                 ELSE slots[i]]
        BY <2>1 DEF Interrupt
      <3>2. \A i \in Slot : [slots[i] EXCEPT !.status = "interrupt"].key = slots[i].key
        BY TypeFacts DEF Row
      <3> QED
        BY <3>1, <3>2
    <2>2. CASE Listen
      <3>1. \/ slots' = slots
            \/ \E f : slots' = [slots EXCEPT ![undecided].first = f]
        BY <2>2 DEF Listen
      <3>2. ASSUME NEW f, slots' = [slots EXCEPT ![undecided].first = f], NEW i \in Slot
            PROVE  slots'[i].key = slots[i].key
        BY <3>2, TypeFacts DEF Row
      <3> QED
        BY <3>1, <3>2
    <2>3. CASE ~Interrupt /\ ~Listen
      <3>1. slots' = slots
        BY <2>3 DEF Passing, DecideNothing, StartTimer, Capture, KeycodeRaised, code
      <3> QED
        BY <3>1
    <2> QED
      BY <2>1, <2>2, <2>3
  <1> QED
    BY <1>1, <1>2 DEF SameKeys, InUse

LEMMA PassingRolls ==
  ASSUME TypeInv, Passing, ~Lost'
  PROVE  \E d : Rolls(d)
  <1>0. todo \in Seq(Call)
    BY DEF TypeInv
  <1>1. ASSUME NEW q, NEW o, Onward(q, o) PROVE \E d : Keeps(d)
    BY <1>0, <1>1, CarrySteps DEF Onward
  <1>2. ASSUME NEW q, Splices(q), Lights(q), Light(todo[1]) PROVE \E d : Keeps(d)
    BY <1>0, <1>2, LightSteps
  <1>3. \E d : Keeps(d)
    <2>1. CASE Interrupt
      BY <1>1, <2>1, InterruptCalls
    <2>2. CASE Listen
      BY <1>1, <2>2, ListenCalls
    <2>3. CASE DecideNothing
      BY <1>2, <2>3, DecideNothingCalls
    <2>4. CASE StartTimer
      BY <1>2, <2>4, StartTimerCalls
    <2>5. CASE Capture /\ UNCHANGED captured
      <3>1. CASE \E q : Onward(q, "keymap")
        BY <1>1, <3>1
      <3>2. CASE Capturing([todo[1] EXCEPT !.op = "position"])
        <4>1. PICK c : c = todo[1]
          OBVIOUS
        <4>2. c \in PositionEvent(Moving)
          BY <2>5, <4>1, CaptureCalls, Heads, CallKinds
        <4>3. [c EXCEPT !.op = "position"] \in PositionEvent({"position"})
          BY <4>2, Renamed DEF Moving
        <4>4. PICK e \in PositionEvent({"position"}) : e = [c EXCEPT !.op = "position"] /\ Capturing(e)
          BY <3>2, <4>1, <4>3
        <4>5. PICK g \in Gaps : captured' = [captured EXCEPT ![g] = e]
          BY <4>4, TypeFacts, CapturedKept
        <4>6. captured[g] = None /\ captured'[g] = e /\ e # None
          BY <4>5, TypeFacts, Boards DEF Gaps
        <4> QED
          BY <2>5, <4>6
      <3> QED
        BY <2>5, <3>1, <3>2, CaptureCalls
    <2>6. CASE KeycodeRaised /\ UNCHANGED captured
      BY <1>2, <2>6, KeycodeCalls
    <2> QED
      BY <2>1, <2>2, <2>3, <2>4, <2>5, <2>6 DEF Passing
  <1> QED
    BY <1>3, PassingFrame DEF Rolls

\* An event is captured, in the first gap: a key event, or a hold.
Caught(e, g) ==
  /\ todo # <<>> /\ SameKeys /\ SameLine /\ undecided # 0
  /\ g \in Places /\ captured[g] = None /\ (\A k \in Places : captured[k] = None => g <= k)
  /\ captured' = [captured EXCEPT ![g] = e] /\ e # None
Taken(e, g) ==
  /\ Caught(e, g) /\ e.op = "position" /\ IsEvent(todo[1]) /\ Drops(0)
  /\ e.n = todo[1].n /\ e.key = todo[1].key /\ e.down = todo[1].down
  /\ ~Bubbles(todo[1])
HoldCaught(e, g) ==
  /\ Caught(e, g) /\ e.op = "keycode" /\ IsHold(todo[1]) /\ Catching /\ Keeps(0 - 1)

LEMMA CaptureTakes ==
  ASSUME TypeInv, Capture, ~(UNCHANGED captured), ~Lost'
  PROVE  \E e, g : Taken(e, g)
  <1>1. /\ todo # <<>> /\ undecided # 0 /\ ~Bubbles(todo[1])
        /\ Capturing([todo[1] EXCEPT !.op = "position"])
        /\ \E q : Splices(q) /\ Lights(q) /\ Len(q) = 1
    BY CaptureCalls
  <1>2. PICK c \in PositionEvent(Moving) : c = todo[1] /\ IsEvent(todo[1])
    BY CaptureCalls, Heads, CallKinds
  <1>3. PICK e : e = [c EXCEPT !.op = "position"]
    OBVIOUS
  <1>4. /\ e \in PositionEvent({"position"}) /\ e.op = "position"
        /\ e.n = c.n /\ e.key = c.key /\ e.down = c.down
    BY <1>3, Renamed DEF Moving
  <1>5. Capturing(e)
    BY <1>1, <1>2, <1>3
  <1>6. PICK g \in Gaps : /\ captured' = [captured EXCEPT ![g] = e] /\ g \in Places
                          /\ \A k \in Places : captured[k] = None => g <= k
    BY <1>4, <1>5, TypeFacts, CapturedKept
  <1>7. captured[g] = None /\ e # None
    BY <1>4, <1>6, TypeFacts, Boards DEF Gaps
  <1>8. Drops(0)
    <2>1. PICK q : Splices(q) /\ Lights(q) /\ Len(q) = 1
      BY <1>1
    <2>2. Drops(Len(q) - 1)
      BY <2>1, LightSteps DEF TypeInv
    <2>3. Len(q) - 1 = 0
      BY <2>1
    <2> QED
      BY <2>2, <2>3
  <1>9. SameLine /\ SameKeys
    BY DEF Capture, SameLine, SameKeys, input, InUse
  <1> QED
    BY <1>1, <1>2, <1>4, <1>6, <1>7, <1>8, <1>9 DEF Taken, Caught

LEMMA KeycodeCaught ==
  ASSUME TypeInv, KeycodeRaised, ~(UNCHANGED captured), ~Lost'
  PROVE  \E e, g : HoldCaught(e, g)
  <1>1. /\ todo # <<>> /\ Light(todo[1]) /\ todo[1] \in KeycodeEvent /\ Catching /\ IsHold(todo[1])
        /\ Capturing(todo[1]) /\ \E q : Splices(q) /\ Lights(q) /\ Len(q) = 0
    BY KeycodeCalls
  <1>2. PICK e \in KeycodeEvent : e = todo[1]
    BY <1>1
  <1>3. PICK g \in Gaps : /\ captured' = [captured EXCEPT ![g] = e] /\ g \in Places
                          /\ \A k \in Places : captured[k] = None => g <= k
    BY <1>1, <1>2, TypeFacts, CapturedKept
  <1>4. captured[g] = None /\ e # None /\ e.op = "keycode"
    BY <1>3, TypeFacts, Boards DEF Gaps, KeycodeEvent
  <1>5. Keeps(0 - 1)
    <2>1. PICK q : Splices(q) /\ Lights(q) /\ Len(q) = 0
      BY <1>1
    <2>2. Keeps(Len(q) - 1) /\ Len(q) - 1 = 0 - 1
      BY <1>1, <2>1, LightSteps DEF TypeInv
    <2> QED
      BY <2>2
  <1>6. SameLine /\ SameKeys
    BY DEF KeycodeRaised, SameLine, SameKeys, input, InUse
  <1> QED
    BY <1>1, <1>3, <1>4, <1>5, <1>6 DEF HoldCaught, Caught, Catching

\* A decision is taken: a replay from the start, and nothing is undecided.
Decided(p) ==
  /\ todo # <<>> /\ SameKeys /\ captured' = captured /\ owed' = owed /\ down' = down
  /\ undecided # 0 /\ undecided' = 0 /\ Light(todo[1]) /\ ~IsKeycode(todo[1])
  /\ p \in Here' /\ todo'[p] = Replay(1) /\ Moves(p - 1, 0, {p})

LEMMA MovesAll ==
  ASSUME todo \in Seq(Call), todo # <<>>, NEW d, NEW new, Moves(d, 1, new), Light(todo[1])
  PROVE  Moves(d, 0, new)
  <1>1. 1 \in Here /\ todo[1] \in Call /\ \A j \in Here : j \in Nat /\ j >= 1
    <2>1. Len(todo) \in Nat /\ Len(todo) > 0
      BY EmptySeq
    <2> QED
      BY <2>1 DEF Here
  <1>2. ~Heavy(todo[1])
    BY <1>1, LightOrHeavy
  <1>3. \A j \in Here : Heavy(todo[j]) => j > 1
    BY <1>1, <1>2
  <1>4. \A j \in Here : j > 0
    BY <1>1
  <1> QED
    BY <1>3, <1>4 DEF Moves

LEMMA DecideFinallyIs ==
  ASSUME TypeInv, DecideFinally
  PROVE  \E p : Decided(p)
  <1>1. /\ todo # <<>> /\ Light(todo[1]) /\ ~IsKeycode(todo[1]) /\ undecided # 0 /\ undecided' = 0
        /\ \E st : slots' = [slots EXCEPT ![undecided].status = st]
        /\ \E q : /\ Splices(q) /\ Len(q) > 0 /\ q[Len(q)] = Replay(1)
                  /\ \A j \in 1 .. Len(q) : j < Len(q) => IsKeycode(q[j])
    BY DecideFinallyCalls
  <1>2. PICK q : /\ Splices(q) /\ Len(q) > 0 /\ q[Len(q)] = Replay(1)
                 /\ \A j \in 1 .. Len(q) : j < Len(q) => IsKeycode(q[j])
    BY <1>1
  <1>3. todo \in Seq(Call)
    BY DEF TypeInv
  <1>4. PICK p \in Nat : p = Len(q) /\ p > 0 /\ p \in 1 .. Len(q)
    BY <1>2, <1>3, Splicing
  <1>5. p \in Here' /\ todo'[p] = Replay(1)
    BY <1>2, <1>3, <1>4, Splicing
  <1>6. {j \in 1 .. Len(q) : Heavy(q[j])} = {p}
    <2>1. \A j \in 1 .. Len(q) : j = p \/ j < p
      BY <1>4
    <2>2. \A j \in 1 .. Len(q) : j < p => ~Heavy(q[j])
      BY <1>2, <1>4 DEF IsKeycode, Heavy, IsEvent, IsReplay, IsEnding, Moving
    <2>3. Heavy(q[p])
      BY <1>2, <1>4 DEF Heavy, IsReplay, Replay
    <2> QED
      BY <1>4, <2>1, <2>2, <2>3
  <1>7. Moves(p - 1, 0, {p})
    <2>1. Moves(Len(q) - 1, 1, {p})
      BY <1>2, <1>3, <1>6, Rest
    <2>2. Moves(p - 1, 1, {p})
      BY <1>4, <2>1
    <2> QED
      BY <1>1, <1>3, <2>2, MovesAll
  <1>8. captured' = captured /\ owed' = owed /\ down' = down /\ setup' = setup
    BY DEF DecideFinally, input
  <1>9. SameKeys
    <2>1. PICK st : slots' = [slots EXCEPT ![undecided].status = st]
      BY <1>1
    <2>2. \A i \in Slot : slots'[i].key = slots[i].key
      BY <2>1, TypeFacts DEF Row
    <2> QED
      BY <1>8, <2>2 DEF SameKeys, InUse
  <1> QED
    BY <1>1, <1>5, <1>7, <1>8, <1>9 DEF Decided

\* A replay ends, or raises one event and goes on.
Stops ==
  /\ todo # <<>> /\ IsReplay(todo[1]) /\ todo[1].from \in 1 .. MaxCaptured + 1
  /\ \/ todo[1].from = 1 /\ undecided # 0
     \/ todo[1].from > MaxCaptured
     \/ captured[todo[1].from] = None
  /\ SameKeys /\ SameLine /\ captured' = captured /\ Drops(0 - 1)
Raises(n) ==
  /\ todo # <<>> /\ IsReplay(todo[1]) /\ n = todo[1].from /\ n \in Places /\ captured[n] # None
  /\ n = 1 => undecided = 0
  /\ SameKeys /\ SameLine /\ captured' = [captured EXCEPT ![n] = None]
  /\ 1 \in Here' /\ todo'[1] = captured[n]
  /\ 2 \in Here' /\ todo'[2] = Replay(n + 1) /\ Moves(1, 1, {1, 2})

LEMMA ReplayNextIs ==
  ASSUME TypeInv, ReplayNext
  PROVE  Stops \/ \E n : Raises(n)
  <1>1. /\ todo # <<>> /\ IsReplay(todo[1]) /\ todo[1].from \in 1 .. MaxCaptured + 1
    BY ReplayCalls
  <1>2. SameKeys /\ SameLine
    BY DEF ReplayNext, SameKeys, SameLine, InUse, input, history
  <1>3. todo \in Seq(Call)
    BY DEF TypeInv
  <1>4. CASE /\ (todo[1].from = 1 /\ undecided # 0) \/ todo[1].from > MaxCaptured
                \/ captured[todo[1].from] = None
             /\ captured' = captured
             /\ \E q : Splices(q) /\ Lights(q) /\ Len(q) = 0
    <2>1. PICK q : Splices(q) /\ Lights(q) /\ Len(q) = 0
      BY <1>4
    <2>2. Drops(Len(q) - 1)
      BY <1>3, <2>1, LightSteps
    <2>3. Len(q) - 1 = 0 - 1
      BY <2>1
    <2> QED
      BY <1>1, <1>2, <1>4, <2>2, <2>3 DEF Stops
  <1>5. CASE /\ ~(todo[1].from = 1 /\ undecided # 0) /\ todo[1].from \in Places
             /\ captured[todo[1].from] # None
             /\ captured' = [captured EXCEPT ![todo[1].from] = None]
             /\ \E q : /\ Splices(q) /\ Len(q) = 2
                       /\ q[1] = captured[todo[1].from] /\ q[2] = Replay(todo[1].from + 1)
    <2>1. PICK q : /\ Splices(q) /\ Len(q) = 2
                   /\ q[1] = captured[todo[1].from] /\ q[2] = Replay(todo[1].from + 1)
      BY <1>5
    <2>2. PICK n : n = todo[1].from
      OBVIOUS
    <2>3. 1 \in 1 .. Len(q) /\ 2 \in 1 .. Len(q) /\ Len(q) - 1 = 1
      BY <2>1
    <2>4. 1 \in Here' /\ todo'[1] = q[1] /\ 2 \in Here' /\ todo'[2] = q[2]
      BY <1>3, <2>1, <2>3, Splicing
    <2>5. Moves(1, 1, {1, 2})
      <3>1. Moves(Len(q) - 1, 1, {j \in 1 .. Len(q) : Heavy(q[j])})
        BY <1>3, <2>1, Rest
      <3>2. {j \in 1 .. Len(q) : Heavy(q[j])} \subseteq {1, 2}
        BY <2>1
      <3>3. PICK new : new = {j \in 1 .. Len(q) : Heavy(q[j])}
        OBVIOUS
      <3>4. Moves(1, 1, new) /\ new \subseteq {1, 2}
        BY <2>3, <3>1, <3>2, <3>3
      <3> QED
        BY <3>4 DEF Moves
    <2> QED
      BY <1>1, <1>2, <1>5, <2>1, <2>2, <2>4, <2>5 DEF Raises
  <1> QED
    BY <1>4, <1>5, ReplayCalls

\* The keymap gets an event: a slot takes it, ends, or nothing more happens.
Delivery(d, new) ==
  /\ AtKeymap /\ Delivered(todo[1]) /\ Moves(d, 1, new)
  /\ captured' = captured /\ down' = down /\ setup' = setup
Nothing(d) == Delivery(d, {}) /\ SameKeys /\ undecided' = undecided /\ slots' = slots
NewSlot(i, d) ==
  /\ Delivery(d, {}) /\ todo[1].down /\ todo[1].key \in HoldTap /\ undecided = 0
  /\ i \in Slot \ InUse /\ undecided' = i
  /\ slots' = [slots EXCEPT ![i] = [Free EXCEPT !.key = todo[1].key, !.time = todo[1].time]]
Ends(i, d) ==
  /\ Delivery(d, {d + 1}) /\ ~todo[1].down /\ i \in Found(todo[1].key)
  /\ SameKeys /\ undecided' = undecided /\ slots' = slots
  /\ d \in {1, 2} /\ d \in Here' /\ d + 1 \in Here' /\ d < Len(todo')
  /\ todo'[d + 1] = Ending(i) /\ todo'[d] = Decide(i, "key-up")

LEMMA LightDelivery ==
  ASSUME TypeInv, AtKeymap, Delivered(todo[1]), captured' = captured, down' = down, setup' = setup,
         NEW q, Splices(q), Lights(q)
  PROVE  \E d : Delivery(d, {})
  BY LightSteps DEF TypeInv, Delivery, Drops

LEMMA KeymapIs ==
  ASSUME TypeInv, PlainKey \/ BindingPressed \/ BindingReleased
  PROVE  \/ PlainKey /\ \E d : Nothing(d)
         \/ todo[1].down /\ todo[1].key \in HoldTap /\ \E d : Nothing(d)
         \/ ~todo[1].down /\ Found(todo[1].key) = {} /\ \E d : Nothing(d)
         \/ \E i, d : NewSlot(i, d)
         \/ \E i, d : Ends(i, d)
  <1>1. captured' = captured /\ down' = down /\ setup' = setup
    BY DEF PlainKey, BindingPressed, BindingReleased, input, code
  <1>2. AtKeymap /\ Delivered(todo[1])
    BY PlainKeyCalls, BindingPressedCalls, BindingReleasedCalls
  <1>3. ASSUME slots' = slots PROVE SameKeys
    BY <1>1, <1>3 DEF SameKeys, InUse
  <1>4. CASE PlainKey
    <2>1. \E d : Delivery(d, {})
      BY <1>1, <1>2, <1>4, PlainKeyCalls, LightDelivery
    <2>2. slots' = slots /\ undecided' = undecided
      BY <1>4 DEF PlainKey, code
    <2> QED
      BY <1>3, <1>4, <2>1, <2>2 DEF Nothing
  <1>5. CASE BindingPressed
    <2>1. \E d : Delivery(d, {})
      BY <1>1, <1>2, <1>5, BindingPressedCalls, LightDelivery
    <2>2. todo[1].key \in HoldTap /\ todo[1].down
      BY <1>5, BindingPressedCalls
    <2>3. CASE slots' = slots /\ undecided' = undecided
      BY <1>3, <2>1, <2>2, <2>3 DEF Nothing
    <2>4. CASE /\ undecided = 0
               /\ \E i \in Slot \ InUse :
                    /\ slots' = [slots EXCEPT ![i] = [Free EXCEPT !.key = todo[1].key, !.time = todo[1].time]]
                    /\ undecided' = i
      BY <2>1, <2>2, <2>4 DEF NewSlot
    <2> QED
      BY <1>5, <2>3, <2>4, BindingPressedCalls
  <1>6. CASE BindingReleased
    <2>1. ~todo[1].down
      BY <1>6, BindingReleasedCalls
    <2>2. slots' = slots /\ undecided' = undecided
      BY <1>6 DEF BindingReleased
    <2>3. CASE Found(todo[1].key) = {} /\ \E q : Splices(q) /\ Lights(q)
      <3>1. \E d : Delivery(d, {})
        BY <1>1, <1>2, <2>3, LightDelivery
      <3> QED
        BY <1>3, <2>1, <2>2, <2>3, <3>1 DEF Nothing
    <2>4. CASE \E i \in Found(todo[1].key) : \E q :
                 /\ Splices(q) /\ Len(q) \in {2, 3} /\ q[Len(q)] = Ending(i)
                 /\ q[Len(q) - 1] = Decide(i, "key-up")
                 /\ \A j \in 1 .. Len(q) : j < Len(q) => Light(q[j])
      <3>1. PICK i \in Found(todo[1].key) : \E q :
                 /\ Splices(q) /\ Len(q) \in {2, 3} /\ q[Len(q)] = Ending(i)
                 /\ q[Len(q) - 1] = Decide(i, "key-up")
                 /\ \A j \in 1 .. Len(q) : j < Len(q) => Light(q[j])
        BY <2>4
      <3>2. PICK q :
                 /\ Splices(q) /\ Len(q) \in {2, 3} /\ q[Len(q)] = Ending(i)
                 /\ q[Len(q) - 1] = Decide(i, "key-up")
                 /\ \A j \in 1 .. Len(q) : j < Len(q) => Light(q[j])
        BY <3>1
      <3>3. PICK d \in {1, 2} : d = Len(q) - 1
        BY <3>2
      <3>4. Len(q) = d + 1 /\ d \in 1 .. Len(q) /\ d + 1 \in 1 .. Len(q) /\ d + 1 \in Nat
        BY <3>2, <3>3
      <3>5. todo \in Seq(Call)
        BY DEF TypeInv
      <3>6. /\ d \in Here' /\ d + 1 \in Here'
            /\ todo'[d] = q[d] /\ todo'[d + 1] = q[d + 1]
        BY <3>2, <3>4, <3>5, Splicing
      <3>7. todo'[d] = Decide(i, "key-up") /\ todo'[d + 1] = Ending(i)
        BY <3>2, <3>3, <3>4, <3>6
      <3>8. {j \in 1 .. Len(q) : Heavy(q[j])} = {d + 1}
        <4>1. \A j \in 1 .. d + 1 : j = d + 1 \/ j < d + 1
          BY <3>3
        <4>2. \A j \in 1 .. d + 1 : j < d + 1 => ~Heavy(q[j])
          BY <3>2, <3>4, LightOrHeavy DEF Splices
        <4>3. Heavy(q[d + 1])
          BY <3>2, <3>4 DEF Heavy, IsEnding, Ending
        <4> QED
          BY <3>4, <4>1, <4>2, <4>3
      <3>9. Moves(d, 1, {d + 1})
        <4>1. Moves(Len(q) - 1, 1, {d + 1})
          BY <3>2, <3>5, <3>8, Rest
        <4> QED
          BY <3>3, <4>1
      <3>10. d < Len(todo')
        <4>1. Here' = 1 .. Len(todo')
          BY DEF Here
        <4>2. Len(todo') \in Nat
          BY <3>2, <3>5, Splicing
        <4> QED
          BY <3>3, <3>6, <4>1, <4>2
      <3> QED
        BY <1>1, <1>2, <1>3, <2>1, <2>2, <3>1, <3>3, <3>6, <3>7, <3>9, <3>10 DEF Ends, Delivery
    <2> QED
      BY <1>6, <2>3, <2>4, BindingReleasedCalls
  <1> QED
    BY <1>4, <1>5, <1>6

\* A release comes to its end: the slot is free.
Frees(d) ==
  /\ todo # <<>> /\ IsEnding(todo[1]) /\ todo[1].slot \in InUse /\ todo[1].slot # undecided
  /\ slots' = [slots EXCEPT ![todo[1].slot] = Free] /\ setup' = setup
  /\ SameLine /\ captured' = captured /\ Drops(d)

LEMMA ReleaseIs ==
  ASSUME TypeInv, EndingInv, KeyUpInv, Unlingering, Release
  PROVE  \E d : Frees(d)
  <1>1. /\ todo # <<>> /\ IsEnding(todo[1]) /\ todo[1].slot \in InUse /\ todo[1].slot # undecided
    BY ReleaseHead
  <1>2. PICK q : Splices(q) /\ \A j \in 1 .. Len(q) : IsKeycode(q[j])
    BY <1>1, ReleaseCalls
  <1>3. Lights(q)
    BY <1>2 DEF Lights, IsKeycode, Light
  <1>4. \E d : Drops(d)
    BY <1>2, <1>3, LightSteps DEF TypeInv
  <1>5. slots' = [slots EXCEPT ![todo[1].slot] = Free]
    BY <1>1, ReleaseCalls
  <1>6. UNCHANGED <<input, undecided, captured, timers, on, history>>
    BY ONLY Release, Zenon DEF Release
  <1>7. setup' = setup /\ SameLine /\ captured' = captured
    BY <1>6 DEF input, history, SameLine
  <1> QED
    BY <1>1, <1>4, <1>5, <1>7 DEF Frees

LEMMA CalmSteps ==
  ASSUME TypeInv, todo' \in Seq(Call)
  PROVE  /\ \A d : Rolls(d) => Calm(d)
         /\ \A p : Decided(p) => Calm(p - 1)
         /\ Stops => Calm(0 - 1)
         /\ \A d : Frees(d) => Calm(d)
         /\ \A e, g : HoldCaught(e, g) => Calm(0 - 1)
         /\ \A n : Raises(n) /\ ~IsCaptured(n) => Calm(1)
  <1>0. todo \in Seq(Call)
    BY DEF TypeInv
  <1>1. ASSUME captured' = captured PROVE SameCaptured
    BY <1>1 DEF SameCaptured, IsCaptured
  <1>2. ASSUME NEW d, Rolls(d) PROVE Calm(d)
    BY <1>0, <1>1, <1>2, CalmKeeps DEF Rolls, Calm, SameLine
  <1>3. ASSUME NEW p, Decided(p) PROVE Calm(p - 1)
    <2>1. p \in Int /\ todo'[p] = Replay(1) /\ Moves(p - 1, 0, {p}) /\ captured' = captured
      BY <1>3 DEF Decided, Here
    <2>2. PICK d \in Int : d = p - 1
      BY <2>1
    <2>3. ~IsEvent(todo'[p])
      BY <2>1 DEF IsEvent, Moving, Replay
    <2>4. \A i \in {p} : i \in Int /\ i <= 1 + d /\ (i \in Here' => ~IsEvent(todo'[i]))
      BY <2>1, <2>2, <2>3
    <2>5. Moves(d, 0, {p})
      BY <2>1, <2>2
    <2>6. Events(d) /\ Later(d)
      BY <1>0, <2>4, <2>5, CalmMoves
    <2> QED
      BY <1>1, <1>3, <2>1, <2>2, <2>6 DEF Calm, Decided
  <1>4. ASSUME Stops PROVE Calm(0 - 1)
    <2>1. ~IsEvent(todo[1])
      BY <1>4 DEF Stops, IsReplay, IsEvent, Moving
    <2> QED
      BY <1>0, <1>1, <1>4, <2>1, CalmDrops DEF Stops, Calm, SameLine
  <1>5. ASSUME NEW d, Frees(d) PROVE Calm(d)
    <2>1. ~IsEvent(todo[1])
      BY <1>5 DEF Frees, IsEnding, IsEvent, Moving
    <2> QED
      BY <1>0, <1>1, <1>5, <2>1, CalmDrops DEF Frees, Calm, SameLine
  <1>6. ASSUME NEW e, NEW g, HoldCaught(e, g) PROVE Calm(0 - 1)
    <2>1. /\ captured' = [captured EXCEPT ![g] = e] /\ g \in Places /\ captured[g] = None
          /\ e.op = "keycode"
      BY <1>6 DEF HoldCaught, Caught
    <2>2. \A k \in Places : captured'[k] = IF k = g THEN e ELSE captured[k]
      BY <2>1, TypeFacts DEF CapturedType
    <2>3. SameCaptured
      BY <2>1, <2>2 DEF SameCaptured, IsCaptured
    <2> QED
      BY <1>0, <1>6, <2>3, CalmKeeps DEF HoldCaught, Caught, Calm, SameLine
  <1>7. ASSUME NEW n, Raises(n), ~IsCaptured(n) PROVE Calm(1)
    <2>1. /\ captured' = [captured EXCEPT ![n] = None] /\ n \in Places /\ captured[n] # None
          /\ todo'[1] = captured[n] /\ todo'[2] = Replay(n + 1) /\ Moves(1, 1, {1, 2})
          /\ IsReplay(todo[1])
      BY <1>7 DEF Raises
    <2>2. captured[n] \in KeycodeEvent
      BY <1>7, <2>1, TypeFacts DEF CapturedType, IsCaptured, PositionEvent
    <2>3. ~IsEvent(todo'[1]) /\ ~IsEvent(todo'[2]) /\ ~IsEvent(todo[1])
      BY <2>1, <2>2 DEF IsEvent, Moving, Replay, KeycodeEvent, IsReplay
    <2>4. \A i \in {1, 2} : i \in Int /\ i <= 1 + 1 /\ (i \in Here' => ~IsEvent(todo'[i]))
      BY <2>3
    <2>5. Events(1) /\ Later(1)
      <3>0. PICK d \in {0, 1} : d = 1
        OBVIOUS
      <3>1. PICK new : new = {1, 2}
        OBVIOUS
      <3>2. Moves(d, d, new) /\ \A i \in new : i \in Int /\ i <= 1 + d /\ (i \in Here' => ~IsEvent(todo'[i]))
        BY <2>1, <2>4, <3>0, <3>1
      <3>3. Events(d) /\ Later(d)
        BY <1>0, <2>3, <3>2, CalmMoves
      <3> QED
        BY <3>0, <3>1, <3>3
    <2>6. \A k \in Places : captured'[k] = IF k = n THEN None ELSE captured[k]
      BY <2>1, TypeFacts DEF CapturedType
    <2>7. SameCaptured
      BY <1>7, <2>6 DEF SameCaptured, IsCaptured
    <2> QED
      BY <1>7, <2>5, <2>7 DEF Raises, Calm, SameLine
  <1> QED
    BY <1>2, <1>3, <1>4, <1>5, <1>6, <1>7

-----------------------------------------------------------------------------
(* What the first call knows of the keys on their way *)

\* One that is on its way is owed.
LEMMA Own ==
  ASSUME TypeInv, OwedInv, NEW j \in Here, IsEvent(todo[j])
  PROVE  \E o \in owed : /\ Stands(o, todo[j]) /\ todo[j].n \in Nat
                         /\ \A q \in owed : q.n = todo[j].n => q = o
  BY TypeFacts DEF OwedInv, Stands

\* What is owed and older than the first event is captured, and not to be replayed
\* any more.
LEMMA Older ==
  ASSUME TypeInv, OwedInv, LineInv, todo # <<>>, IsEvent(todo[1]), NEW o \in owed, o.n < todo[1].n
  PROVE  \E k \in Places : IsCaptured(k) /\ Stands(o, captured[k]) /\ ~Behind(k)
  <1>1. 1 \in Here /\ \A j \in Here : j = 1 \/ 1 < j
    BY Heads DEF Here
  <1>2. PICK e : e \in owed /\ Stands(e, todo[1])
    BY <1>1, Own
  <1>3. o.n \in Nat /\ todo[1].n \in Nat
    BY <1>2, TypeFacts DEF Stands
  <1>4. ASSUME NEW j \in Here, IsEvent(todo[j]) PROVE todo[j].n # o.n
    <2>1. CASE j = 1
      BY <1>3, <2>1
    <2>2. CASE 1 < j
      <3>1. todo[1].n < todo[j].n
        BY <1>1, <1>4, <2>2 DEF LineInv
      <3>2. todo[j].n \in Nat
        BY <1>4, Own
      <3> QED
        BY <1>3, <3>1, <3>2
    <2> QED
      BY <1>1, <2>1, <2>2
  <1>5. PICK k \in Places : IsCaptured(k) /\ captured[k].n = o.n
    BY <1>4 DEF OwedInv
  <1>6. Stands(o, captured[k])
    BY <1>5 DEF OwedInv, Stands
  <1>7. ~After(1, k)
    <2>1. After(1, k) => todo[1].n < captured[k].n
      BY <1>1, <1>5 DEF LineInv
    <2> QED
      BY <1>3, <1>5, <2>1
  <1>8. ~Behind(k)
    <2>1. ~IsReplay(todo[1])
      BY DEF IsReplay, IsEvent, Moving
    <2>2. ASSUME NEW i \in Here, IsReplay(todo[i]), todo[i].from <= k PROVE FALSE
      <3>1. 1 < i
        BY <1>1, <2>1, <2>2
      <3> QED
        BY <1>7, <2>2, <3>1 DEF After
    <2> QED
      BY <2>2 DEF Behind, After
  <1> QED
    BY <1>5, <1>6, <1>8

\* What is captured and not to be replayed any more waits for a decision.
LEMMA Held ==
  ASSUME TypeInv, Cover, NEW k \in Places, captured[k] # None, ~Behind(k)
  PROVE  undecided # 0 /\ Filled(1, k)
  <1>1. \A j \in Here : 0 < j
    BY DEF Here
  <1> QED
    BY <1>1 DEF Cover, Behind, After

\* A press on its way has no slot yet.
LEMMA NoSlot ==
  ASSUME TypeInv, OwedInv, LineInv, EndingInv, SlotsInv, todo # <<>>, IsEvent(todo[1]), todo[1].down
  PROVE  \A i \in InUse : slots[i].key # todo[1].key
  <1>1. 1 \in Here /\ \A j \in Here : j = 1 \/ 1 < j
    BY Heads DEF Here
  <1>2. SUFFICES ASSUME NEW i \in InUse, slots[i].key = todo[1].key PROVE FALSE
    OBVIOUS
  <1>3. ~HasEnding(i)
    <2>1. SUFFICES ASSUME NEW j \in Here, IsEnding(todo[j]), todo[j].slot = i PROVE FALSE
      BY DEF HasEnding
    <2>2. ~IsEnding(todo[1])
      BY DEF IsEnding, IsEvent, Moving
    <2>3. 1 < j
      BY <1>1, <2>1, <2>2
    <2> QED
      BY <1>1, <1>2, <2>1, <2>3 DEF EndingInv
  <1>4. PICK o \in owed : Stands(o, todo[1])
    BY <1>1, Own
  <1>5. PICK q \in owed : Opposite(q, o) /\ q.n < o.n
    BY <1>2, <1>3, <1>4 DEF SlotsInv, Stands
  <1>6. PICK k \in Places : IsCaptured(k) /\ Stands(q, captured[k]) /\ ~Behind(k)
    BY <1>4, <1>5, Older DEF Stands
  <1> QED
    BY <1>2, <1>4, <1>5, <1>6 DEF SlotsInv, Stands, Opposite

\* The keymap gets an event in its turn.
LEMMA NoEarlier ==
  ASSUME TypeInv, OwedInv, LineInv, Cover, KeymapInv, AtKeymap, NEW o \in owed, o.n < todo[1].n
  PROVE  ~todo[1].down /\ o.key # todo[1].key
  <1>1. 1 \in Here
    BY Heads DEF AtKeymap
  <1>2. PICK k \in Places : IsCaptured(k) /\ Stands(o, captured[k]) /\ ~Behind(k)
    BY Older DEF AtKeymap
  <1>3. undecided # 0
    BY <1>2, Held DEF IsCaptured
  <1> QED
    BY <1>1, <1>2, <1>3 DEF KeymapInv, AtKeymap, Stands

LEMMA InTurn ==
  ASSUME TypeInv, OwedInv, LineInv, Cover, KeymapInv, AtKeymap, Delivered(todo[1]), Fault("order") = {}
  PROVE  Fault("order")' = {}
  <1>1. 1 \in Here /\ IsEvent(todo[1])
    BY Heads DEF AtKeymap
  <1>2. {o \in owed : o.n = todo[1].n} # {}
    BY <1>1, Own DEF Stands
  <1>3. \A o \in {q \in owed : q.n < todo[1].n} : ~todo[1].down /\ o.key # todo[1].key
    BY NoEarlier
  <1>4. \A f \in faults' : f \in faults \/ f[1] = "modifier"
    BY <1>2, <1>3 DEF Delivered
  <1> QED
    BY <1>4 DEF Fault

-----------------------------------------------------------------------------
(* Replays *)

LEMMA Weights ==
  ASSUME NEW j
  PROVE  Weight(j) \in {0, 1} /\ HoldWeight \in {0, 1} /\ RetroWeight \in {0, 1}
  BY DEF Weight, HoldWeight, RetroWeight

LEMMA Loads ==
  ASSUME NEW j
  PROVE  Load(j) \in 0 .. 3 /\ Weight(j) <= Load(j) /\ Weight(j) \in {0, 1}
  <1>1. PICK w \in {0, 1}, h \in {0, 1}, r \in {0, 1} : w = Weight(j) /\ h = HoldWeight /\ r = RetroWeight
    BY Weights
  <1>2. Load(j) = w + h + r
    BY <1>1 DEF Load
  <1>3. w + h + r \in 0 .. 3 /\ w <= w + h + r
    OBVIOUS
  <1> QED
    BY <1>1, <1>2, <1>3

LEMMA ReplayType ==
  ASSUME TypeInv, NEW j \in Here, IsReplay(todo[j])
  PROVE  /\ todo[j].from \in Nat /\ todo[j].from >= 1 /\ todo[j].from <= MaxCaptured + 1
         /\ j \in Nat /\ j >= 1 /\ ~Weighs(todo[j]) /\ ~IsEvent(todo[j]) /\ ~IsEnding(todo[j])
  <1>1. todo[j] \in Call /\ j \in Nat /\ j >= 1
    BY DEF TypeInv, Here
  <1>2. todo[j].from \in 1 .. MaxCaptured + 1 /\ MaxCaptured \in Nat
    BY <1>1, CallKinds, HoldTapAssumption DEF ReplayCall
  <1> QED
    BY <1>1, <1>2, LightOrHeavy

\* There is a first one.
LEMMA FirstOne ==
  ASSUME TypeInv, NEW j \in Here, IsReplay(todo[j])
  PROVE  \E f \in Here : First(f) /\ f <= j
  <1> DEFINE T == {i \in Here : IsReplay(todo[i])}
  <1>1. T \in SUBSET Nat /\ T # {}
    BY DEF Here
  <1> HIDE DEF T
  <1>2. PICK f \in T : \A k \in T : f <= k
    BY <1>1, LeastOne
  <1>3. f \in Here /\ IsReplay(todo[f]) /\ f <= j /\ f \in Nat
    BY <1>1, <1>2 DEF T
  <1>4. NoReplay(0, f)
    <2>1. ASSUME NEW k \in Here, k < f, IsReplay(todo[k]) PROVE FALSE
      <3>1. f <= k /\ k \in Nat
        BY <1>1, <1>2, <2>1 DEF T
      <3> QED
        BY <1>3, <2>1, <3>1
    <2> QED
      BY <2>1 DEF NoReplay
  <1> QED
    BY <1>3, <1>4 DEF First

\* The first one is where the least is still to be raised.
LEMMA FirstLeast ==
  ASSUME TypeInv, RoomInv, NEW f \in Here, First(f), NEW j \in Here, IsReplay(todo[j])
  PROVE  f <= j /\ (j = f \/ (f < j /\ todo[f].from < todo[j].from))
  <1>1. IsReplay(todo[f]) /\ NoReplay(0, f)
    BY DEF First
  <1>2. f \in Nat /\ j \in Nat /\ 0 < j
    BY <1>1, ReplayType
  <1>3. ~(j < f)
    BY <1>1, <1>2 DEF NoReplay
  <1>4. j = f \/ f < j
    BY <1>2, <1>3
  <1>5. CASE f < j
    BY <1>1, <1>2, <1>5 DEF RoomInv, RoomPairs, RoomFirst, RoomDown
  <1> QED
    BY <1>2, <1>4, <1>5

\* With room for c below the first one, the first gap is so far below them all.
LEMMA GapBelow ==
  ASSUME TypeInv, NEW g \in Places, \A k \in Places : captured[k] = None => g <= k,
         NEW m \in Nat, m <= MaxCaptured + 1, NEW c \in Nat, c >= 1, Room(m, c)
  PROVE  g + c <= m
  <1>1. c < m /\ captured[m - c] = None
    <2>1. c < m /\ \A k \in m - c .. m - 1 : captured[k] = None
      BY DEF Room
    <2>2. m - c \in m - c .. m - 1
      OBVIOUS
    <2> QED
      BY <2>1, <2>2
  <1>2. m - c \in Places
    BY <1>1, HoldTapAssumption DEF Places
  <1>3. g <= m - c
    BY <1>1, <1>2
  <1> QED
    BY <1>3 DEF Places

LEMMA CaughtBelow ==
  ASSUME TypeInv, RoomInv, NEW e, NEW g, Caught(e, g), NEW j \in Here, IsReplay(todo[j])
  PROVE  g < todo[j].from
  <1>1. PICK f \in Here : First(f)
    BY FirstOne
  <1>2. PICK m : m = todo[f].from
    OBVIOUS
  <1>3. m \in Nat /\ m <= MaxCaptured + 1 /\ todo[j].from \in Nat /\ m <= todo[j].from
    BY <1>1, <1>2, ReplayType, FirstLeast DEF First
  <1>4. PICK c : c = 1 + Load(f)
    OBVIOUS
  <1>5. c \in Nat /\ c >= 1
    BY <1>4, Loads
  <1>6. Room(m, c)
    BY <1>1, <1>2, <1>4 DEF RoomInv, RoomPairs, RoomFirst, RoomDown, Caught
  <1>7. g + c <= m /\ g \in Nat
    BY <1>3, <1>5, <1>6, GapBelow DEF Caught, Places
  <1> QED
    BY <1>3, <1>5, <1>7

\* Below a gap that is caught, everything waits; above it, all is to be replayed.
LEMMA CaughtSides ==
  ASSUME TypeInv, RoomInv, Cover, NEW e, NEW g, Caught(e, g), NEW k \in Places
  PROVE  /\ k < g => ~Behind(k) /\ captured[k] # None
         /\ g < k /\ captured[k] # None => Behind(k)
  <1>1. g \in Places /\ g \in Nat /\ k \in Nat /\ k >= 1 /\ g >= 1
    BY DEF Caught, Places
  <1>2. ASSUME k < g PROVE ~Behind(k) /\ captured[k] # None
    <2>1. ASSUME NEW j \in Here, IsReplay(todo[j]), todo[j].from <= k PROVE FALSE
      <3>1. g < todo[j].from /\ todo[j].from \in Nat
        BY <2>1, CaughtBelow, ReplayType
      <3> QED
        BY <1>1, <1>2, <2>1, <3>1
    <2>2. captured[k] # None
      <3>1. captured[k] = None => g <= k
        BY DEF Caught
      <3> QED
        BY <1>1, <1>2, <3>1
    <2> QED
      BY <2>1, <2>2 DEF Behind, After
  <1>3. ASSUME g < k, captured[k] # None, ~Behind(k) PROVE FALSE
    <2>1. Filled(1, k)
      BY <1>3, Held
    <2>2. g \in 1 .. k /\ captured[g] = None
      BY <1>1, <1>3 DEF Caught
    <2> QED
      BY <2>1, <2>2 DEF Filled
  <1> QED
    BY <1>2, <1>3

-----------------------------------------------------------------------------
(* The events on their way and the captured ones stay in order *)

\* The first event goes, and no event comes.
Fewer(d, new) ==
  /\ IsEvent(todo[1]) /\ 1 \in Here /\ Moves(d, 1, new)
  /\ \A i \in new : i \in Here' /\ ~IsEvent(todo'[i]) /\ ~IsReplay(todo'[i])

LEMMA Fewers ==
  ASSUME TypeInv
  PROVE  /\ \A d : Nothing(d) => Fewer(d, {})
         /\ \A i, d : NewSlot(i, d) => Fewer(d, {})
         /\ \A i, d : Ends(i, d) => Fewer(d, {d + 1})
         /\ \A e, g : Taken(e, g) => Fewer(0, {})
  <1>1. \A d : Delivery(d, {}) => Fewer(d, {})
    BY Heads DEF Delivery, AtKeymap, Fewer
  <1>2. ASSUME NEW i, NEW d, Ends(i, d) PROVE Fewer(d, {d + 1})
    <2>1. /\ Delivery(d, {d + 1}) /\ d + 1 \in Here' /\ todo'[d + 1] = Ending(i)
      BY <1>2 DEF Ends
    <2>2. ~IsEvent(todo'[d + 1]) /\ ~IsReplay(todo'[d + 1])
      BY <2>1 DEF Ending, IsEvent, IsReplay, Moving
    <2>3. PICK p : p = d + 1
      OBVIOUS
    <2>4. Fewer(d, {p})
      BY <2>1, <2>2, <2>3, Heads DEF Fewer, Delivery, AtKeymap
    <2> QED
      BY <2>3, <2>4
  <1>3. ASSUME NEW e, NEW g, Taken(e, g) PROVE Fewer(0, {})
    <2>1. todo # <<>>
      BY <1>3 DEF Taken, Caught
    <2> QED
      BY <1>3, <2>1, Heads DEF Taken, Drops, Fewer
  <1> QED
    BY <1>1, <1>2, <1>3 DEF Nothing, NewSlot

LEMMA FewerEvents ==
  ASSUME TypeInv, todo' \in Seq(Call), NEW d, NEW new, Fewer(d, new)
  PROVE  /\ d \in Int /\ Here \subseteq Nat /\ Here' \subseteq Nat
         /\ \A j \in Here' : IsEvent(todo'[j]) =>
              \E i \in Here : i = j - d /\ j = i + d /\ 1 < i /\ IsEvent(todo[i]) /\ Like(todo'[j], todo[i])
         /\ \A j \in Here : IsEvent(todo[j]) /\ j # 1 => j + d \in Here' /\ Like(todo'[j + d], todo[j])
         /\ \A j \in Here, k \in Places : After(j + d, k)' <=> After(j, k)
  <1>1. d \in Int /\ Here \subseteq Nat /\ Here' \subseteq Nat /\ \A j \in Here : j >= 1
    BY DEF Fewer, Moves, Here
  <1>2. ASSUME NEW j \in Here', IsEvent(todo'[j])
        PROVE  \E i \in Here : i = j - d /\ j = i + d /\ 1 < i /\ IsEvent(todo[i]) /\ Like(todo'[j], todo[i])
    <2>1. j \notin new /\ Heavy(todo'[j])
      BY <1>2 DEF Fewer, Heavy
    <2>2. j - d \in Here /\ j - d > 1 /\ Like(todo'[j], todo[j - d])
      BY <2>1 DEF Fewer, Moves
    <2>3. j = (j - d) + d /\ 1 < j - d
      BY <1>1, <2>2
    <2> QED
      BY <1>2, <2>2, <2>3 DEF Like
  <1>3. ASSUME NEW j \in Here, IsEvent(todo[j]), j # 1
        PROVE  j + d \in Here' /\ Like(todo'[j + d], todo[j])
    <2>1. j > 1 /\ Heavy(todo[j])
      BY <1>1, <1>3 DEF Heavy
    <2> QED
      BY <2>1 DEF Fewer, Moves
  <1>4. ASSUME NEW j \in Here, NEW k \in Places PROVE After(j + d, k)' <=> After(j, k)
    <2>1. j \in Nat /\ j >= 1
      BY <1>1
    <2>2. PICK one \in {0, 1} : one = 1
      OBVIOUS
    <2>3. Moves(d, one, new) /\ j >= one
      BY <2>1, <2>2 DEF Fewer
    <2>4. \A i \in new : IsReplay(todo'[i]) => i <= j + d
      BY DEF Fewer
    <2>5. todo \in Seq(Call)
      BY DEF TypeInv
    <2> QED
      BY <2>1, <2>3, <2>4, <2>5, MovedAfter
  <1> QED
    BY <1>1, <1>2, <1>3, <1>4

\* The numbers of the others are greater, or captured.
LEMMA Others1 ==
  ASSUME TypeInv, OwedInv, LineInv, 1 \in Here, IsEvent(todo[1])
  PROVE  /\ todo[1].n \in Nat
         /\ \A j \in Here : IsEvent(todo[j]) /\ 1 < j => todo[1].n < todo[j].n /\ todo[j].n # todo[1].n
         /\ \A k \in Places : IsCaptured(k) => captured[k].n # todo[1].n
  <1>1. todo[1].n \in Nat /\ \A j \in Here : IsEvent(todo[j]) => todo[j].n \in Nat
    BY Own
  <1>2. \A k \in Places : IsCaptured(k) => captured[k].n \in Nat
    BY TypeFacts DEF OwedInv, Stands
  <1>3. ASSUME NEW k \in Places, IsCaptured(k) PROVE captured[k].n # todo[1].n
    <2>1. todo[1].n < captured[k].n \/ captured[k].n < todo[1].n
      BY <1>3 DEF LineInv
    <2> QED
      BY <1>1, <1>2, <1>3, <2>1
  <1>4. ASSUME NEW j \in Here, IsEvent(todo[j]), 1 < j PROVE todo[1].n < todo[j].n /\ todo[j].n # todo[1].n
    <2>1. todo[1].n < todo[j].n
      BY <1>4 DEF LineInv
    <2> QED
      BY <1>1, <1>4, <2>1
  <1> QED
    BY <1>1, <1>3, <1>4

LEMMA DeliveryOwed ==
  ASSUME TypeInv, todo' \in Seq(Call), OwedInv, LineInv, NEW d, NEW new, Fewer(d, new), Delivery(d, new)
  PROVE  OwedInv'
  <1>1. owed' = owed \ {o \in owed : o.n = todo[1].n} /\ captured' = captured /\ Places' = Places
    BY DEF Delivery, Delivered, Places
  <1>2. 1 \in Here /\ IsEvent(todo[1])
    BY DEF Fewer
  <1>3. ASSUME NEW j \in Here', IsEvent(todo'[j]) PROVE \E o \in owed' : Stands(o, todo'[j])
    <2>1. PICK i \in Here : 1 < i /\ IsEvent(todo[i]) /\ Like(todo'[j], todo[i])
      BY <1>3, FewerEvents
    <2>2. PICK o \in owed : Stands(o, todo[i])
      BY <2>1 DEF OwedInv
    <2>3. o.n # todo[1].n
      BY <1>2, <2>1, <2>2, Others1 DEF Stands
    <2> QED
      BY <1>1, <1>3, <2>1, <2>2, <2>3 DEF Stands, Like
  <1>4. ASSUME NEW k \in Places, IsCaptured(k) PROVE \E o \in owed' : Stands(o, captured[k])
    <2>1. PICK o \in owed : Stands(o, captured[k])
      BY <1>4 DEF OwedInv
    <2>2. o.n # todo[1].n
      BY <1>2, <1>4, <2>1, Others1 DEF Stands
    <2> QED
      BY <1>1, <2>1, <2>2
  <1>5. ASSUME NEW o \in owed'
        PROVE  \/ \E j \in Here' : IsEvent(todo'[j]) /\ todo'[j].n = o.n
               \/ \E k \in Places : IsCaptured(k) /\ captured[k].n = o.n
    <2>1. o \in owed /\ o.n # todo[1].n
      BY <1>1
    <2>2. CASE \E j \in Here : IsEvent(todo[j]) /\ todo[j].n = o.n
      <3>1. PICK j \in Here : IsEvent(todo[j]) /\ todo[j].n = o.n
        BY <2>2
      <3>2. j + d \in Here' /\ Like(todo'[j + d], todo[j])
        BY <2>1, <3>1, FewerEvents
      <3> QED
        BY <3>1, <3>2 DEF Like
    <2> QED
      BY <2>1, <2>2 DEF OwedInv
  <1>6. \A o, q \in owed' : o.n = q.n => o = q
    BY <1>1 DEF OwedInv
  <1>7. \A k \in Places : IsCaptured(k)' <=> IsCaptured(k)
    BY <1>1 DEF IsCaptured
  <1> QED
    BY <1>1, <1>3, <1>4, <1>5, <1>6, <1>7 DEF OwedInv

\* The events that stay keep their order.
LEMMA FewerLine ==
  ASSUME TypeInv, todo' \in Seq(Call), LineInv, NEW d, NEW new, Fewer(d, new)
  PROVE  /\ \A i, j \in Here' : i < j /\ IsEvent(todo'[i]) /\ IsEvent(todo'[j]) => todo'[i].n < todo'[j].n
         /\ \A j \in Here', k \in Places : IsEvent(todo'[j]) /\ IsCaptured(k) =>
              /\ After(j, k)' => todo'[j].n < captured[k].n
              /\ ~After(j, k)' => captured[k].n < todo'[j].n
  <1>1. ASSUME NEW i \in Here', NEW j \in Here', i < j, IsEvent(todo'[i]), IsEvent(todo'[j])
        PROVE  todo'[i].n < todo'[j].n
    <2>1. PICK h \in Here : i = h + d /\ IsEvent(todo[h]) /\ Like(todo'[i], todo[h])
      BY <1>1, FewerEvents
    <2>2. PICK l \in Here : j = l + d /\ IsEvent(todo[l]) /\ Like(todo'[j], todo[l])
      BY <1>1, FewerEvents
    <2>3. h < l
      BY <1>1, <2>1, <2>2, FewerEvents
    <2> QED
      BY <2>1, <2>2, <2>3 DEF LineInv, Like
  <1>2. ASSUME NEW j \in Here', NEW k \in Places, IsEvent(todo'[j]), IsCaptured(k)
        PROVE  /\ After(j, k)' => todo'[j].n < captured[k].n
               /\ ~After(j, k)' => captured[k].n < todo'[j].n
    <2>1. PICK i \in Here : j = i + d /\ IsEvent(todo[i]) /\ Like(todo'[j], todo[i])
      BY <1>2, FewerEvents
    <2>2. After(i + d, k)' <=> After(i, k)
      BY FewerEvents
    <2>3. After(j, k)' <=> After(i, k)
      BY <2>1, <2>2
    <2> QED
      BY <1>2, <2>1, <2>3 DEF LineInv, Like
  <1> QED
    BY <1>1, <1>2

LEMMA DeliveryLine ==
  ASSUME TypeInv, todo' \in Seq(Call), LineInv, NEW d, NEW new, Fewer(d, new), captured' = captured
  PROVE  LineInv'
  <1>1. Places' = Places /\ \A k \in Places : IsCaptured(k)' <=> IsCaptured(k)
    BY DEF Places, IsCaptured
  <1>2. /\ \A i, j \in Here' : i < j /\ IsEvent(todo'[i]) /\ IsEvent(todo'[j]) => todo'[i].n < todo'[j].n
        /\ \A j \in Here', k \in Places : IsEvent(todo'[j]) /\ IsCaptured(k) =>
              /\ After(j, k)' => todo'[j].n < captured[k].n
              /\ ~After(j, k)' => captured[k].n < todo'[j].n
    BY FewerLine
  <1>3. \A k, l \in Places : k < l /\ IsCaptured(k) /\ IsCaptured(l) => captured[k].n < captured[l].n
    BY DEF LineInv
  <1> QED
    BY <1>1, <1>2, <1>3 DEF LineInv

\* What is not delivered out of turn leaves the turns of the others.
LEMMA DeliveryTurns ==
  ASSUME TypeInv, OwedInv, LineInv, Cover, KeymapInv, TurnsInv, NEW d, NEW new, Delivery(d, new)
  PROVE  TurnsInv'
  <1>1. owed' = owed \ {o \in owed : o.n = todo[1].n} /\ down' = down /\ AtKeymap
    BY DEF Delivery, Delivered
  <1>2. \A o \in owed : o.n \in Nat
    BY TypeFacts
  <1>3. PICK own \in owed : Stands(own, todo[1]) /\ \A q \in owed : q.n = todo[1].n => q = own
    BY <1>1, Own, Heads DEF AtKeymap
  <1>4. ASSUME NEW o \in owed, NEW r \in owed, Opposite(r, o), o.n < r.n PROVE r \in owed'
    <2>1. SUFFICES ASSUME r.n = todo[1].n PROVE FALSE
      BY <1>1
    <2>2. o.n < todo[1].n /\ o.key = todo[1].key
      BY <1>3, <1>4, <2>1 DEF Opposite, Stands
    <2> QED
      BY <1>1, <2>2, NoEarlier
  <1> QED
    BY <1>1, <1>4 DEF TurnsInv

\* One is captured.
LEMMA TakenOwed ==
  ASSUME TypeInv, todo' \in Seq(Call), OwedInv, NEW e, NEW g, Taken(e, g)
  PROVE  OwedInv'
  <1>1. /\ owed' = owed /\ Places' = Places /\ g \in Places /\ captured[g] = None
        /\ captured' = [captured EXCEPT ![g] = e] /\ e # None /\ e.op = "position"
        /\ e.n = todo[1].n /\ e.key = todo[1].key /\ e.down = todo[1].down
    BY DEF Taken, Caught, SameLine, Places
  <1>2. Fewer(0, {}) /\ 1 \in Here /\ IsEvent(todo[1])
    BY Fewers DEF Fewer
  <1>3. \A k \in Places : captured'[k] = IF k = g THEN e ELSE captured[k]
    BY <1>1, TypeFacts DEF CapturedType
  <1>4. \A k \in Places : IsCaptured(k)' <=> (k = g \/ IsCaptured(k))
    BY <1>1, <1>3 DEF IsCaptured
  <1>5. ~IsCaptured(g)
    BY <1>1 DEF IsCaptured
  <1>6. ASSUME NEW j \in Here', IsEvent(todo'[j]) PROVE \E o \in owed : Stands(o, todo'[j])
    <2>1. PICK i \in Here : IsEvent(todo[i]) /\ Like(todo'[j], todo[i])
      BY <1>2, <1>6, FewerEvents
    <2> QED
      BY <1>6, <2>1 DEF OwedInv, Stands, Like
  <1>7. ASSUME NEW k \in Places, IsCaptured(k)' PROVE \E o \in owed : Stands(o, captured'[k])
    <2>1. CASE k = g
      BY <1>1, <1>2, <1>3, <2>1 DEF OwedInv, Stands
    <2>2. CASE k # g
      BY <1>3, <1>4, <1>7, <2>2 DEF OwedInv
    <2> QED
      BY <2>1, <2>2
  <1>8. ASSUME NEW o \in owed
        PROVE  \/ \E j \in Here' : IsEvent(todo'[j]) /\ todo'[j].n = o.n
               \/ \E k \in Places : IsCaptured(k)' /\ captured'[k].n = o.n
    <2>1. CASE o.n = todo[1].n
      BY <1>1, <1>3, <1>4, <2>1
    <2>2. CASE o.n # todo[1].n /\ \E j \in Here : IsEvent(todo[j]) /\ todo[j].n = o.n
      <3>1. PICK j \in Here : IsEvent(todo[j]) /\ todo[j].n = o.n /\ j # 1
        BY <2>2
      <3>2. j + 0 \in Here' /\ Like(todo'[j + 0], todo[j])
        BY <1>2, <3>1, FewerEvents
      <3> QED
        BY <3>1, <3>2 DEF Like
    <2>3. CASE \E k \in Places : IsCaptured(k) /\ captured[k].n = o.n
      BY <1>3, <1>4, <1>5, <2>3
    <2> QED
      BY <2>1, <2>2, <2>3 DEF OwedInv
  <1> QED
    BY <1>1, <1>6, <1>7, <1>8 DEF OwedInv

LEMMA TakenLine ==
  ASSUME TypeInv, todo' \in Seq(Call), OwedInv, LineInv, RoomInv, Cover, NEW e, NEW g, Taken(e, g)
  PROVE  LineInv'
  <1>1. /\ Places' = Places /\ g \in Places /\ captured[g] = None /\ Caught(e, g)
        /\ captured' = [captured EXCEPT ![g] = e] /\ e # None /\ e.op = "position" /\ e.n = todo[1].n
    BY DEF Taken, Caught, Places
  <1>2. Fewer(0, {}) /\ 1 \in Here /\ IsEvent(todo[1]) /\ \A j \in Here : j = 1 \/ 1 < j
    BY Fewers DEF Fewer, Here
  <1>3. \A k \in Places : captured'[k] = IF k = g THEN e ELSE captured[k]
    BY <1>1, TypeFacts DEF CapturedType
  <1>4. \A k \in Places : IsCaptured(k)' <=> (k = g \/ IsCaptured(k))
    BY <1>1, <1>3 DEF IsCaptured
  <1>5. ~IsReplay(todo[1]) /\ \A j \in Here : 0 < j
    BY <1>2 DEF IsReplay, IsEvent, Moving, Here
  <1>6. \A k \in Places : After(1, k) <=> Behind(k)
    <2>1. \A k \in Places : After(1, k) => Behind(k)
      BY <1>5 DEF Behind, After
    <2>2. \A k \in Places : Behind(k) => After(1, k)
      BY <1>2, <1>5 DEF Behind, After
    <2> QED
      BY <2>1, <2>2
  <1>7. ASSUME NEW k \in Places, IsCaptured(k)
        PROVE  k # g /\ (k < g => captured[k].n < e.n) /\ (g < k => e.n < captured[k].n)
    <2>1. captured[k] # None
      BY <1>7 DEF IsCaptured
    <2>2. k # g
      BY <1>1, <2>1
    <2>3. k < g => ~After(1, k)
      BY <1>1, <1>6, CaughtSides
    <2>4. g < k => After(1, k)
      BY <1>1, <1>6, <2>1, CaughtSides
    <2> QED
      BY <1>1, <1>2, <1>7, <2>2, <2>3, <2>4 DEF LineInv
  <1>8. \A k \in Places : k = g \/ k < g \/ g < k
    BY <1>1 DEF Places
  <1>9. ASSUME NEW k \in Places, NEW l \in Places, k < l, IsCaptured(k)', IsCaptured(l)'
        PROVE  captured'[k].n < captured'[l].n
    <2>1. CASE k = g
      <3>1. l # g /\ IsCaptured(l)
        BY <1>1, <1>4, <1>9, <2>1 DEF Places
      <3> QED
        BY <1>3, <1>7, <1>9, <2>1, <3>1
    <2>2. CASE l = g
      <3>1. k # g /\ IsCaptured(k)
        BY <1>1, <1>4, <1>9, <2>2 DEF Places
      <3> QED
        BY <1>3, <1>7, <1>9, <2>2, <3>1
    <2>3. CASE k # g /\ l # g
      BY <1>3, <1>4, <1>9, <2>3 DEF LineInv
    <2> QED
      BY <2>1, <2>2, <2>3
  <1>10. /\ \A i, j \in Here' : i < j /\ IsEvent(todo'[i]) /\ IsEvent(todo'[j]) => todo'[i].n < todo'[j].n
         /\ \A j \in Here', k \in Places : IsEvent(todo'[j]) /\ IsCaptured(k) =>
              /\ After(j, k)' => todo'[j].n < captured[k].n
              /\ ~After(j, k)' => captured[k].n < todo'[j].n
    BY <1>2, FewerLine
  <1>11. ASSUME NEW j \in Here', IsEvent(todo'[j])
         PROVE  ~After(j, g)' /\ e.n < todo'[j].n
    <2>1. PICK i \in Here : j = i + 0 /\ 1 < i /\ IsEvent(todo[i]) /\ Like(todo'[j], todo[i])
      BY <1>2, <1>11, FewerEvents
    <2>2. After(i + 0, g)' <=> After(i, g)
      BY <1>1, <1>2, FewerEvents
    <2>3. ~After(i, g)
      <3>1. SUFFICES ASSUME NEW h \in Here, IsReplay(todo[h]), todo[h].from <= g PROVE FALSE
        BY DEF After
      <3>2. g < todo[h].from /\ todo[h].from \in Nat /\ g \in Nat
        BY <1>1, <3>1, CaughtBelow, ReplayType DEF Places
      <3> QED
        BY <3>1, <3>2
    <2>4. todo[1].n < todo[i].n
      BY <1>2, <2>1 DEF LineInv
    <2> QED
      BY <1>1, <1>11, <2>1, <2>2, <2>3, <2>4 DEF Like
  <1>12. ASSUME NEW j \in Here', NEW k \in Places, IsEvent(todo'[j]), IsCaptured(k)'
         PROVE  /\ After(j, k)' => todo'[j].n < captured'[k].n
                /\ ~After(j, k)' => captured'[k].n < todo'[j].n
    <2>1. CASE k = g
      BY <1>3, <1>11, <1>12, <2>1
    <2>2. CASE k # g
      BY <1>3, <1>4, <1>10, <1>12, <2>2
    <2> QED
      BY <2>1, <2>2
  <1> QED
    BY <1>1, <1>9, <1>10, <1>12 DEF LineInv

\* One is raised again.
LEMMA RaisedEvents ==
  ASSUME TypeInv, todo' \in Seq(Call), RoomInv, NEW n, Raises(n), IsCaptured(n)
  PROVE  /\ n \in Places /\ Places' = Places /\ owed' = owed /\ down' = down
         /\ 1 \in Here' /\ todo'[1] = captured[n] /\ IsEvent(todo'[1]) /\ ~IsEvent(todo[1])
         /\ \A k \in Places : captured'[k] = IF k = n THEN None ELSE captured[k]
         /\ \A k \in Places : IsCaptured(k)' <=> (k # n /\ IsCaptured(k))
         /\ \A j \in Here' : j \in Nat /\ j >= 1
         /\ \A j \in Here' : IsEvent(todo'[j]) /\ j # 1 =>
              \E i \in Here : j = i + 1 /\ 1 < i /\ IsEvent(todo[i]) /\ Like(todo'[j], todo[i])
         /\ \A j \in Here : IsEvent(todo[j]) => j + 1 \in Here' /\ Like(todo'[j + 1], todo[j])
         /\ \A j \in Here, k \in Places : 1 < j => (After(j + 1, k)' <=> After(j, k))
         /\ \A k \in Places : After(1, k)' <=> n < k
         /\ \A j \in Here : 1 < j => ~After(j, n)
  <1>1. /\ todo # <<>> /\ IsReplay(todo[1]) /\ n = todo[1].from /\ n \in Places /\ captured[n] # None
        /\ captured' = [captured EXCEPT ![n] = None] /\ SameLine
        /\ 1 \in Here' /\ todo'[1] = captured[n]
        /\ 2 \in Here' /\ todo'[2] = Replay(n + 1) /\ Moves(1, 1, {1, 2})
    BY DEF Raises
  <1>2. /\ Places' = Places /\ owed' = owed /\ down' = down
    BY <1>1 DEF SameLine, Places
  <1>3. \A k \in Places : captured'[k] = IF k = n THEN None ELSE captured[k]
    BY <1>1, TypeFacts DEF CapturedType
  <1>4. \A k \in Places : IsCaptured(k)' <=> (k # n /\ IsCaptured(k))
    BY <1>3 DEF IsCaptured
  <1>5. IsEvent(todo'[1]) /\ ~IsEvent(todo[1]) /\ ~IsEvent(todo'[2]) /\ IsReplay(todo'[2]) /\ todo'[2].from = n + 1
    BY <1>1 DEF IsEvent, IsCaptured, Moving, IsReplay, Replay
  <1>6. \A j \in Here' : j \in Nat /\ j >= 1
    BY DEF Here
  <1>7. \A j \in Here : j \in Nat /\ j >= 1 /\ (j = 1 \/ 1 < j)
    BY DEF Here
  <1>8. ASSUME NEW j \in Here', Heavy(todo'[j]), j # 1, j # 2
        PROVE  \E i \in Here : j = i + 1 /\ 1 < i /\ Like(todo'[j], todo[i])
    <2>1. j - 1 \in Here /\ j - 1 > 1 /\ Like(todo'[j], todo[j - 1])
      BY <1>1, <1>8 DEF Moves
    <2>2. j = (j - 1) + 1 /\ 1 < j - 1
      BY <1>6, <2>1
    <2> QED
      BY <2>1, <2>2
  <1>9. ASSUME NEW j \in Here', IsEvent(todo'[j]), j # 1
        PROVE  \E i \in Here : j = i + 1 /\ 1 < i /\ IsEvent(todo[i]) /\ Like(todo'[j], todo[i])
    <2>1. j # 2 /\ Heavy(todo'[j])
      BY <1>5, <1>9 DEF Heavy
    <2> QED
      BY <1>8, <1>9, <2>1 DEF Like
  <1>10. ASSUME NEW j \in Here, IsEvent(todo[j]) PROVE j + 1 \in Here' /\ Like(todo'[j + 1], todo[j])
    <2>1. j > 1 /\ Heavy(todo[j])
      BY <1>5, <1>7, <1>10 DEF Heavy
    <2> QED
      BY <1>1, <2>1 DEF Moves
  <1>11. ASSUME NEW j \in Here, IsReplay(todo[j]), 1 < j
         PROVE  n < todo[j].from /\ todo[j].from \in Nat
    BY <1>1, <1>11, ReplayType, Heads DEF RoomInv, RoomPairs, RoomFirst, RoomDown
  <1>12. ASSUME NEW j \in Here, NEW k \in Places, 1 < j PROVE After(j + 1, k)' <=> After(j, k)
    <2>1. PICK one \in {0, 1} : one = 1
      OBVIOUS
    <2>2. PICK new : new = {1, 2}
      OBVIOUS
    <2>3. Moves(one, one, new) /\ j \in Nat /\ j >= one
      BY <1>1, <1>7, <2>1, <2>2
    <2>4. \A i \in new : IsReplay(todo'[i]) => i <= j + one
      BY <1>7, <1>12, <2>1, <2>2
    <2>5. todo \in Seq(Call)
      BY DEF TypeInv
    <2>6. After(j + one, k)' <=> After(j, k)
      BY <2>3, <2>4, <2>5, MovedAfter
    <2> QED
      BY <2>1, <2>6
  <1>13. ASSUME NEW k \in Places PROVE After(1, k)' <=> n < k
    <2>1. n \in Nat /\ k \in Nat
      BY <1>1 DEF Places
    <2>2. ASSUME n < k PROVE After(1, k)'
      <3>1. 1 < 2 /\ todo'[2].from <= k
        BY <1>5, <2>1, <2>2
      <3> QED
        BY <1>1, <1>5, <3>1 DEF After
    <2>3. ASSUME NEW i \in Here', 1 < i, IsReplay(todo'[i]), todo'[i].from <= k PROVE n < k
      <3>1. CASE i = 2
        BY <1>5, <2>1, <2>3, <3>1
      <3>2. CASE i # 2
        <4>1. PICK h \in Here : 1 < h /\ Like(todo'[i], todo[h])
          BY <1>8, <2>3, <3>2 DEF Heavy
        <4>2. n < todo[h].from /\ todo[h].from \in Nat /\ todo[h].from <= k
          BY <1>11, <2>3, <4>1 DEF Like
        <4> QED
          BY <2>1, <4>2
      <3> QED
        BY <3>1, <3>2
    <2> QED
      BY <2>2, <2>3 DEF After
  <1>14. ASSUME NEW j \in Here, 1 < j, After(j, n) PROVE FALSE
    <2>1. PICK i \in Here : j < i /\ IsReplay(todo[i]) /\ todo[i].from <= n
      BY <1>14 DEF After
    <2>2. 1 < i
      BY <1>7, <1>14, <2>1
    <2>3. n < todo[i].from /\ todo[i].from \in Nat /\ n \in Nat
      BY <1>1, <1>11, <2>1, <2>2 DEF Places
    <2> QED
      BY <2>1, <2>3
  <1> QED
    BY <1>1, <1>2, <1>3, <1>4, <1>5, <1>6, <1>9, <1>10, <1>12, <1>13, <1>14

LEMMA RaisedOwed ==
  ASSUME TypeInv, todo' \in Seq(Call), RoomInv, OwedInv, NEW n, Raises(n), IsCaptured(n)
  PROVE  OwedInv'
  <1>1. ASSUME NEW j \in Here', IsEvent(todo'[j]) PROVE \E o \in owed : Stands(o, todo'[j])
    <2>1. CASE j = 1
      BY <2>1, RaisedEvents DEF OwedInv
    <2>2. CASE j # 1
      <3>1. PICK i \in Here : IsEvent(todo[i]) /\ Like(todo'[j], todo[i])
        BY <1>1, <2>2, RaisedEvents
      <3> QED
        BY <3>1 DEF OwedInv, Stands, Like
    <2> QED
      BY <2>1, <2>2
  <1>2. ASSUME NEW k \in Places, IsCaptured(k)' PROVE \E o \in owed : Stands(o, captured'[k])
    <2>1. k # n /\ IsCaptured(k) /\ captured'[k] = captured[k]
      BY <1>2, RaisedEvents
    <2> QED
      BY <2>1 DEF OwedInv
  <1>3. ASSUME NEW o \in owed
        PROVE  \/ \E j \in Here' : IsEvent(todo'[j]) /\ todo'[j].n = o.n
               \/ \E k \in Places : IsCaptured(k)' /\ captured'[k].n = o.n
    <2>1. CASE \E j \in Here : IsEvent(todo[j]) /\ todo[j].n = o.n
      <3>1. PICK j \in Here : IsEvent(todo[j]) /\ todo[j].n = o.n
        BY <2>1
      <3>2. j + 1 \in Here' /\ Like(todo'[j + 1], todo[j])
        BY <3>1, RaisedEvents
      <3> QED
        BY <3>1, <3>2 DEF Like
    <2>2. CASE \E k \in Places : IsCaptured(k) /\ captured[k].n = o.n
      <3>1. PICK k \in Places : IsCaptured(k) /\ captured[k].n = o.n
        BY <2>2
      <3>2. CASE k = n
        BY <3>1, <3>2, RaisedEvents
      <3>3. CASE k # n
        BY <3>1, <3>3, RaisedEvents
      <3> QED
        BY <3>2, <3>3
    <2> QED
      BY <2>1, <2>2 DEF OwedInv
  <1>4. owed' = owed /\ Places' = Places
    BY RaisedEvents
  <1> QED
    BY <1>1, <1>2, <1>3, <1>4 DEF OwedInv

LEMMA RaisedLine ==
  ASSUME TypeInv, todo' \in Seq(Call), RoomInv, LineInv, NEW n, Raises(n), IsCaptured(n)
  PROVE  LineInv'
  <1>1. /\ n \in Places /\ Places' = Places /\ 1 \in Here' /\ todo'[1] = captured[n]
        /\ \A j \in Here' : j \in Nat /\ j >= 1
    BY RaisedEvents
  <1>2. ASSUME NEW i \in Here, 1 < i, IsEvent(todo[i]) PROVE captured[n].n < todo[i].n
    <2>1. ~After(i, n)
      BY <1>2, RaisedEvents
    <2> QED
      BY <1>1, <1>2, <2>1 DEF LineInv
  <1>3. ASSUME NEW i \in Here', NEW j \in Here', i < j, IsEvent(todo'[i]), IsEvent(todo'[j])
        PROVE  todo'[i].n < todo'[j].n
    <2>1. j # 1
      BY <1>1, <1>3
    <2>2. PICK l \in Here : j = l + 1 /\ 1 < l /\ IsEvent(todo[l]) /\ Like(todo'[j], todo[l])
      BY <1>3, <2>1, RaisedEvents
    <2>3. CASE i = 1
      BY <1>1, <1>2, <2>2, <2>3 DEF Like
    <2>4. CASE i # 1
      <3>1. PICK h \in Here : i = h + 1 /\ 1 < h /\ IsEvent(todo[h]) /\ Like(todo'[i], todo[h])
        BY <1>3, <2>4, RaisedEvents
      <3>2. h < l
        BY <1>3, <2>2, <3>1 DEF Here
      <3> QED
        BY <2>2, <3>1, <3>2 DEF LineInv, Like
    <2> QED
      BY <2>3, <2>4
  <1>4. ASSUME NEW k \in Places, NEW l \in Places, k < l, IsCaptured(k)', IsCaptured(l)'
        PROVE  captured'[k].n < captured'[l].n
    <2>1. k # n /\ l # n /\ IsCaptured(k) /\ IsCaptured(l)
          /\ captured'[k] = captured[k] /\ captured'[l] = captured[l]
      BY <1>4, RaisedEvents
    <2> QED
      BY <1>4, <2>1 DEF LineInv
  <1>5. ASSUME NEW j \in Here', NEW k \in Places, IsEvent(todo'[j]), IsCaptured(k)'
        PROVE  /\ After(j, k)' => todo'[j].n < captured'[k].n
               /\ ~After(j, k)' => captured'[k].n < todo'[j].n
    <2>1. k # n /\ IsCaptured(k) /\ captured'[k] = captured[k]
      BY <1>5, RaisedEvents
    <2>2. CASE j = 1
      <3>1. After(1, k)' <=> n < k
        BY RaisedEvents
      <3>2. n < k \/ k < n
        BY <1>1, <2>1 DEF Places
      <3>3. n < k => captured[n].n < captured[k].n
        BY <1>1, <2>1 DEF LineInv
      <3>4. k < n => captured[k].n < captured[n].n
        BY <1>1, <2>1 DEF LineInv
      <3>5. ~(n < k /\ k < n)
        BY <1>1 DEF Places
      <3> QED
        BY <1>1, <2>1, <2>2, <3>1, <3>2, <3>3, <3>4, <3>5
    <2>3. CASE j # 1
      <3>1. PICK i \in Here : j = i + 1 /\ 1 < i /\ IsEvent(todo[i]) /\ Like(todo'[j], todo[i])
        BY <1>5, <2>3, RaisedEvents
      <3>2. After(i + 1, k)' <=> After(i, k)
        BY <3>1, RaisedEvents
      <3>3. After(j, k)' <=> After(i, k)
        BY <3>1, <3>2
      <3> QED
        BY <2>1, <3>1, <3>3 DEF LineInv, Like
    <2> QED
      BY <2>2, <2>3
  <1> QED
    BY <1>1, <1>3, <1>4, <1>5 DEF LineInv

-----------------------------------------------------------------------------
(* Input and time: all of it when no call is left *)

\* A call alone, that is neither a replay nor a hold nor the end of a release.
Single(c) ==
  /\ todo = <<>> /\ todo' = <<c>> /\ c \in Call
  /\ ~IsReplay(c) /\ ~IsEnding(c) /\ ~IsKeycode(c) /\ ~Past(c) /\ ~IsFirst(c)

LEMMA SingleIs ==
  ASSUME NEW c, Single(c)
  PROVE  Here = {} /\ Here' = {1} /\ todo'[1] = c /\ Len(todo') = 1 /\ todo' \in Seq(Call)
  <1>1. Here = 1 .. 0 /\ Len(todo') = 1 /\ todo'[1] = c /\ todo' \in Seq(Call)
    BY EmptySeq DEF Single, Here
  <1>2. Here' = 1 .. 1
    BY <1>1 DEF Here
  <1> QED
    BY <1>1, <1>2

LEMMA SingleCalls ==
  ASSUME Good, NEW c, Single(c), UNCHANGED code \/ UNCHANGED <<slots, undecided, captured>>, setup' = setup
  PROVE  Shape' /\ Cover' /\ RoomInv' /\ HoldOnce' /\ EndingInv' /\ KeyUpInv' /\ KeymapInv' /\ WaitingInv'
  <1>1. Here = {} /\ Here' = {1} /\ todo'[1] = c /\ Len(todo') = 1
    BY SingleIs
  <1>2. slots' = slots /\ undecided' = undecided /\ captured' = captured /\ setup' = setup
    BY DEF code
  <1>3. ~IsReplay(c) /\ ~IsEnding(c) /\ ~IsKeycode(c) /\ ~Past(c) /\ ~IsFirst(c)
    BY DEF Single
  <1>4. Shape'
    BY <1>1, <1>3 DEF Shape
  <1>5. Cover'
    <2>1. ASSUME NEW k \in Places, captured[k] # None PROVE undecided # 0 /\ Filled(1, k)
      BY <1>1, <2>1 DEF Good, Cover
    <2>2. Places' = Places /\ \A k : Filled(1, k)' <=> Filled(1, k)
      BY <1>2 DEF Places, Filled
    <2> QED
      BY <1>2, <2>1, <2>2 DEF Cover
  <1>6. RoomInv'
    BY <1>1, <1>3 DEF RoomInv, RoomPairs, RoomFirst, RoomDown, First
  <1>7. HoldOnce'
    BY <1>1 DEF HoldOnce
  <1>8. EndingInv' /\ KeyUpInv'
    BY <1>1, <1>3 DEF EndingInv, KeyUpInv
  <1>9. KeymapInv' /\ (c.op # "listen")
    BY <1>1, <1>3 DEF KeymapInv, Past
  <1>10. Waiting' = Waiting
    BY <1>2 DEF Waiting, InUse, Conf
  <1>11. WaitingInv'
    <2>1. undecided' # 0 => \A s, t \in Waiting' : s = t
      BY <1>2, <1>10 DEF Good, WaitingInv
    <2> QED
      BY <1>1, <1>3, <1>9, <2>1 DEF WaitingInv
  <1> QED
    BY <1>4, <1>5, <1>6, <1>7, <1>8, <1>9, <1>11

LEMMA TimerGood ==
  ASSUME Good, NEW i \in Slot, Timer(i)
  PROVE  Good'
  <1>1. PICK c : c = Decide(i, "timer")
    OBVIOUS
  <1>2. /\ todo = <<>> /\ todo' = <<c>> /\ timers' = timers \ {i}
        /\ UNCHANGED <<input, slots, undecided, captured, last, on, history>>
    BY <1>1 DEF Timer, Quiet
  <1>3. Single(c)
    BY <1>1, <1>2, Decisions DEF Single, Light, IsReplay, IsEnding, IsKeycode, Past, IsFirst, Decide
  <1>4. TypeInv /\ OwedInv /\ LineInv /\ TurnsInv /\ SlotsInv
    BY DEF Good
  <1>5. setup' = setup /\ owed' = owed /\ down' = down /\ captured' = captured /\ slots' = slots
        /\ undecided' = undecided /\ Same
    BY <1>2 DEF input, history, Same
  <1>6. Here = {} /\ Here' = {1} /\ todo'[1] = c /\ todo' \in Seq(Call)
    BY <1>3, SingleIs
  <1>7. TypeInv'
    <2>1. CapturedType' /\ UndecidedType'
      BY <1>4, <1>5, TypeFacts DEF CapturedType, UndecidedType
    <2> QED
      BY <1>2, <1>4, <1>5, <1>6, <2>1, TypeFacts, TypeOfRest DEF history
  <1>8. ~IsEvent(c)
    BY <1>1 DEF IsEvent, Decide, Moving
  <1>9. Calm(0)
    BY <1>5, <1>6, <1>8 DEF Calm, Events, Later, SameCaptured, IsCaptured
  <1>10. OwedInv' /\ LineInv' /\ TurnsInv'
    BY <1>4, <1>6, <1>9, CalmOwed, CalmLine, CalmTurns DEF TypeInv
  <1>11. SlotsInv'
    <2>1. \A k \in Places : ~Behind(k)
      BY <1>6 DEF Behind, After
    <2>2. InUse' = InUse /\ Places' = Places /\ \A j : ~HasEnding(j)
      BY <1>5, <1>6 DEF InUse, Places, HasEnding
    <2>3. \A k \in Places : IsCaptured(k)' <=> IsCaptured(k)
      BY <1>5 DEF IsCaptured
    <2> QED
      BY <1>4, <1>5, <2>1, <2>2, <2>3 DEF SlotsInv
  <1> QED
    BY <1>2, <1>3, <1>5, <1>7, <1>10, <1>11, SingleCalls DEF Good

LEMMA TickGood ==
  ASSUME Good, Tick
  PROVE  Good'
  <1>1. /\ todo' = todo /\ setup' = setup /\ events' = events /\ down' = down /\ slots' = slots
        /\ undecided' = undecided /\ captured' = captured /\ timers' = timers /\ last' = last
        /\ on' = on /\ owed' = owed /\ now' = now + 1 /\ now < MaxTime /\ todo = <<>>
    BY DEF Tick, code, history, Quiet
  <1>2. TypeInv'
    <2>1. now' \in 0 .. MaxTime
      BY <1>1, TypeFacts, HoldTapAssumption DEF Good
    <2>2. HoldTap' = HoldTap
      BY <1>1 DEF HoldTap
    <2> QED
      BY <1>1, <2>1, <2>2 DEF Good, TypeInv, TypeOK
  <1>3. Here = {} /\ Here' = {} /\ Places' = Places /\ InUse' = InUse /\ Waiting' = Waiting
    BY <1>1 DEF Here, Places, InUse, Waiting, Conf
  <1>4. Shape' /\ RoomInv' /\ HoldOnce' /\ EndingInv' /\ KeyUpInv' /\ KeymapInv'
    BY <1>3 DEF Shape, RoomInv, RoomPairs, RoomFirst, RoomDown, HoldOnce, EndingInv, KeyUpInv, KeymapInv
  <1>5. /\ \A k : IsCaptured(k)' <=> IsCaptured(k)
        /\ \A k : Behind(k)' <=> Behind(k)
        /\ \A k : Filled(1, k)' <=> Filled(1, k)
        /\ \A i : HasEnding(i)' <=> HasEnding(i)
    BY <1>1, <1>3 DEF IsCaptured, Behind, After, Filled, HasEnding
  <1>6. Cover' /\ OwedInv' /\ LineInv'
    BY <1>1, <1>3, <1>5 DEF Good, Cover, OwedInv, LineInv
  <1>7. TurnsInv' /\ SlotsInv'
    BY <1>1, <1>3, <1>5 DEF Good, TurnsInv, SlotsInv
  <1>8. WaitingInv'
    BY <1>1, <1>3 DEF Good, WaitingInv, Quiet
  <1> QED
    BY <1>2, <1>4, <1>6, <1>7, <1>8 DEF Good

\* A key event has a greater number than those before it.
LEMMA KeyEventGood ==
  ASSUME Good, NEW p \in Key, KeyDown(p) \/ KeyUp(p)
  PROVE  Good'
  <1> DEFINE isDown == p \notin down
  <1>1. /\ KeyEvent(p, isDown) /\ isDown \in BOOLEAN
        /\ isDown => down' = down \cup {p}
        /\ ~isDown => down' = down \ {p}
    BY DEF KeyDown, KeyUp
  <1> HIDE DEF isDown
  <1>2. PICK c : c = Position(p, isDown)
    OBVIOUS
  <1>3. PICK r : r = [n |-> events + 1, key |-> p, down |-> isDown, under |-> InForce]
    OBVIOUS
  <1>4. /\ todo = <<>> /\ todo' = <<c>> /\ events < MaxEvents /\ events' = events + 1
        /\ owed' = owed \cup {r} /\ UNCHANGED code /\ UNCHANGED <<setup, now, on>>
    BY <1>1, <1>2, <1>3 DEF KeyEvent, Quiet
  <1>5. TypeInv /\ OwedInv /\ LineInv /\ TurnsInv /\ SlotsInv
    BY DEF Good
  <1>6. events \in Nat /\ events + 1 \in 1 .. MaxEvents /\ now \in 0 .. MaxTime /\ down \subseteq Key
        /\ InForce \subseteq Key
    BY <1>4, <1>5, TypeFacts, HoldTapAssumption DEF InForce
  <1>7. /\ c \in PositionEvent({"position"}) /\ c.op = "position" /\ c.n = events + 1 /\ c.key = p
        /\ c.down = isDown
    BY <1>1, <1>2, <1>6 DEF Position, PositionEvent
  <1>8. r \in Owed /\ r.n = events + 1 /\ r.key = p /\ r.down = isDown
    BY <1>1, <1>3, <1>6 DEF Owed
  <1>9. Single(c)
    BY <1>4, <1>7 DEF Single, IsReplay, IsEnding, IsKeycode, Past, IsFirst, Call, PositionEvent, Moving
  <1>10. Here = {} /\ Here' = {1} /\ todo'[1] = c /\ todo' \in Seq(Call)
    BY <1>9, SingleIs
  <1>11. /\ slots' = slots /\ undecided' = undecided /\ captured' = captured /\ timers' = timers
         /\ last' = last /\ setup' = setup /\ now' = now /\ on' = on
    BY <1>4 DEF code
  <1>12. \A o \in owed : o.n \in Nat /\ o.n <= events /\ o.n < r.n /\ o.n # r.n
    <2>1. \A o \in owed : o.n \in Nat /\ o.n <= events
      BY <1>5, TypeFacts
    <2> QED
      BY <1>6, <1>8, <2>1
  <1>13. TypeInv'
    <2>1. TypeOK'
      <3>1. HoldTap' = HoldTap /\ down' \subseteq Key /\ events' \in 0 .. MaxEvents
        BY <1>1, <1>4, <1>6, <1>11 DEF HoldTap
      <3> QED
        BY <1>5, <1>11, <3>1 DEF TypeInv, TypeOK
    <2>2. owed' \subseteq Owed /\ \A o \in owed' : o.n <= events'
      BY <1>4, <1>5, <1>6, <1>8, <1>12, TypeFacts
    <2> QED
      BY <1>10, <2>1, <2>2 DEF TypeInv
  <1>14. \A k : IsCaptured(k)' <=> IsCaptured(k)
    BY <1>11 DEF IsCaptured
  <1>15. Places' = Places /\ InUse' = InUse
    BY <1>11 DEF Places, InUse
  <1>16. IsEvent(c)
    BY <1>7 DEF IsEvent, Moving
  <1>17. OwedInv'
    <2>1. \A o, q \in owed' : o.n = q.n => o = q
      BY <1>4, <1>5, <1>12 DEF OwedInv
    <2>2. Stands(r, c)
      BY <1>7, <1>8 DEF Stands
    <2>3. \A k \in Places : IsCaptured(k) => \E o \in owed' : Stands(o, captured[k])
      BY <1>4, <1>5 DEF OwedInv
    <2>4. ASSUME NEW o \in owed'
          PROVE  c.n = o.n \/ \E k \in Places : IsCaptured(k) /\ captured[k].n = o.n
      BY <1>4, <1>5, <1>7, <1>8, <1>10 DEF OwedInv
    <2> QED
      BY <1>4, <1>10, <1>11, <1>14, <1>15, <1>16, <2>1, <2>2, <2>3, <2>4 DEF OwedInv
  <1>18. LineInv'
    <2>1. \A k \in Places : ~After(1, k)'
      BY <1>10 DEF After
    <2>2. ASSUME NEW k \in Places, IsCaptured(k) PROVE captured[k].n < c.n
      <3>1. PICK o \in owed : Stands(o, captured[k])
        BY <1>5, <2>2 DEF OwedInv
      <3> QED
        BY <1>7, <1>8, <1>12, <3>1 DEF Stands
    <2>3. \A k, l \in Places : k < l /\ IsCaptured(k) /\ IsCaptured(l) => captured[k].n < captured[l].n
      BY <1>5 DEF LineInv
    <2> QED
      BY <1>10, <1>11, <1>14, <1>15, <2>1, <2>2, <2>3 DEF LineInv
  <1>19. isDown = (p \notin down)
    BY DEF isDown
  <1>20. TurnsInv'
    <2>1. ASSUME NEW o \in owed', NEW q \in owed', o.key = q.key, o.down = q.down, o.n < q.n
          PROVE  \E x \in owed' : Opposite(x, o) /\ o.n < x.n /\ x.n < q.n
      <3>1. CASE o \in owed /\ q \in owed
        BY <1>4, <1>5, <2>1, <3>1 DEF TurnsInv
      <3>2. CASE o \in owed /\ q = r
        <4>1. o.down # (o.key \in down)
          BY <1>8, <1>19, <2>1, <3>2
        <4>2. PICK x \in owed : Opposite(x, o) /\ o.n < x.n
          BY <1>5, <3>2, <4>1 DEF TurnsInv
        <4> QED
          BY <1>4, <1>12, <3>2, <4>2
      <3>3. CASE o = r
        <4>1. ~(r.n < q.n)
          BY <1>4, <1>6, <1>8, <1>12, <2>1
        <4> QED
          BY <2>1, <3>3, <4>1
      <3> QED
        BY <1>4, <3>1, <3>2, <3>3
    <2>2. ASSUME NEW o \in owed', o.down # (o.key \in down')
          PROVE  \E x \in owed' : Opposite(x, o) /\ o.n < x.n
      <3>1. o # r
        BY <1>1, <1>8, <2>2
      <3>2. o \in owed
        BY <1>4, <3>1
      <3>3. CASE o.key = p
        <4>1. CASE o.down = isDown
          <5>1. o.down # (o.key \in down)
            BY <1>19, <3>3, <4>1
          <5> QED
            BY <1>4, <1>5, <3>2, <5>1 DEF TurnsInv
        <4>2. CASE o.down # isDown
          <5>1. Opposite(r, o) /\ o.n < r.n
            BY <1>8, <1>12, <3>2, <3>3, <4>2 DEF Opposite
          <5> QED
            BY <1>4, <5>1
        <4> QED
          BY <4>1, <4>2
      <3>4. CASE o.key # p
        <4>1. o.down # (o.key \in down)
          BY <1>1, <2>2, <3>4
        <4> QED
          BY <1>4, <1>5, <3>2, <4>1 DEF TurnsInv
      <3> QED
        BY <3>3, <3>4
    <2> QED
      BY <2>1, <2>2 DEF TurnsInv
  <1>21. SlotsInv'
    <2>1. \A k \in Places : ~Behind(k)
      BY <1>10 DEF Behind, After
    <2>2. \A i : ~HasEnding(i)
      BY <1>10 DEF HasEnding
    <2>3. ASSUME NEW i \in InUse
          PROVE  /\ \A o \in owed' : o.key = slots[i].key /\ o.down =>
                      \E q \in owed' : Opposite(q, o) /\ q.n < o.n
                 /\ slots[i].key \notin down' => \E q \in owed' : q.key = slots[i].key /\ ~q.down
      <3>1. ASSUME NEW o \in owed', o.key = slots[i].key, o.down
            PROVE  \E q \in owed' : Opposite(q, o) /\ q.n < o.n
        <4>1. CASE o \in owed
          BY <1>4, <1>5, <2>2, <3>1, <4>1 DEF SlotsInv
        <4>2. CASE o = r
          <5>1. slots[i].key = p /\ p \notin down
            BY <1>8, <1>19, <3>1, <4>2
          <5>2. PICK q \in owed : q.key = p /\ ~q.down
            BY <1>5, <2>2, <5>1 DEF SlotsInv
          <5> QED
            BY <1>4, <1>8, <1>12, <3>1, <4>2, <5>2 DEF Opposite
        <4> QED
          BY <1>4, <4>1, <4>2
      <3>2. ASSUME slots[i].key \notin down'
            PROVE  \E q \in owed' : q.key = slots[i].key /\ ~q.down
        <4>1. CASE slots[i].key \notin down
          BY <1>4, <1>5, <2>2, <4>1 DEF SlotsInv
        <4>2. CASE slots[i].key \in down
          <5>1. slots[i].key = p /\ ~isDown
            BY <1>1, <3>2, <4>2
          <5> QED
            BY <1>4, <1>8, <5>1
        <4> QED
          BY <4>1, <4>2
      <3> QED
        BY <3>1, <3>2
    <2>4. /\ \A i, j \in InUse : slots[i].key = slots[j].key => i = j
          /\ \A i \in InUse, k \in Places : IsCaptured(k) /\ captured[k].key = slots[i].key => Behind(k)
      BY <1>5 DEF SlotsInv
    <2> QED
      BY <1>11, <1>14, <1>15, <2>1, <2>3, <2>4 DEF SlotsInv
  <1> QED
    BY <1>4, <1>9, <1>11, <1>13, <1>17, <1>18, <1>20, <1>21, SingleCalls DEF Good

-----------------------------------------------------------------------------
(* What is captured is to be replayed, or waits for the decision *)

ReplaysStay ==
  \A j \in Here : IsReplay(todo[j]) =>
    \E i \in Here' : IsReplay(todo'[i]) /\ todo'[i].from = todo[j].from

LEMMA Staying ==
  ASSUME NEW d, NEW lo \in {0, 1}, NEW new, Moves(d, lo, new), lo = 1 => ~IsReplay(todo[1])
  PROVE  ReplaysStay
  <1>1. ASSUME NEW j \in Here, IsReplay(todo[j]) PROVE j > lo
    BY <1>1 DEF Here
  <1>2. ASSUME NEW j \in Here, IsReplay(todo[j])
        PROVE  j + d \in Here' /\ Like(todo'[j + d], todo[j])
    BY <1>1, <1>2 DEF Moves, Heavy
  <1> QED
    BY <1>2 DEF ReplaysStay, Like

LEMMA CoverStays ==
  ASSUME Cover, ReplaysStay, captured' = captured, undecided # 0 => undecided' # 0
  PROVE  Cover'
  <1>1. Places' = Places /\ \A m, k : Filled(m, k)' <=> Filled(m, k)
    BY DEF Places, Filled
  <1>2. ASSUME NEW k \in Places, captured[k] # None
        PROVE  \/ undecided' # 0 /\ Filled(1, k)
               \/ \E j \in Here' : IsReplay(todo'[j]) /\ todo'[j].from <= k /\ Filled(todo'[j].from, k)
    <2>1. CASE undecided # 0 /\ Filled(1, k)
      BY <2>1
    <2>2. CASE \E j \in Here : IsReplay(todo[j]) /\ todo[j].from <= k /\ Filled(todo[j].from, k)
      <3>1. PICK j \in Here : IsReplay(todo[j]) /\ todo[j].from <= k /\ Filled(todo[j].from, k)
        BY <2>2
      <3>2. PICK i \in Here' : IsReplay(todo'[i]) /\ todo'[i].from = todo[j].from
        BY <3>1 DEF ReplaysStay
      <3> QED
        BY <3>1, <3>2
    <2> QED
      BY <1>2, <2>1, <2>2 DEF Cover
  <1> QED
    BY <1>1, <1>2 DEF Cover

LEMMA CoverDecided ==
  ASSUME TypeInv, Cover, NEW p, Decided(p)
  PROVE  Cover'
  <1>1. /\ captured' = captured /\ p \in Here' /\ todo'[p] = Replay(1) /\ Moves(p - 1, 0, {p})
    BY DEF Decided
  <1>2. ReplaysStay
    <2>1. PICK d, new : d = p - 1 /\ new = {p}
      OBVIOUS
    <2>2. Moves(d, 0, new)
      BY <1>1, <2>1
    <2> QED
      BY <2>2, Staying
  <1>3. Places' = Places /\ \A m, k : Filled(m, k)' <=> Filled(m, k)
    BY <1>1 DEF Places, Filled
  <1>4. IsReplay(todo'[p]) /\ todo'[p].from = 1
    BY <1>1 DEF Replay, IsReplay
  <1>5. ASSUME NEW k \in Places, captured[k] # None
        PROVE  \E j \in Here' : IsReplay(todo'[j]) /\ todo'[j].from <= k /\ Filled(todo'[j].from, k)
    <2>1. CASE Filled(1, k)
      <3>1. 1 <= k
        BY DEF Places
      <3> QED
        BY <1>1, <1>4, <2>1, <3>1
    <2>2. CASE \E j \in Here : IsReplay(todo[j]) /\ todo[j].from <= k /\ Filled(todo[j].from, k)
      <3>1. PICK j \in Here : IsReplay(todo[j]) /\ todo[j].from <= k /\ Filled(todo[j].from, k)
        BY <2>2
      <3>2. PICK i \in Here' : IsReplay(todo'[i]) /\ todo'[i].from = todo[j].from
        BY <1>2, <3>1 DEF ReplaysStay
      <3> QED
        BY <3>1, <3>2
    <2> QED
      BY <1>5, <2>1, <2>2 DEF Cover
  <1> QED
    BY <1>1, <1>3, <1>5 DEF Cover

\* The same of what is captured after the step.
FilledNext(m, k) == \A l \in m .. k : captured'[l] # None

LEMMA CoverCaught ==
  ASSUME TypeInv, Cover, ReplaysStay, NEW e, NEW g, Caught(e, g)
  PROVE  Cover'
  <1>1. /\ undecided # 0 /\ undecided' = undecided /\ g \in Places /\ captured[g] = None /\ e # None
        /\ \A k \in Places : captured[k] = None => g <= k
        /\ captured' = [captured EXCEPT ![g] = e] /\ Places' = Places
    BY DEF Caught, SameLine, Places
  <1>2. \A k \in Places : captured'[k] = IF k = g THEN e ELSE captured[k]
    BY <1>1, TypeFacts DEF CapturedType
  <1>3. ASSUME NEW m \in Nat, m >= 1, NEW k \in Places, Filled(m, k) PROVE FilledNext(m, k)
    <2>1. \A l \in m .. k : l \in Places
      BY <1>3, HoldTapAssumption DEF Places
    <2> QED
      BY <1>1, <1>2, <1>3, <2>1 DEF Filled, FilledNext
  <1>4. FilledNext(1, g)
    <2>1. ASSUME NEW l \in 1 .. g PROVE captured'[l] # None
      <3>1. l \in Places
        BY <1>1, HoldTapAssumption DEF Places
      <3>2. l = g \/ captured[l] # None
        <4>1. captured[l] = None => g <= l
          BY <1>1, <3>1
        <4> QED
          BY <1>1, <4>1 DEF Places
      <3> QED
        BY <1>1, <1>2, <3>1, <3>2
    <2> QED
      BY <2>1 DEF Filled, FilledNext
  <1>5. ASSUME NEW k \in Places, captured'[k] # None
        PROVE  \/ undecided' # 0 /\ FilledNext(1, k)
               \/ \E j \in Here' : IsReplay(todo'[j]) /\ todo'[j].from <= k /\ FilledNext(todo'[j].from, k)
    <2>1. CASE k = g
      BY <1>1, <1>4, <2>1
    <2>2. CASE undecided # 0 /\ Filled(1, k)
      BY <1>1, <1>3, <2>2
    <2>3. CASE \E j \in Here : IsReplay(todo[j]) /\ todo[j].from <= k /\ Filled(todo[j].from, k)
      <3>1. PICK j \in Here : IsReplay(todo[j]) /\ todo[j].from <= k /\ Filled(todo[j].from, k)
        BY <2>3
      <3>2. PICK i \in Here' : IsReplay(todo'[i]) /\ todo'[i].from = todo[j].from
        BY <3>1 DEF ReplaysStay
      <3>3. PICK m \in Nat : m = todo[j].from /\ m >= 1
        BY <3>1, ReplayType
      <3>4. FilledNext(m, k)
        BY <1>3, <3>1, <3>3
      <3> QED
        BY <3>1, <3>2, <3>3, <3>4
    <2> QED
      BY <1>2, <1>5, <2>1, <2>2, <2>3 DEF Cover
  <1> QED
    BY <1>1, <1>5 DEF Cover, Filled, FilledNext

\* The replays after the first call.
ReplaysBehind ==
  \A j \in Here : IsReplay(todo[j]) /\ j # 1 =>
    \E i \in Here' : IsReplay(todo'[i]) /\ todo'[i].from = todo[j].from

LEMMA StayingBehind ==
  ASSUME NEW d, NEW new, Moves(d, 1, new)
  PROVE  ReplaysBehind
  <1>1. ASSUME NEW j \in Here, IsReplay(todo[j]), j # 1
        PROVE  j + d \in Here' /\ Like(todo'[j + d], todo[j])
    <2>1. j > 1
      BY <1>1 DEF Here
    <2> QED
      BY <1>1, <2>1 DEF Moves, Heavy
  <1> QED
    BY <1>1 DEF ReplaysBehind, Like

\* A replay that stops leaves nothing.
LEMMA StopsAtGap ==
  ASSUME TypeInv, Shape, Stops, NEW k \in Places
  PROVE  todo[1].from <= k => ~Filled(todo[1].from, k) /\ ~Filled(1, k)
  <1>1. PICK n : n = todo[1].from
    OBVIOUS
  <1>2. 1 \in Here /\ IsReplay(todo[1]) /\ todo # <<>>
    BY Heads DEF Stops
  <1>3. n \in Nat /\ n >= 1 /\ n <= MaxCaptured + 1 /\ k \in Nat /\ k <= MaxCaptured /\ MaxCaptured \in Nat
    BY <1>1, <1>2, ReplayType, HoldTapAssumption DEF Places
  <1>4. ~(n = 1 /\ undecided # 0)
    BY <1>1, <1>2 DEF Shape, IsFirst
  <1>5. ASSUME n <= k PROVE captured[n] = None /\ n \in n .. k /\ n \in 1 .. k
    BY <1>1, <1>3, <1>4, <1>5 DEF Stops
  <1> QED
    BY <1>1, <1>5 DEF Filled

LEMMA CoverStops ==
  ASSUME TypeInv, Shape, Cover, Stops
  PROVE  Cover'
  <1>1. /\ captured' = captured /\ undecided' = undecided /\ Places' = Places /\ Moves(0 - 1, 1, {})
    BY DEF Stops, SameLine, Places, Drops
  <1>2. ReplaysBehind
    <2>1. PICK d, new : d = 0 - 1 /\ new = {}
      OBVIOUS
    <2>2. Moves(d, 1, new)
      BY <1>1, <2>1
    <2> QED
      BY <2>2, StayingBehind
  <1>3. \A m, k : Filled(m, k)' <=> Filled(m, k)
    BY <1>1 DEF Filled
  <1>4. ASSUME NEW k \in Places, captured[k] # None
        PROVE  \/ undecided' # 0 /\ Filled(1, k)
               \/ \E j \in Here' : IsReplay(todo'[j]) /\ todo'[j].from <= k /\ Filled(todo'[j].from, k)
    <2>1. CASE undecided # 0 /\ Filled(1, k)
      BY <1>1, <2>1
    <2>2. CASE \E j \in Here : IsReplay(todo[j]) /\ todo[j].from <= k /\ Filled(todo[j].from, k)
      <3>1. PICK j \in Here : IsReplay(todo[j]) /\ todo[j].from <= k /\ Filled(todo[j].from, k)
        BY <2>2
      <3>2. j # 1
        BY <3>1, StopsAtGap
      <3>3. PICK i \in Here' : IsReplay(todo'[i]) /\ todo'[i].from = todo[j].from
        BY <1>2, <3>1, <3>2 DEF ReplaysBehind
      <3> QED
        BY <3>1, <3>3
    <2> QED
      BY <1>4, <2>1, <2>2 DEF Cover
  <1> QED
    BY <1>1, <1>3, <1>4 DEF Cover

LEMMA CoverRaises ==
  ASSUME TypeInv, Cover, NEW n, Raises(n)
  PROVE  Cover'
  <1>1. /\ todo # <<>> /\ n = todo[1].from /\ n \in Places /\ undecided' = undecided /\ Places' = Places
        /\ captured' = [captured EXCEPT ![n] = None]
        /\ 2 \in Here' /\ todo'[2] = Replay(n + 1) /\ Moves(1, 1, {1, 2})
    BY DEF Raises, SameLine, Places
  <1>2. ReplaysBehind
    <2>1. PICK d : d = 1
      OBVIOUS
    <2>2. PICK new : new = {1, 2}
      OBVIOUS
    <2>3. Moves(d, 1, new)
      BY <1>1, <2>1, <2>2
    <2> QED
      BY <2>3, StayingBehind
  <1>3. \A k \in Places : captured'[k] = IF k = n THEN None ELSE captured[k]
    BY <1>1, TypeFacts DEF CapturedType
  <1>4. IsReplay(todo'[2]) /\ todo'[2].from = n + 1
    BY <1>1 DEF IsReplay, Replay
  <1>5. ASSUME NEW m \in Nat, m >= 1, NEW k \in Places, Filled(m, k), m <= k, captured'[k] # None
        PROVE  \/ n < k /\ FilledNext(n + 1, k)
               \/ FilledNext(m, k)
    <2>1. n \in Nat /\ k \in Nat /\ k <= MaxCaptured /\ n >= 1 /\ k # n
      BY <1>1, <1>3, <1>5, HoldTapAssumption DEF Places
    <2>2. CASE n < m \/ k < n
      <3>1. \A l \in m .. k : l \in Places /\ l # n
        BY <1>5, <2>1, <2>2, HoldTapAssumption DEF Places
      <3> QED
        BY <1>3, <1>5, <3>1 DEF Filled, FilledNext
    <2>3. CASE m <= n /\ n < k
      <3>1. \A l \in n + 1 .. k : l \in Places /\ l # n /\ l \in m .. k
        BY <1>5, <2>1, <2>3, HoldTapAssumption DEF Places
      <3>2. FilledNext(n + 1, k)
        BY <1>3, <1>5, <3>1 DEF Filled, FilledNext
      <3> QED
        BY <2>3, <3>2
    <2> QED
      BY <1>5, <2>1, <2>2, <2>3
  <1>6. ASSUME NEW k \in Places, captured'[k] # None
        PROVE  \/ undecided' # 0 /\ FilledNext(1, k)
               \/ \E j \in Here' : IsReplay(todo'[j]) /\ todo'[j].from <= k /\ FilledNext(todo'[j].from, k)
    <2>1. ASSUME n < k /\ FilledNext(n + 1, k)
          PROVE  \E j \in Here' : IsReplay(todo'[j]) /\ todo'[j].from <= k /\ FilledNext(todo'[j].from, k)
      <3>1. n + 1 <= k
        BY <1>1, <2>1 DEF Places
      <3> QED
        BY <1>1, <1>4, <2>1, <3>1
    <2>2. captured[k] # None /\ k >= 1
      BY <1>3, <1>6 DEF Places
    <2>3. CASE undecided # 0 /\ Filled(1, k)
      <3>1. (n < k /\ FilledNext(n + 1, k)) \/ FilledNext(1, k)
        BY <1>5, <1>6, <2>2, <2>3
      <3> QED
        BY <1>1, <2>1, <2>3, <3>1
    <2>4. CASE \E j \in Here : IsReplay(todo[j]) /\ todo[j].from <= k /\ Filled(todo[j].from, k)
      <3>1. PICK j \in Here : IsReplay(todo[j]) /\ todo[j].from <= k /\ Filled(todo[j].from, k)
        BY <2>4
      <3>2. PICK m \in Nat : m = todo[j].from /\ m >= 1
        BY <3>1, ReplayType
      <3>3. (n < k /\ FilledNext(n + 1, k)) \/ FilledNext(m, k)
        BY <1>5, <1>6, <3>1, <3>2
      <3>4. CASE FilledNext(m, k)
        <4>1. CASE j = 1
          <5>1. m = n /\ n \in m .. k
            BY <1>1, <3>1, <3>2, <4>1 DEF Places
          <5>2. captured'[n] = None
            BY <1>1, <1>3
          <5> QED
            BY <3>4, <5>1, <5>2 DEF Filled, FilledNext
        <4>2. CASE j # 1
          <5>1. PICK i \in Here' : IsReplay(todo'[i]) /\ todo'[i].from = m
            BY <1>2, <3>1, <3>2, <4>2 DEF ReplaysBehind
          <5> QED
            BY <3>1, <3>2, <3>4, <5>1
        <4> QED
          BY <4>1, <4>2
      <3> QED
        BY <2>1, <3>3, <3>4
    <2> QED
      BY <2>2, <2>3, <2>4 DEF Cover
  <1> QED
    BY <1>1, <1>6 DEF Cover, Filled, FilledNext

-----------------------------------------------------------------------------
(* The ends of releases *)

\* The ends after place lo stay: nothing before them, no slot and no captured
\* event gets in their way.
EndingsStay(d, lo, new) ==
  /\ Moves(d, lo, new)
  /\ \A i \in Here' : i \in new => ~IsEnding(todo'[i])
  /\ \A i \in Here', j \in Here : i \in new /\ IsEvent(todo'[i]) /\ j > lo /\ IsEnding(todo[j])
       => todo'[i].key # slots[todo[j].slot].key
  /\ \A j \in Here : j > lo /\ IsEnding(todo[j]) =>
       todo[j].slot \in InUse' /\ slots'[todo[j].slot].key = slots[todo[j].slot].key
  /\ \A k \in Places : IsCaptured(k)' =>
       \/ IsCaptured(k) /\ captured'[k] = captured[k]
       \/ \A j \in Here : j > lo /\ IsEnding(todo[j]) => captured'[k].key # slots[todo[j].slot].key

LEMMA EndingMoves ==
  ASSUME todo \in Seq(Call), todo' \in Seq(Call), EndingInv,
         NEW d, NEW lo \in {0, 1}, NEW new, EndingsStay(d, lo, new)
  PROVE  EndingInv'
  <1>0. /\ Moves(d, lo, new)
        /\ \A i \in Here' : i \in new => ~IsEnding(todo'[i])
        /\ \A i \in Here', j \in Here : i \in new /\ IsEvent(todo'[i]) /\ j > lo /\ IsEnding(todo[j])
             => todo'[i].key # slots[todo[j].slot].key
        /\ \A j \in Here : j > lo /\ IsEnding(todo[j]) =>
             todo[j].slot \in InUse' /\ slots'[todo[j].slot].key = slots[todo[j].slot].key
        /\ \A k \in Places : IsCaptured(k)' =>
             \/ IsCaptured(k) /\ captured'[k] = captured[k]
             \/ \A j \in Here : j > lo /\ IsEnding(todo[j]) => captured'[k].key # slots[todo[j].slot].key
    BY DEF EndingsStay
  <1>1. Here \subseteq Nat /\ Here' \subseteq Nat /\ d \in Int /\ Places' = Places
    BY <1>0 DEF Here, Moves, Places
  <1>2. ASSUME NEW j \in Here', IsEnding(todo'[j])
        PROVE  \E i \in Here : /\ i = j - d /\ j = i + d /\ i > lo /\ IsEnding(todo[i])
                               /\ todo'[j].slot = todo[i].slot
    <2>1. j \notin new /\ Heavy(todo'[j])
      BY <1>0, <1>2 DEF Heavy
    <2>2. j - d \in Here /\ j - d > lo /\ Like(todo'[j], todo[j - d])
      BY <1>0, <2>1 DEF Moves
    <2>3. j = (j - d) + d
      BY <1>1
    <2> QED
      BY <1>2, <2>2, <2>3 DEF Like
  <1>3. ASSUME NEW j \in Here', IsEnding(todo'[j])
        PROVE  /\ todo'[j].slot \in InUse'
               /\ \A i \in Here' : IsEnding(todo'[i]) /\ todo'[i].slot = todo'[j].slot => i = j
               /\ \A i \in Here' : i < j /\ IsEvent(todo'[i]) => todo'[i].key # slots'[todo'[j].slot].key
               /\ \A k \in Places : IsCaptured(k)' /\ captured'[k].key = slots'[todo'[j].slot].key => After(j, k)'
    <2>1. PICK l \in Here : /\ l = j - d /\ j = l + d /\ l > lo /\ IsEnding(todo[l])
                            /\ todo'[j].slot = todo[l].slot
      BY <1>2, <1>3
    <2>2. todo'[j].slot \in InUse' /\ slots'[todo'[j].slot].key = slots[todo[l].slot].key
      BY <1>0, <2>1
    <2>3. ASSUME NEW i \in Here', IsEnding(todo'[i]), todo'[i].slot = todo'[j].slot PROVE i = j
      <3>1. PICK h \in Here : i = h + d /\ IsEnding(todo[h]) /\ todo'[i].slot = todo[h].slot
        BY <1>2, <2>3
      <3> QED
        BY <2>1, <2>3, <3>1 DEF EndingInv
    <2>4. ASSUME NEW i \in Here', i < j, IsEvent(todo'[i]) PROVE todo'[i].key # slots'[todo'[j].slot].key
      <3>0. PICK key : key = slots[todo[l].slot].key /\ key = slots'[todo'[j].slot].key
        BY <2>2
      <3>1. CASE i \in new
        <4>1. todo'[i].key # slots[todo[l].slot].key
          BY <1>0, <2>1, <2>4, <3>1
        <4> QED
          BY <3>0, <4>1
      <3>2. CASE i \notin new
        <4>1. PICK h \in Here : h = i - d /\ h > lo /\ Like(todo'[i], todo[h])
          BY <1>0, <2>4, <3>2 DEF Moves, Heavy
        <4>2. h < l
          <5>1. i \in Int /\ j \in Int /\ d \in Int /\ h = i - d /\ l = j - d /\ i < j
            BY <1>1, <2>1, <2>4, <4>1
          <5> QED
            BY ONLY <5>1
        <4>3. IsEvent(todo[h]) /\ todo'[i].key = todo[h].key
          BY <2>4, <4>1 DEF Like
        <4>4. todo[h].key # slots[todo[l].slot].key
          BY <2>1, <4>2, <4>3 DEF EndingInv
        <4> QED
          BY <3>0, <4>3, <4>4
      <3> QED
        BY <3>1, <3>2
    <2>5. ASSUME NEW k \in Places, IsCaptured(k)', captured'[k].key = slots'[todo'[j].slot].key
          PROVE  After(j, k)'
      <3>0. PICK key : key = slots[todo[l].slot].key /\ key = slots'[todo'[j].slot].key
        BY <2>2
      <3>1. IsCaptured(k) /\ captured[k].key = slots[todo[l].slot].key
        <4>1. captured'[k].key = slots[todo[l].slot].key
          BY <2>5, <3>0
        <4>2. IsCaptured(k) /\ captured'[k] = captured[k]
          BY <1>0, <2>1, <2>5, <4>1
        <4> QED
          BY <4>1, <4>2
      <3>2. After(l, k)
        BY <2>1, <3>1 DEF EndingInv
      <3>3. l \in Nat /\ l >= lo
        BY <1>1, <2>1
      <3>4. After(l + d, k)'
        BY <1>0, <3>2, <3>3, MovedAfter
      <3> QED
        BY <2>1, <3>4
    <2> QED
      BY <2>2, <2>3, <2>4, <2>5
  <1> QED
    BY <1>1, <1>3 DEF EndingInv

LEMMA EndingSteps ==
  ASSUME TypeInv, todo' \in Seq(Call), EndingInv
  PROVE  /\ \A d : Rolls(d) => EndingInv'
         /\ \A p : Decided(p) => EndingInv'
         /\ Stops => EndingInv'
         /\ \A d : Frees(d) => EndingInv'
         /\ \A e, g : HoldCaught(e, g) => EndingInv'
         /\ \A e, g : Taken(e, g) => EndingInv'
         /\ \A d : Nothing(d) => EndingInv'
         /\ \A i, d : NewSlot(i, d) => EndingInv'
  <1>0. todo \in Seq(Call)
    BY DEF TypeInv
  <1>1. ASSUME SameKeys PROVE \A j \in Here : IsEnding(todo[j]) =>
           todo[j].slot \in InUse' /\ slots'[todo[j].slot].key = slots[todo[j].slot].key
    BY <1>1 DEF SameKeys, EndingInv
  <1>2. ASSUME captured' = captured
        PROVE  \A k \in Places : IsCaptured(k)' => IsCaptured(k) /\ captured'[k] = captured[k]
    BY <1>2 DEF IsCaptured
  <1>3. ASSUME NEW d, Rolls(d) PROVE EndingInv'
    <2>1. PICK new : new = {}
      OBVIOUS
    <2>2. PICK lo \in {0, 1} : lo = 0
      OBVIOUS
    <2>3. Moves(d, lo, new) /\ SameKeys /\ captured' = captured
      BY <1>3, <2>1, <2>2 DEF Rolls, Keeps
    <2>4. \A i \in Here' : i \notin new
      BY <2>1
    <2>9. EndingsStay(d, lo, new)
      BY <1>1, <1>2, <2>3, <2>4 DEF EndingsStay
    <2> QED
      BY <1>0, <2>9, EndingMoves
  <1>4. ASSUME NEW p, Decided(p) PROVE EndingInv'
    <2>1. PICK d : d = p - 1
      OBVIOUS
    <2>2. PICK new : new = {p}
      OBVIOUS
    <2>3. Moves(d, 0, new) /\ SameKeys /\ captured' = captured /\ todo'[p] = Replay(1)
      BY <1>4, <2>1, <2>2 DEF Decided
    <2>4. \A i \in new : ~IsEnding(todo'[i]) /\ ~IsEvent(todo'[i])
      BY <2>2, <2>3 DEF IsEnding, IsEvent, Replay, Moving
    <2>5. PICK lo \in {0, 1} : lo = 0
      OBVIOUS
    <2>6. EndingsStay(d, lo, new)
      BY <1>1, <1>2, <2>3, <2>4, <2>5 DEF EndingsStay
    <2> QED
      BY <1>0, <2>6, EndingMoves
  <1>5. ASSUME Stops PROVE EndingInv'
    <2>1. PICK d : d = 0 - 1
      OBVIOUS
    <2>2. PICK new : new = {}
      OBVIOUS
    <2>3. PICK lo \in {0, 1} : lo = 1
      OBVIOUS
    <2>4. Moves(d, lo, new) /\ SameKeys /\ captured' = captured
      BY <1>5, <2>1, <2>2, <2>3 DEF Stops, Drops
    <2>5. EndingsStay(d, lo, new)
      BY <1>1, <1>2, <2>2, <2>4 DEF EndingsStay
    <2> QED
      BY <1>0, <2>5, EndingMoves
  <1>6. ASSUME NEW d, Frees(d) PROVE EndingInv'
    <2>1. PICK new : new = {}
      OBVIOUS
    <2>2. /\ Moves(d, 1, new) /\ captured' = captured /\ IsEnding(todo[1]) /\ 1 \in Here
          /\ slots' = [slots EXCEPT ![todo[1].slot] = Free]
      BY <1>6, <2>1, Heads DEF Frees, Drops
    <2>3. ASSUME NEW j \in Here, j > 1, IsEnding(todo[j])
          PROVE  todo[j].slot \in InUse' /\ slots'[todo[j].slot].key = slots[todo[j].slot].key
      <3>1. todo[j].slot # todo[1].slot /\ todo[j].slot \in InUse
        <4>1. todo[j].slot = todo[1].slot => j = 1
          BY <2>2, <2>3 DEF EndingInv
        <4>2. j # 1
          BY <2>3
        <4> QED
          BY <2>3, <4>1, <4>2 DEF EndingInv
      <3>2. todo[j].slot \in Slot /\ slots'[todo[j].slot] = slots[todo[j].slot]
        BY <2>2, <3>1, TypeFacts DEF InUse
      <3> QED
        BY <3>1, <3>2 DEF InUse
    <2>4. PICK lo \in {0, 1} : lo = 1
      OBVIOUS
    <2>5. /\ Moves(d, lo, new)
          /\ \A j \in Here : j > lo /\ IsEnding(todo[j]) =>
               todo[j].slot \in InUse' /\ slots'[todo[j].slot].key = slots[todo[j].slot].key
      BY <2>2, <2>3, <2>4
    <2>6. EndingsStay(d, lo, new)
      BY <1>2, <2>1, <2>2, <2>5 DEF EndingsStay
    <2> QED
      BY <1>0, <2>6, EndingMoves
  <1>7. ASSUME NEW e, NEW g, HoldCaught(e, g) PROVE EndingInv'
    <2>1. PICK d : d = 0 - 1
      OBVIOUS
    <2>2. PICK new : new = {}
      OBVIOUS
    <2>3. /\ Moves(d, 0, new) /\ SameKeys /\ captured' = [captured EXCEPT ![g] = e] /\ g \in Places
          /\ e.op = "keycode"
      BY <1>7, <2>1, <2>2 DEF HoldCaught, Caught, Keeps
    <2>4. \A k \in Places : captured'[k] = IF k = g THEN e ELSE captured[k]
      BY <2>3, TypeFacts DEF CapturedType
    <2>5. \A k \in Places : IsCaptured(k)' => IsCaptured(k) /\ captured'[k] = captured[k]
      BY <2>3, <2>4 DEF IsCaptured
    <2>6. PICK lo \in {0, 1} : lo = 0
      OBVIOUS
    <2>7. EndingsStay(d, lo, new)
      BY <1>1, <2>2, <2>3, <2>5, <2>6 DEF EndingsStay
    <2> QED
      BY <1>0, <2>7, EndingMoves
  <1>8. ASSUME NEW e, NEW g, Taken(e, g) PROVE EndingInv'
    <2>1. PICK d : d = 0
      OBVIOUS
    <2>2. PICK new : new = {}
      OBVIOUS
    <2>3. /\ Moves(d, 1, new) /\ SameKeys /\ captured' = [captured EXCEPT ![g] = e] /\ g \in Places
          /\ e.key = todo[1].key /\ IsEvent(todo[1]) /\ 1 \in Here
      BY <1>8, <2>1, <2>2, Heads DEF Taken, Caught, Drops
    <2>4. \A k \in Places : captured'[k] = IF k = g THEN e ELSE captured[k]
      BY <2>3, TypeFacts DEF CapturedType
    <2>5. \A j \in Here : j > 1 /\ IsEnding(todo[j]) => e.key # slots[todo[j].slot].key
      BY <2>3 DEF EndingInv
    <2>6. \A k \in Places : IsCaptured(k)' =>
           \/ IsCaptured(k) /\ captured'[k] = captured[k]
           \/ \A j \in Here : j > 1 /\ IsEnding(todo[j]) => captured'[k].key # slots[todo[j].slot].key
      BY <2>3, <2>4, <2>5 DEF IsCaptured
    <2>7. PICK lo \in {0, 1} : lo = 1
      OBVIOUS
    <2>8. /\ Moves(d, lo, new)
          /\ \A k \in Places : IsCaptured(k)' =>
               \/ IsCaptured(k) /\ captured'[k] = captured[k]
               \/ \A j \in Here : j > lo /\ IsEnding(todo[j]) => captured'[k].key # slots[todo[j].slot].key
      BY <2>3, <2>6, <2>7
    <2>9. EndingsStay(d, lo, new)
      BY <1>1, <2>2, <2>3, <2>8 DEF EndingsStay
    <2> QED
      BY <1>0, <2>9, EndingMoves
  <1>9. ASSUME NEW d, Nothing(d) PROVE EndingInv'
    <2>1. PICK new : new = {}
      OBVIOUS
    <2>2. Moves(d, 1, new) /\ SameKeys /\ captured' = captured
      BY <1>9, <2>1 DEF Nothing, Delivery
    <2>3. PICK lo \in {0, 1} : lo = 1
      OBVIOUS
    <2>4. EndingsStay(d, lo, new)
      BY <1>1, <1>2, <2>1, <2>2, <2>3 DEF EndingsStay
    <2> QED
      BY <1>0, <2>4, EndingMoves
  <1>10. ASSUME NEW i, NEW d, NewSlot(i, d) PROVE EndingInv'
    <2>1. PICK new : new = {}
      OBVIOUS
    <2>2. /\ Moves(d, 1, new) /\ captured' = captured /\ i \in Slot \ InUse
          /\ slots' = [slots EXCEPT ![i] = [Free EXCEPT !.key = todo[1].key, !.time = todo[1].time]]
      BY <1>10, <2>1 DEF NewSlot, Delivery
    <2>3. ASSUME NEW j \in Here, IsEnding(todo[j])
          PROVE  todo[j].slot \in InUse' /\ slots'[todo[j].slot].key = slots[todo[j].slot].key
      <3>1. todo[j].slot \in InUse /\ todo[j].slot # i
        BY <2>2, <2>3 DEF EndingInv
      <3>2. todo[j].slot \in Slot /\ slots'[todo[j].slot] = slots[todo[j].slot]
        BY <2>2, <3>1, TypeFacts DEF InUse
      <3> QED
        BY <3>1, <3>2 DEF InUse
    <2>4. PICK lo \in {0, 1} : lo = 1
      OBVIOUS
    <2>5. EndingsStay(d, lo, new)
      BY <1>2, <2>1, <2>2, <2>3, <2>4 DEF EndingsStay
    <2> QED
      BY <1>0, <2>5, EndingMoves
  <1> QED
    BY <1>3, <1>4, <1>5, <1>6, <1>7, <1>8, <1>9, <1>10

LEMMA EndingRaises ==
  ASSUME TypeInv, todo' \in Seq(Call), EndingInv, RoomInv, NEW n, Raises(n)
  PROVE  EndingInv'
  <1>0. todo \in Seq(Call)
    BY DEF TypeInv
  <1>1. PICK d : d = 1
    OBVIOUS
  <1>2. PICK new : new = {1, 2}
    OBVIOUS
  <1>3. /\ Moves(d, 1, new) /\ SameKeys /\ captured' = [captured EXCEPT ![n] = None] /\ n \in Places
        /\ captured[n] # None /\ IsReplay(todo[1]) /\ todo[1].from = n /\ 1 \in Here
        /\ todo'[1] = captured[n] /\ todo'[2] = Replay(n + 1)
    BY <1>1, <1>2, Heads DEF Raises
  <1>4. \A k \in Places : captured'[k] = IF k = n THEN None ELSE captured[k]
    BY <1>3, TypeFacts DEF CapturedType
  <1>5. \A k \in Places : IsCaptured(k)' => IsCaptured(k) /\ captured'[k] = captured[k]
    BY <1>4 DEF IsCaptured
  <1>6. /\ ~IsEnding(todo'[1]) /\ ~IsEnding(todo'[2]) /\ ~IsEvent(todo'[2])
        /\ IsEvent(todo'[1]) => IsCaptured(n)
    <2>1. captured[n] \in PositionEvent({"position"}) \cup KeycodeEvent
      BY <1>3, TypeFacts DEF CapturedType
    <2> QED
      BY <1>3, <2>1 DEF IsEnding, IsEvent, Replay, Moving, PositionEvent, KeycodeEvent, IsCaptured
  <1>7. ASSUME NEW j \in Here, j > 1, IsEnding(todo[j]), IsEvent(todo'[1])
        PROVE  todo'[1].key # slots[todo[j].slot].key
    <2>1. SUFFICES ASSUME captured[n].key = slots[todo[j].slot].key PROVE FALSE
      BY <1>3
    <2>2. After(j, n)
      BY <1>3, <1>6, <1>7, <2>1 DEF EndingInv
    <2>3. PICK i \in Here : j < i /\ IsReplay(todo[i]) /\ todo[i].from <= n
      BY <2>2 DEF After
    <2>4. 1 < i /\ todo[i].from \in Nat /\ n \in Nat
      BY <1>3, <1>7, <2>3, ReplayType DEF Here, Places
    <2>5. n < todo[i].from
      BY <1>3, <2>3, <2>4 DEF RoomInv, RoomPairs, RoomFirst, RoomDown
    <2> QED
      BY <2>3, <2>4, <2>5
  <1>8. \A j \in Here : IsEnding(todo[j]) =>
           todo[j].slot \in InUse' /\ slots'[todo[j].slot].key = slots[todo[j].slot].key
    BY <1>3 DEF SameKeys, EndingInv
  <1>9. PICK lo \in {0, 1} : lo = 1
    OBVIOUS
  <1>10. \A i \in Here' : i \in new => ~IsEnding(todo'[i])
    BY <1>2, <1>6
  <1>11. \A i \in Here', j \in Here : i \in new /\ IsEvent(todo'[i]) /\ j > lo /\ IsEnding(todo[j])
            => todo'[i].key # slots[todo[j].slot].key
    <2>1. SUFFICES ASSUME NEW i \in new, NEW j \in Here, IsEvent(todo'[i]), j > 1, IsEnding(todo[j])
                   PROVE  todo'[i].key # slots[todo[j].slot].key
      BY <1>9
    <2>2. i = 1
      BY <1>2, <1>6, <2>1
    <2> QED
      BY <1>7, <2>1, <2>2
  <1>12. Moves(d, lo, new)
    BY <1>3, <1>9
  <1>13. EndingsStay(d, lo, new)
    BY <1>5, <1>8, <1>10, <1>11, <1>12 DEF EndingsStay
  <1> QED
    BY <1>0, <1>13, EndingMoves

LEMMA EndingEnds ==
  ASSUME TypeInv, todo' \in Seq(Call), EndingInv, SlotsInv, NEW s, NEW d, Ends(s, d)
  PROVE  EndingInv'
  <1>0. todo \in Seq(Call) /\ Here \subseteq Nat /\ Here' \subseteq Nat /\ Places' = Places
    BY DEF TypeInv, Here, Places
  <1>1. /\ d \in {1, 2} /\ d + 1 \in Here' /\ todo'[d + 1] = Ending(s) /\ SameKeys /\ captured' = captured
        /\ s \in InUse /\ slots[s].key = todo[1].key /\ 1 \in Here /\ IsEvent(todo[1]) /\ slots' = slots
    BY Heads DEF Ends, Delivery, AtKeymap, Found
  <1>2. PICK p \in Nat : p = d + 1 /\ p > 1
    BY <1>1
  <1>3. Moves(d, 1, {p}) /\ p \in Here' /\ todo'[p] = Ending(s)
    BY <1>1, <1>2 DEF Ends, Delivery
  <1>4. IsEnding(todo'[p]) /\ todo'[p].slot = s /\ ~IsEvent(todo'[p]) /\ ~IsReplay(todo'[p])
    BY <1>3 DEF IsEnding, Ending, IsEvent, IsReplay, Moving
  <1>5. ASSUME NEW j \in Here', Heavy(todo'[j]), j # p
        PROVE  \E l \in Here : l = j - d /\ j = l + d /\ 1 < l /\ p < j /\ Like(todo'[j], todo[l])
    <2>1. j - d \in Here /\ j - d > 1 /\ Like(todo'[j], todo[j - d])
      BY <1>3, <1>5 DEF Moves
    <2>2. PICK l \in Here : l = j - d /\ l > 1
      BY <2>1
    <2>3. l \in Int /\ j \in Int /\ d \in Int /\ p = d + 1 /\ l = j - d /\ l > 1
      BY <1>0, <1>1, <1>2, <2>2
    <2>4. j = l + d /\ 1 < l /\ p < j
      BY ONLY <2>3
    <2> QED
      BY <2>1, <2>2, <2>4
  <1>6. ASSUME NEW j \in Here, 1 < j, IsEnding(todo[j]) PROVE todo[j].slot # s
    BY <1>1, <1>6 DEF EndingInv
  <1>7. ASSUME NEW j \in Here, 1 <= j, NEW k \in Places, After(j, k) PROVE After(j + d, k)'
    <2>1. PICK one \in {0, 1} : one = 1
      OBVIOUS
    <2>2. PICK new : new = {p}
      OBVIOUS
    <2>3. Moves(d, one, new) /\ j \in Nat /\ j >= one
      BY <1>0, <1>3, <1>7, <2>1, <2>2
    <2> QED
      BY <1>0, <1>7, <2>3, MovedAfter
  <1>8. InUse' = InUse /\ \A k \in Places : IsCaptured(k)' <=> IsCaptured(k)
    BY <1>1 DEF SameKeys, IsCaptured
  <1>9. ASSUME NEW j \in Here', IsEnding(todo'[j]), j # p
        PROVE  \E l \in Here : /\ l = j - d /\ j = l + d /\ 1 < l /\ p < j /\ IsEnding(todo[l])
                               /\ todo'[j].slot = todo[l].slot /\ todo[l].slot # s
    <2>1. PICK l \in Here : l = j - d /\ j = l + d /\ 1 < l /\ p < j /\ Like(todo'[j], todo[l])
      BY <1>5, <1>9 DEF Heavy
    <2> QED
      BY <1>6, <1>9, <2>1 DEF Like
  <1>10. ASSUME NEW i \in Here', IsEvent(todo'[i])
         PROVE  \E l \in Here : /\ i = l + d /\ 1 < l /\ p < i /\ IsEvent(todo[l])
                                /\ todo'[i].key = todo[l].key
    <2>1. i # p
      BY <1>4, <1>10
    <2>2. PICK l \in Here : i = l + d /\ 1 < l /\ p < i /\ Like(todo'[i], todo[l])
      BY <1>5, <1>10, <2>1 DEF Heavy
    <2> QED
      BY <1>10, <2>2 DEF Like
  <1>11. ASSUME NEW j \in Here', IsEnding(todo'[j])
         PROVE  /\ todo'[j].slot \in InUse
                /\ \A i \in Here' : IsEnding(todo'[i]) /\ todo'[i].slot = todo'[j].slot => i = j
                /\ \A i \in Here' : i < j /\ IsEvent(todo'[i]) => todo'[i].key # slots[todo'[j].slot].key
                /\ \A k \in Places : IsCaptured(k) /\ captured[k].key = slots[todo'[j].slot].key => After(j, k)'
    <2>1. CASE j = p
      <3>1. \A i \in Here' : IsEnding(todo'[i]) /\ todo'[i].slot = s => i = p
        BY <1>9
      <3>2. \A i \in Here' : ~(i < p /\ IsEvent(todo'[i]))
        BY <1>0, <1>2, <1>10
      <3>3. ASSUME NEW k \in Places, IsCaptured(k), captured[k].key = slots[s].key PROVE After(p, k)'
        <4>1. Behind(k)
          BY <1>1, <3>3 DEF SlotsInv
        <4>2. ~IsReplay(todo[1]) /\ \A i \in Here : i = 1 \/ 1 < i
          BY <1>1 DEF IsReplay, IsEvent, Moving, Here
        <4>3. After(1, k)
          BY <4>1, <4>2 DEF Behind, After
        <4>4. After(1 + d, k)'
          BY <1>1, <1>7, <4>3
        <4>5. 1 + d = p
          BY <1>1, <1>2
        <4> QED
          BY <4>4, <4>5
      <3> QED
        BY <1>1, <1>4, <2>1, <3>1, <3>2, <3>3
    <2>2. CASE j # p
      <3>1. PICK l \in Here : /\ l = j - d /\ j = l + d /\ 1 < l /\ p < j /\ IsEnding(todo[l])
                              /\ todo'[j].slot = todo[l].slot /\ todo[l].slot # s
        BY <1>9, <1>11, <2>2
      <3>2. todo'[j].slot \in InUse
        BY <3>1 DEF EndingInv
      <3>3. ASSUME NEW i \in Here', IsEnding(todo'[i]), todo'[i].slot = todo'[j].slot PROVE i = j
        <4>1. i # p
          BY <1>4, <3>1, <3>3
        <4>2. PICK h \in Here : i = h + d /\ IsEnding(todo[h]) /\ todo'[i].slot = todo[h].slot
          BY <1>9, <3>3, <4>1
        <4> QED
          BY <3>1, <3>3, <4>2 DEF EndingInv
      <3>4. ASSUME NEW i \in Here', i < j, IsEvent(todo'[i]) PROVE todo'[i].key # slots[todo'[j].slot].key
        <4>1. PICK h \in Here : i = h + d /\ IsEvent(todo[h]) /\ todo'[i].key = todo[h].key
          BY <1>10, <3>4
        <4>2. h < l
          <5>1. h \in Int /\ l \in Int /\ d \in Int /\ i = h + d /\ j = l + d /\ i < j
            BY <1>0, <1>1, <3>1, <3>4, <4>1
          <5> QED
            BY ONLY <5>1
        <4> QED
          BY <3>1, <4>1, <4>2 DEF EndingInv
      <3>5. ASSUME NEW k \in Places, IsCaptured(k), captured[k].key = slots[todo'[j].slot].key
            PROVE  After(j, k)'
        <4>1. After(l, k)
          BY <3>1, <3>5 DEF EndingInv
        <4>2. After(l + d, k)'
          BY <1>0, <1>7, <3>1, <4>1
        <4> QED
          BY <3>1, <4>2
      <3> QED
        BY <3>2, <3>3, <3>4, <3>5
    <2> QED
      BY <2>1, <2>2
  <1> QED
    BY <1>0, <1>1, <1>8, <1>11 DEF EndingInv

-----------------------------------------------------------------------------
(* The end of a release comes right after the decision its key takes *)

KeyUps(q) ==
  \A j \in 1 .. Len(q) : IsEnding(q[j]) /\ q[j].slot = undecided =>
    j > 1 /\ q[j - 1] = Decide(undecided, "key-up")

LEMMA KeyUpSplice ==
  ASSUME TypeInv, KeyUpInv, undecided' = undecided, NEW q, Splices(q), KeyUps(q),
         ~(undecided # 0 /\ todo[1] = Decide(undecided, "key-up"))
  PROVE  KeyUpInv'
  <1>0. todo \in Seq(Call) /\ todo # <<>>
    BY DEF TypeInv, Splices
  <1>1. PICK m \in Nat : m = Len(q)
    BY <1>0, Splicing
  <1>2. PICK u : u = undecided /\ u = undecided'
    OBVIOUS
  <1>3. SUFFICES ASSUME NEW j \in Here', IsEnding(todo'[j]), todo'[j].slot = u
                 PROVE  j > 1 /\ todo'[j - 1] = Decide(u, "key-up")
    BY <1>2 DEF KeyUpInv
  <1>4. j \in Nat /\ j >= 1 /\ Here \subseteq Nat
    BY DEF Here
  <1>5. CASE j <= m
    <2>1. j \in 1 .. Len(q) /\ todo'[j] = q[j]
      BY <1>0, <1>1, <1>4, <1>5, Splicing
    <2>2. j > 1 /\ q[j - 1] = Decide(u, "key-up")
      BY <1>2, <1>3, <2>1 DEF KeyUps
    <2>3. j - 1 \in 1 .. Len(q)
      BY <1>1, <1>4, <1>5, <2>2
    <2>4. todo'[j - 1] = q[j - 1]
      BY <1>0, <2>3, Splicing
    <2> QED
      BY <2>2, <2>4
  <1>6. CASE ~(j <= m)
    <2>1. PICK i \in Here : i = j - (m - 1) /\ i > 1 /\ todo'[j] = todo[i]
      BY <1>0, <1>1, <1>4, <1>6, Splicing
    <2>2. todo[i - 1] = Decide(u, "key-up") /\ i - 1 \in Here
      BY <1>2, <1>3, <2>1 DEF KeyUpInv, Here
    <2>3. u # 0
      <3>1. todo[i] \in SlotCall
        BY <1>0, <1>3, <2>1, Heads, CallKinds DEF IsEnding
      <3> QED
        BY <1>3, <2>1, <3>1, HoldTapAssumption DEF SlotCall, Slot
    <2>4. PICK h \in Here : h = i - 1
      BY <2>2
    <2>5. h > 1
      <3>1. h # 1
        BY <1>2, <2>2, <2>3, <2>4
      <3> QED
        BY <1>4, <2>1, <2>4, <3>1
    <2>6. h + (m - 1) \in Here' /\ todo'[h + (m - 1)] = todo[h]
      BY <1>0, <1>1, <2>5, Splicing
    <2>7. h + (m - 1) = j - 1 /\ j > 1
      BY <1>1, <1>4, <2>1, <2>4, <2>5
    <2> QED
      BY <2>2, <2>4, <2>6, <2>7
  <1> QED
    BY <1>5, <1>6

LEMMA KeyUpSteps ==
  ASSUME TypeInv, EndingInv, KeyUpInv, Unlingering, todo' \in Seq(Call), Handle
  PROVE  KeyUpInv'
  <1>0. todo \in Seq(Call)
    BY DEF TypeInv
  <1>1. ASSUME NEW q, Splices(q), Lights(q) PROVE KeyUps(q)
    BY <1>1, LightOrHeavy DEF KeyUps, Lights, Splices
  <1>2. ASSUME NEW q, NEW o, Onward(q, o), IsEvent(todo[1]) PROVE Splices(q) /\ KeyUps(q)
    <2>1. \A j \in 1 .. Len(q) : j = Len(q) \/ j < Len(q)
      BY <1>2, <1>0, Splicing DEF Onward
    <2>2. IsEvent(q[Len(q)])
      BY <1>2 DEF Onward, Carries, Like
    <2>3. \A j \in 1 .. Len(q) : ~IsEnding(q[j])
      BY <1>2, <2>1, <2>2, LightOrHeavy DEF Onward, Carries, Splices
    <2> QED
      BY <1>2, <2>3 DEF KeyUps, Onward
  <1>3. ASSUME IsEvent(todo[1]) \/ IsReplay(todo[1]) \/ IsEnding(todo[1]) \/ IsKeycode(todo[1])
        PROVE  ~(undecided # 0 /\ todo[1] = Decide(undecided, "key-up"))
    BY <1>3 DEF IsEvent, IsReplay, IsEnding, IsKeycode, Decide, Moving
  <1>4. CASE Interrupt
    BY <1>2, <1>3, <1>4, InterruptCalls, KeyUpSplice DEF Interrupt
  <1>5. CASE Listen
    BY <1>2, <1>3, <1>5, ListenCalls, KeyUpSplice DEF Listen
  <1>6. CASE Capture
    <2>1. undecided' = undecided
      BY <1>6 DEF Capture
    <2>2. IsEvent(todo[1]) /\ \E q : Splices(q) /\ KeyUps(q)
      BY <1>1, <1>2, <1>6, CaptureCalls
    <2> QED
      BY <1>3, <2>1, <2>2, KeyUpSplice
  <1>7. CASE DecideNothing
    BY <1>1, <1>7, DecideNothingCalls, KeyUpSplice DEF DecideNothing, code
  <1>8. CASE DecideFinally
    <2>1. undecided' = 0
      BY <1>8, DecideFinallyCalls
    <2>2. ASSUME NEW j \in Here', IsEnding(todo'[j]) PROVE todo'[j].slot # 0
      <3>1. todo'[j] \in Call
        BY DEF Here
      <3>2. todo'[j] \in SlotCall
        BY <2>2, <3>1, CallKinds DEF IsEnding
      <3> QED
        BY <3>2, HoldTapAssumption DEF SlotCall, Slot
    <2> QED
      BY <2>1, <2>2 DEF KeyUpInv
  <1>9. CASE ReplayNext
    <2>1. undecided' = undecided
      BY <1>9 DEF ReplayNext
    <2>2. IsReplay(todo[1])
      BY <1>9, ReplayCalls
    <2>3. ASSUME NEW q, Len(q) = 2, q[1] = captured[todo[1].from], todo[1].from \in Places,
                 q[2] = Replay(todo[1].from + 1), captured[todo[1].from] # None
          PROVE  KeyUps(q)
      <3>1. captured[todo[1].from] \in PositionEvent({"position"}) \cup KeycodeEvent
        BY <2>3, TypeFacts DEF CapturedType
      <3>2. ~IsEnding(q[1]) /\ ~IsEnding(q[2])
        BY <2>3, <3>1 DEF IsEnding, Replay, PositionEvent, KeycodeEvent
      <3>3. \A j \in 1 .. Len(q) : j = 1 \/ j = 2
        BY <2>3
      <3> QED
        BY <3>2, <3>3 DEF KeyUps
    <2>4. \E q : Splices(q) /\ KeyUps(q)
      BY <1>1, <1>9, <2>3, ReplayCalls
    <2> QED
      BY <1>3, <2>1, <2>2, <2>4, KeyUpSplice
  <1>10. CASE PlainKey
    BY <1>1, <1>3, <1>10, PlainKeyCalls, KeyUpSplice DEF PlainKey, code, AtKeymap
  <1>11. CASE BindingPressed
    <2>1. AtKeymap
      BY <1>11, BindingPressedCalls
    <2>2. CASE undecided' = undecided /\ \E q : Splices(q) /\ Lights(q)
      BY <1>1, <1>3, <2>1, <2>2, KeyUpSplice DEF AtKeymap
    <2>3. CASE \E i, d : NewSlot(i, d)
      <3>1. PICK i, d : NewSlot(i, d)
        BY <2>3
      <3>2. i \notin InUse /\ undecided' = i /\ Moves(d, 1, {})
        BY <3>1 DEF NewSlot, Delivery
      <3>3. ASSUME NEW j \in Here', IsEnding(todo'[j]) PROVE todo'[j].slot # i
        <4>1. PICK l \in Here : Like(todo'[j], todo[l])
          BY <3>2, <3>3 DEF Moves, Heavy
        <4>2. IsEnding(todo[l]) /\ todo'[j].slot = todo[l].slot
          BY <3>3, <4>1 DEF Like
        <4> QED
          BY <3>2, <4>2 DEF EndingInv
      <3> QED
        BY <3>2, <3>3 DEF KeyUpInv
    <2> QED
      <3>1. captured' = captured /\ down' = down /\ setup' = setup
        BY <1>11 DEF BindingPressed, input
      <3>2. \/ undecided' = undecided /\ \E q : Splices(q) /\ Lights(q)
            \/ /\ undecided = 0
               /\ \E i \in Slot \ InUse :
                    /\ slots' = [slots EXCEPT ![i] = [Free EXCEPT !.key = todo[1].key, !.time = todo[1].time]]
                    /\ undecided' = i
               /\ \E q : Splices(q) /\ Lights(q)
        BY <1>11, BindingPressedCalls
      <3>3. ASSUME \E q : Splices(q) /\ Lights(q) PROVE \E d : Delivery(d, {})
        BY <1>11, <2>1, <3>1, <3>3, BindingPressedCalls, LightDelivery
      <3>4. todo[1].down /\ todo[1].key \in HoldTap
        BY <1>11, BindingPressedCalls
      <3> QED
        BY <2>2, <2>3, <3>2, <3>3, <3>4 DEF NewSlot
  <1>12. CASE StartTimer
    <2>1. undecided' = undecided
      BY <1>12 DEF StartTimer
    <2>2. ~(undecided # 0 /\ todo[1] = Decide(undecided, "key-up"))
      BY <1>12, StartTimerCalls DEF Decide
    <2> QED
      BY <1>1, <1>12, <2>1, <2>2, StartTimerCalls, KeyUpSplice
  <1>13. CASE BindingReleased
    <2>1. undecided' = undecided
      BY <1>13 DEF BindingReleased
    <2>2. IsEvent(todo[1])
      BY <1>13, BindingReleasedCalls DEF AtKeymap
    <2>3. ASSUME NEW i, NEW q, Splices(q), Len(q) \in {2, 3}, q[Len(q)] = Ending(i),
                 q[Len(q) - 1] = Decide(i, "key-up"), \A j \in 1 .. Len(q) : j < Len(q) => Light(q[j])
          PROVE  KeyUps(q)
      <3>1. PICK m \in {2, 3} : m = Len(q)
        BY <2>3
      <3>2. \A j \in 1 .. m : j = m \/ j < m
        BY <3>1
      <3>3. \A j \in 1 .. m : j < m => ~IsEnding(q[j])
        BY <2>3, <3>1, LightOrHeavy DEF Splices
      <3>4. q[m].slot = i /\ q[m - 1] = Decide(i, "key-up") /\ m > 1
        BY <2>3, <3>1 DEF Ending
      <3> QED
        BY <3>1, <3>2, <3>3, <3>4 DEF KeyUps
    <2>4. \E q : Splices(q) /\ KeyUps(q)
      BY <1>1, <1>13, <2>3, BindingReleasedCalls
    <2> QED
      BY <1>3, <2>1, <2>2, <2>4, KeyUpSplice
  <1>14. CASE Release
    <2>1. undecided' = undecided
      BY ONLY <1>14, Release, Zenon DEF Release
    <2>2. IsEnding(todo[1]) /\ \E q : Splices(q) /\ \A j \in 1 .. Len(q) : IsKeycode(q[j])
      BY <1>14, ReleaseHead, ReleaseCalls
    <2>3. PICK q : Splices(q) /\ \A j \in 1 .. Len(q) : IsKeycode(q[j])
      BY <2>2
    <2>4. Lights(q)
      BY <2>3 DEF Lights, IsKeycode, Light
    <2> QED
      BY <1>1, <1>3, <2>1, <2>2, <2>3, <2>4, KeyUpSplice
  <1>15. CASE KeycodeRaised
    <2>1. undecided' = undecided
      BY <1>15 DEF KeycodeRaised
    <2> QED
      BY <1>1, <1>3, <1>15, <2>1, KeycodeCalls, KeyUpSplice
  <1> QED
    BY <1>4, <1>5, <1>6, <1>7, <1>8, <1>9, <1>10, <1>11, <1>12, <1>13, <1>14, <1>15 DEF Handle

-----------------------------------------------------------------------------
(* The slots and the keys that are owed *)

EndingsKept == \A i : HasEnding(i) => HasEnding(i)'

\* No slot is taken, and what the keymap gets is not of a slot that stays.
SlotsKept ==
  /\ down' = down /\ owed' \subseteq owed
  /\ \A i \in InUse' : i \in InUse /\ slots'[i].key = slots[i].key /\ (HasEnding(i) => HasEnding(i)')
  /\ \A i \in InUse', o \in owed : ~HasEnding(i)' /\ o.key = slots[i].key => o \in owed'
  /\ \A k \in Places : IsCaptured(k)' =>
       \/ IsCaptured(k) /\ captured'[k] = captured[k] /\ (Behind(k) => Behind(k)')
       \/ \A i \in InUse' : captured'[k].key # slots[i].key

LEMMA SlotsStay ==
  ASSUME SlotsInv, SlotsKept
  PROVE  SlotsInv'
  <1>1. \A i, j \in InUse' : slots'[i].key = slots'[j].key => i = j
    BY DEF SlotsKept, SlotsInv
  <1>2. ASSUME NEW i \in InUse', ~HasEnding(i)'
        PROVE  /\ \A o \in owed' : o.key = slots'[i].key /\ o.down =>
                    \E q \in owed' : Opposite(q, o) /\ q.n < o.n
               /\ slots'[i].key \notin down' => \E q \in owed' : q.key = slots'[i].key /\ ~q.down
    <2>1. /\ i \in InUse /\ slots'[i].key = slots[i].key /\ ~HasEnding(i) /\ down' = down
          /\ \A o \in owed : o.key = slots[i].key => o \in owed'
      BY <1>2 DEF SlotsKept
    <2>2. ASSUME NEW o \in owed', o.key = slots[i].key, o.down
          PROVE  \E q \in owed' : Opposite(q, o) /\ q.n < o.n
      <3>1. PICK q \in owed : Opposite(q, o) /\ q.n < o.n
        BY <2>1, <2>2 DEF SlotsInv, SlotsKept
      <3>2. q \in owed'
        BY <2>1, <2>2, <3>1 DEF Opposite
      <3> QED
        BY <3>1, <3>2
    <2>3. ASSUME slots[i].key \notin down PROVE \E q \in owed' : q.key = slots[i].key /\ ~q.down
      <3>1. PICK q \in owed : q.key = slots[i].key /\ ~q.down
        BY <2>1, <2>3 DEF SlotsInv
      <3> QED
        BY <2>1, <3>1
    <2> QED
      BY <2>1, <2>2, <2>3
  <1>3. ASSUME NEW i \in InUse', NEW k \in Places, IsCaptured(k)', captured'[k].key = slots'[i].key
        PROVE  Behind(k)'
    <2>1. i \in InUse /\ slots'[i].key = slots[i].key
      BY <1>3 DEF SlotsKept
    <2>2. captured'[k].key = slots[i].key
      BY <1>3, <2>1
    <2>3. IsCaptured(k) /\ captured'[k] = captured[k] /\ (Behind(k) => Behind(k)')
      BY <1>3, <2>2 DEF SlotsKept
    <2>4. captured[k].key = slots[i].key
      BY <2>2, <2>3
    <2> QED
      BY <2>1, <2>3, <2>4 DEF SlotsInv
  <1>4. Places' = Places
    BY DEF Places
  <1> QED
    BY <1>1, <1>2, <1>3, <1>4, Zenon DEF SlotsInv, Opposite

LEMMA EndingsGo ==
  ASSUME NEW d, NEW lo \in {0, 1}, NEW new, Moves(d, lo, new), lo = 1 => ~IsEnding(todo[1])
  PROVE  EndingsKept
  <1>1. ASSUME NEW i, NEW j \in Here, IsEnding(todo[j]), todo[j].slot = i PROVE HasEnding(i)'
    <2>1. j > lo
      BY <1>1 DEF Here
    <2>2. j + d \in Here' /\ Like(todo'[j + d], todo[j])
      BY <1>1, <2>1 DEF Moves, Heavy
    <2>3. IsEnding(todo'[j + d]) /\ todo'[j + d].slot = i
      BY <1>1, <2>2 DEF Like
    <2> QED
      BY <2>2, <2>3 DEF HasEnding
  <1> QED
    BY <1>1 DEF EndingsKept, HasEnding

LEMMA BehindStays ==
  ASSUME ReplaysStay, NEW k \in Places, Behind(k)
  PROVE  Behind(k)'
  <1>1. PICK j \in Here : IsReplay(todo[j]) /\ todo[j].from <= k
    BY DEF Behind, After
  <1>2. PICK i \in Here' : IsReplay(todo'[i]) /\ todo'[i].from = todo[j].from
    BY <1>1 DEF ReplaysStay
  <1>3. 0 < i /\ todo'[i].from <= k
    BY <1>1, <1>2 DEF Here
  <1> QED
    BY <1>2, <1>3 DEF Behind, After

\* What is captured has no slot.
LEMMA TakenKey ==
  ASSUME TypeInv, OwedInv, LineInv, EndingInv, SlotsInv, RoomInv, Cover, NEW e, NEW g, Taken(e, g)
  PROVE  \A i \in InUse : slots[i].key # e.key
  <1>1. /\ todo # <<>> /\ IsEvent(todo[1]) /\ e.key = todo[1].key /\ ~Bubbles(todo[1]) /\ Caught(e, g)
        /\ g \in Places /\ captured[g] = None
    BY DEF Taken, Caught
  <1>2. CASE todo[1].down
    BY <1>1, <1>2, NoSlot
  <1>3. CASE ~todo[1].down
    <2>1. SUFFICES ASSUME NEW i \in InUse, slots[i].key = e.key PROVE FALSE
      OBVIOUS
    <2>2. CapturedDown(todo[1].key)
      BY <1>1, <1>3 DEF Bubbles
    <2>3. PICK n \in DOMAIN captured : /\ \A m \in 1 .. n : captured[m] # None
                                       /\ captured[n].op = "position" /\ captured[n].key = todo[1].key
      BY <2>2 DEF CapturedDown
    <2>4. n \in Places /\ n \in Nat /\ g \in Nat /\ g >= 1
      BY <1>1, TypeFacts DEF CapturedType, Places
    <2>5. captured[n] # None /\ n < g
      <3>1. n \in 1 .. n
        BY <2>4 DEF Places
      <3>2. captured[n] # None
        BY <2>3, <3>1
      <3>3. g \notin 1 .. n
        BY <1>1, <2>3
      <3> QED
        BY <2>4, <3>2, <3>3
    <2>6. ~Behind(n)
      BY <1>1, <2>4, <2>5, CaughtSides
    <2>7. IsCaptured(n) /\ captured[n].key = slots[i].key
      BY <1>1, <2>1, <2>3, <2>5 DEF IsCaptured
    <2> QED
      BY <2>4, <2>6, <2>7 DEF SlotsInv
  <1> QED
    BY <1>2, <1>3

\* A delivery leaves what other keys owe.
LEMMA DeliveryLeaves ==
  ASSUME TypeInv, OwedInv, NEW d, NEW new, Delivery(d, new)
  PROVE  /\ owed' \subseteq owed /\ down' = down /\ IsEvent(todo[1]) /\ 1 \in Here
         /\ \A o \in owed : o.n # todo[1].n => o \in owed'
         /\ \A o \in owed : o.key # todo[1].key => o \in owed'
         /\ \A o \in owed' : o.n # todo[1].n
  <1>1. IsEvent(todo[1]) /\ 1 \in Here /\ down' = down /\ owed' = owed \ {o \in owed : o.n = todo[1].n}
    BY Heads DEF Delivery, Delivered, AtKeymap
  <1>2. ASSUME NEW o \in owed, o.n = todo[1].n PROVE o.key = todo[1].key
    BY <1>1, <1>2, Own DEF Stands
  <1> QED
    BY <1>1, <1>2

LEMMA SlotsSteps ==
  ASSUME TypeInv, Shape, Cover, OwedInv, LineInv, RoomInv, EndingInv, SlotsInv, todo' \in Seq(Call)
  PROVE  /\ \A d : Rolls(d) => SlotsInv'
         /\ \A p : Decided(p) => SlotsInv'
         /\ Stops => SlotsInv'
         /\ \A d : Frees(d) => SlotsInv'
         /\ \A e, g : HoldCaught(e, g) => SlotsInv'
         /\ \A e, g : Taken(e, g) => SlotsInv'
         /\ \A n : Raises(n) => SlotsInv'
  <1>0. todo \in Seq(Call)
    BY DEF TypeInv
  <1>1. ASSUME SameKeys, EndingsKept, owed' = owed, down' = down,
               \A k \in Places : IsCaptured(k)' =>
                 \/ IsCaptured(k) /\ captured'[k] = captured[k] /\ (Behind(k) => Behind(k)')
                 \/ \A i \in InUse' : captured'[k].key # slots[i].key
        PROVE  SlotsInv'
    <2>1. SlotsKept
      BY <1>1 DEF SlotsKept, SameKeys, EndingsKept
    <2> QED
      BY <2>1, SlotsStay
  <1>2. ASSUME ReplaysStay, captured' = captured
        PROVE  \A k \in Places : IsCaptured(k)' =>
                 IsCaptured(k) /\ captured'[k] = captured[k] /\ (Behind(k) => Behind(k)')
    BY <1>2, BehindStays DEF IsCaptured
  <1>3. ASSUME NEW d, Rolls(d) PROVE SlotsInv'
    <2>1. PICK lo \in {0, 1} : lo = 0
      OBVIOUS
    <2>2. PICK new : new = {}
      OBVIOUS
    <2>3. Moves(d, lo, new) /\ SameKeys /\ owed' = owed /\ down' = down /\ captured' = captured
      BY <1>3, <2>1, <2>2 DEF Rolls, Keeps, SameLine
    <2>4. EndingsKept /\ ReplaysStay
      <3>1. lo = 1 => ~IsEnding(todo[1]) /\ ~IsReplay(todo[1])
        BY <2>1
      <3> QED
        BY <2>3, <3>1, EndingsGo, Staying
    <2> QED
      BY <1>1, <1>2, <2>3, <2>4
  <1>4. ASSUME NEW p, Decided(p) PROVE SlotsInv'
    <2>1. PICK lo \in {0, 1} : lo = 0
      OBVIOUS
    <2>2. PICK d : d = p - 1
      OBVIOUS
    <2>3. PICK new : new = {p}
      OBVIOUS
    <2>4. Moves(d, lo, new) /\ SameKeys /\ owed' = owed /\ down' = down /\ captured' = captured
      BY <1>4, <2>1, <2>2, <2>3 DEF Decided
    <2>5. EndingsKept /\ ReplaysStay
      <3>1. lo = 1 => ~IsEnding(todo[1]) /\ ~IsReplay(todo[1])
        BY <2>1
      <3> QED
        BY <2>4, <3>1, EndingsGo, Staying
    <2> QED
      BY <1>1, <1>2, <2>4, <2>5
  <1>5. ASSUME Stops PROVE SlotsInv'
    <2>1. PICK d : d = 0 - 1
      OBVIOUS
    <2>2. PICK lo \in {0, 1} : lo = 1
      OBVIOUS
    <2>3. PICK new : new = {}
      OBVIOUS
    <2>4. /\ Moves(d, lo, new) /\ Moves(d, 1, new) /\ SameKeys /\ owed' = owed /\ down' = down
          /\ captured' = captured /\ IsReplay(todo[1])
      BY <1>5, <2>1, <2>2, <2>3 DEF Stops, Drops, SameLine
    <2>5. EndingsKept
      BY <2>4, EndingsGo DEF IsReplay, IsEnding
    <2>6. ReplaysBehind
      BY <2>4, StayingBehind
    <2>7. ASSUME NEW k \in Places, captured[k] # None, Behind(k) PROVE Behind(k)'
      <3>1. PICK j \in Here : IsReplay(todo[j]) /\ todo[j].from <= k
        BY <2>7 DEF Behind, After
      <3>2. \E i \in Here : i # 1 /\ IsReplay(todo[i]) /\ todo[i].from <= k
        <4>1. CASE j # 1
          BY <3>1, <4>1
        <4>2. CASE j = 1
          <5>1. ~Filled(todo[1].from, k) /\ ~Filled(1, k)
            BY <1>5, <3>1, <4>2, StopsAtGap
          <5>2. PICK i \in Here : IsReplay(todo[i]) /\ todo[i].from <= k /\ Filled(todo[i].from, k)
            BY <2>7, <5>1 DEF Cover
          <5>3. i # 1
            BY <5>1, <5>2
          <5> QED
            BY <5>2, <5>3
        <4> QED
          BY <4>1, <4>2
      <3>3. PICK i \in Here : i # 1 /\ IsReplay(todo[i]) /\ todo[i].from <= k
        BY <3>2
      <3>4. PICK l \in Here' : IsReplay(todo'[l]) /\ todo'[l].from = todo[i].from
        BY <2>6, <3>3 DEF ReplaysBehind
      <3>5. 0 < l /\ todo'[l].from <= k
        BY <3>3, <3>4 DEF Here
      <3> QED
        BY <3>4, <3>5 DEF Behind, After
    <2>8. \A k \in Places : IsCaptured(k)' =>
            IsCaptured(k) /\ captured'[k] = captured[k] /\ (Behind(k) => Behind(k)')
      BY <2>4, <2>7 DEF IsCaptured
    <2> QED
      BY <1>1, <2>4, <2>5, <2>8
  <1>6. ASSUME NEW d, Frees(d) PROVE SlotsInv'
    <2>1. PICK s : s = todo[1].slot
      OBVIOUS
    <2>2. /\ Moves(d, 1, {}) /\ owed' = owed /\ down' = down /\ captured' = captured /\ s \in InUse
          /\ slots' = [slots EXCEPT ![s] = Free] /\ IsEnding(todo[1]) /\ 1 \in Here
      BY <1>6, <2>1, Heads DEF Frees, Drops, SameLine
    <2>3. s \in Slot /\ slots'[s].key = None /\ \A i \in Slot : i # s => slots'[i] = slots[i]
      BY <2>2, TypeFacts DEF InUse, Free
    <2>4. ASSUME NEW i \in InUse' PROVE i # s /\ i \in InUse /\ slots'[i].key = slots[i].key
      BY <2>3, <2>4 DEF InUse
    <2>5. ASSUME NEW i \in InUse', HasEnding(i) PROVE HasEnding(i)'
      <3>1. PICK j \in Here : IsEnding(todo[j]) /\ todo[j].slot = i
        BY <2>5 DEF HasEnding
      <3>2. j > 1
        <4>1. j # 1
          BY <2>1, <2>4, <3>1
        <4> QED
          BY <4>1 DEF Here
      <3>3. j + d \in Here' /\ Like(todo'[j + d], todo[j])
        BY <2>2, <3>1, <3>2 DEF Moves, Heavy
      <3>4. IsEnding(todo'[j + d]) /\ todo'[j + d].slot = i
        BY <3>1, <3>3 DEF Like
      <3> QED
        BY <3>3, <3>4 DEF HasEnding
    <2>6. ReplaysStay
      <3>1. PICK lo \in {0, 1} : lo = 1
        OBVIOUS
      <3>2. PICK new : new = {}
        OBVIOUS
      <3>3. Moves(d, lo, new) /\ ~IsReplay(todo[1])
        BY <2>2, <3>1, <3>2 DEF IsEnding, IsReplay
      <3> QED
        BY <3>3, Staying
    <2>7. SlotsKept
      BY <1>2, <2>2, <2>4, <2>5, <2>6 DEF SlotsKept
    <2> QED
      BY <2>7, SlotsStay
  <1>7. ASSUME NEW e, NEW g, Caught(e, g), ReplaysStay,
               e.op # "position" \/ \A i \in InUse : e.key # slots[i].key
        PROVE  \A k \in Places : IsCaptured(k)' =>
                 \/ IsCaptured(k) /\ captured'[k] = captured[k] /\ (Behind(k) => Behind(k)')
                 \/ \A i \in InUse' : captured'[k].key # slots[i].key
    <2>1. InUse' = InUse /\ \A k \in Places : captured'[k] = IF k = g THEN e ELSE captured[k]
      BY <1>7, TypeFacts DEF Caught, CapturedType, SameKeys
    <2>2. SUFFICES ASSUME NEW k \in Places, IsCaptured(k)'
                   PROVE  \/ IsCaptured(k) /\ captured'[k] = captured[k] /\ (Behind(k) => Behind(k)')
                          \/ \A i \in InUse' : captured'[k].key # slots[i].key
      OBVIOUS
    <2>3. CASE k = g
      <3>1. captured'[k] = e
        BY <2>1, <2>3
      <3>2. e.op = "position"
        BY <2>2, <3>1 DEF IsCaptured
      <3> QED
        BY <1>7, <2>1, <3>1, <3>2
    <2>4. CASE k # g
      BY <1>7, <2>1, <2>2, <2>4, BehindStays DEF IsCaptured
    <2> QED
      BY <2>3, <2>4
  <1>8. ASSUME NEW e, NEW g, HoldCaught(e, g) PROVE SlotsInv'
    <2>1. PICK d : d = 0 - 1
      OBVIOUS
    <2>2. PICK lo \in {0, 1} : lo = 0
      OBVIOUS
    <2>3. PICK new : new = {}
      OBVIOUS
    <2>4. /\ Moves(d, lo, new) /\ SameKeys /\ owed' = owed /\ down' = down /\ Caught(e, g)
          /\ e.op = "keycode"
      BY <1>8, <2>1, <2>2, <2>3 DEF HoldCaught, Caught, Keeps, SameLine
    <2>5. EndingsKept /\ ReplaysStay
      <3>1. lo = 1 => ~IsEnding(todo[1]) /\ ~IsReplay(todo[1])
        BY <2>2
      <3> QED
        BY <2>4, <3>1, EndingsGo, Staying
    <2>6. e.op # "position"
      BY <2>4
    <2> QED
      BY <1>1, <1>7, <2>4, <2>5, <2>6
  <1>9. ASSUME NEW e, NEW g, Taken(e, g) PROVE SlotsInv'
    <2>1. PICK d : d = 0
      OBVIOUS
    <2>2. PICK lo \in {0, 1} : lo = 1
      OBVIOUS
    <2>3. PICK new : new = {}
      OBVIOUS
    <2>4. /\ Moves(d, lo, new) /\ SameKeys /\ owed' = owed /\ down' = down /\ Caught(e, g)
          /\ IsEvent(todo[1])
      BY <1>9, <2>1, <2>2, <2>3 DEF Taken, Caught, Drops, SameLine
    <2>5. EndingsKept /\ ReplaysStay
      BY <2>4, EndingsGo, Staying DEF IsEvent, IsEnding, IsReplay, Moving
    <2>6. \A i \in InUse : e.key # slots[i].key
      BY <1>9, TakenKey
    <2> QED
      BY <1>1, <1>7, <2>4, <2>5, <2>6
  <1>10. ASSUME NEW n, Raises(n) PROVE SlotsInv'
    <2>1. PICK d : d = 1
      OBVIOUS
    <2>2. PICK lo \in {0, 1} : lo = 1
      OBVIOUS
    <2>3. PICK new : new = {1, 2}
      OBVIOUS
    <2>4. /\ Moves(d, lo, new) /\ Moves(d, 1, new) /\ SameKeys /\ owed' = owed /\ down' = down
          /\ IsReplay(todo[1]) /\ todo[1].from = n /\ n \in Places
          /\ captured' = [captured EXCEPT ![n] = None] /\ 2 \in Here' /\ todo'[2] = Replay(n + 1)
      BY <1>10, <2>1, <2>2, <2>3 DEF Raises, SameLine
    <2>5. EndingsKept
      BY <2>4, EndingsGo DEF IsReplay, IsEnding
    <2>6. ReplaysBehind
      BY <2>4, StayingBehind
    <2>7. \A k \in Places : captured'[k] = IF k = n THEN None ELSE captured[k]
      BY <2>4, TypeFacts DEF CapturedType
    <2>8. ASSUME NEW k \in Places, k # n, Behind(k) PROVE Behind(k)'
      <3>1. PICK j \in Here : IsReplay(todo[j]) /\ todo[j].from <= k
        BY <2>8 DEF Behind, After
      <3>2. CASE j # 1
        <4>1. PICK l \in Here' : IsReplay(todo'[l]) /\ todo'[l].from = todo[j].from
          BY <2>6, <3>1, <3>2 DEF ReplaysBehind
        <4>2. 0 < l /\ todo'[l].from <= k
          BY <3>1, <4>1 DEF Here
        <4> QED
          BY <4>1, <4>2 DEF Behind, After
      <3>3. CASE j = 1
        <4>1. n + 1 <= k
          BY <2>4, <2>8, <3>1, <3>3 DEF Places
        <4>2. IsReplay(todo'[2]) /\ todo'[2].from <= k
          BY <2>4, <4>1 DEF IsReplay, Replay
        <4> QED
          BY <2>4, <4>2 DEF Behind, After
      <3> QED
        BY <3>2, <3>3
    <2>9. \A k \in Places : IsCaptured(k)' =>
            IsCaptured(k) /\ captured'[k] = captured[k] /\ (Behind(k) => Behind(k)')
      BY <2>7, <2>8 DEF IsCaptured
    <2> QED
      BY <1>1, <2>4, <2>5, <2>9
  <1> QED
    BY <1>3, <1>4, <1>5, <1>6, <1>8, <1>9, <1>10

\* What the keymap gets, and does nothing more with, is of no slot.
LEMMA SlotsNothing ==
  ASSUME TypeInv, OwedInv, SlotsInv, NEW d, Nothing(d), \A i \in InUse : slots[i].key # todo[1].key
  PROVE  SlotsInv'
  <1>1. PICK lo \in {0, 1} : lo = 1
    OBVIOUS
  <1>2. PICK new : new = {}
    OBVIOUS
  <1>3. Moves(d, lo, new) /\ Delivery(d, new) /\ SameKeys /\ captured' = captured /\ AtKeymap
    BY <1>1, <1>2 DEF Nothing, Delivery
  <1>4. lo = 1 => ~IsEnding(todo[1]) /\ ~IsReplay(todo[1])
    BY <1>3 DEF AtKeymap, IsEvent, IsEnding, IsReplay, Moving
  <1>5. EndingsKept /\ ReplaysStay
    BY <1>3, <1>4, EndingsGo, Staying
  <1>6. /\ owed' \subseteq owed /\ down' = down
        /\ \A o \in owed : o.key # todo[1].key => o \in owed'
    BY <1>3, DeliveryLeaves
  <1>7. \A k \in Places : IsCaptured(k)' =>
          IsCaptured(k) /\ captured'[k] = captured[k] /\ (Behind(k) => Behind(k)')
    BY <1>3, <1>5, BehindStays DEF IsCaptured
  <1>8. InUse' = InUse /\ \A i \in InUse : slots'[i].key = slots[i].key
    BY <1>3 DEF SameKeys
  <1>9. SlotsKept
    BY <1>5, <1>6, <1>7, <1>8 DEF SlotsKept, EndingsKept
  <1> QED
    BY <1>9, SlotsStay

\* A slot whose key's release has come is about to end.
LEMMA SlotsEnds ==
  ASSUME TypeInv, OwedInv, SlotsInv, NEW s, NEW d, Ends(s, d)
  PROVE  SlotsInv'
  <1>1. PICK lo \in {0, 1} : lo = 1
    OBVIOUS
  <1>2. PICK new : new = {d + 1}
    OBVIOUS
  <1>3. /\ Moves(d, lo, new) /\ Delivery(d, new) /\ SameKeys /\ captured' = captured /\ AtKeymap
        /\ s \in InUse /\ slots[s].key = todo[1].key
        /\ d + 1 \in Here' /\ todo'[d + 1] = Ending(s)
    BY <1>1, <1>2 DEF Ends, Delivery, Found
  <1>4. lo = 1 => ~IsEnding(todo[1]) /\ ~IsReplay(todo[1])
    BY <1>3 DEF AtKeymap, IsEvent, IsEnding, IsReplay, Moving
  <1>5. EndingsKept /\ ReplaysStay
    BY <1>3, <1>4, EndingsGo, Staying
  <1>6. /\ owed' \subseteq owed /\ down' = down
        /\ \A o \in owed : o.key # todo[1].key => o \in owed'
    BY <1>3, DeliveryLeaves
  <1>7. \A k \in Places : IsCaptured(k)' =>
          IsCaptured(k) /\ captured'[k] = captured[k] /\ (Behind(k) => Behind(k)')
    BY <1>3, <1>5, BehindStays DEF IsCaptured
  <1>8. InUse' = InUse /\ \A i \in InUse : slots'[i].key = slots[i].key
    BY <1>3 DEF SameKeys
  <1>9. HasEnding(s)'
    <2>1. PICK p \in Here' : todo'[p] = Ending(s)
      BY <1>3
    <2>2. IsEnding(todo'[p]) /\ todo'[p].slot = s
      BY <2>1 DEF IsEnding, Ending
    <2> QED
      BY <2>2 DEF HasEnding
  <1>10. ASSUME NEW i \in InUse, ~HasEnding(i)' PROVE slots[i].key # todo[1].key
    <2>1. i # s
      BY <1>9, <1>10
    <2> QED
      BY <1>3, <2>1 DEF SlotsInv
  <1>11. SlotsKept
    <2>1. \A i \in InUse', o \in owed : ~HasEnding(i)' /\ o.key = slots[i].key => o \in owed'
      BY <1>6, <1>8, <1>10
    <2> QED
      BY <1>5, <1>6, <1>7, <1>8, <2>1 DEF SlotsKept, EndingsKept
  <1> QED
    BY <1>11, SlotsStay

\* A press takes a slot. What is owed for its key begins with a release.
LEMMA SlotsTaken ==
  ASSUME TypeInv, OwedInv, LineInv, Cover, EndingInv, KeymapInv, TurnsInv, SlotsInv,
         todo' \in Seq(Call), NEW s, NEW d, NewSlot(s, d)
  PROVE  SlotsInv'
  <1>1. PICK lo \in {0, 1} : lo = 1
    OBVIOUS
  <1>2. PICK new : new = {}
    OBVIOUS
  <1>3. /\ Moves(d, lo, new) /\ Delivery(d, new) /\ captured' = captured /\ AtKeymap
        /\ todo[1].down /\ s \in Slot /\ s \notin InUse /\ undecided = 0 /\ todo # <<>>
        /\ slots' = [slots EXCEPT ![s] = [Free EXCEPT !.key = todo[1].key, !.time = todo[1].time]]
    BY <1>1, <1>2 DEF NewSlot, Delivery, AtKeymap
  <1>4. lo = 1 => ~IsEnding(todo[1]) /\ ~IsReplay(todo[1])
    BY <1>3 DEF AtKeymap, IsEvent, IsEnding, IsReplay, Moving
  <1>5. EndingsKept /\ ReplaysStay
    BY <1>3, <1>4, EndingsGo, Staying
  <1>6. /\ owed' \subseteq owed /\ down' = down /\ IsEvent(todo[1]) /\ 1 \in Here
        /\ \A o \in owed : o.n # todo[1].n => o \in owed'
        /\ \A o \in owed : o.key # todo[1].key => o \in owed'
        /\ \A o \in owed' : o.n # todo[1].n
    BY <1>3, DeliveryLeaves
  <1>7. \A k \in Places : IsCaptured(k)' =>
          IsCaptured(k) /\ captured'[k] = captured[k] /\ (Behind(k) => Behind(k)')
    BY <1>3, <1>5, BehindStays DEF IsCaptured
  <1>8. /\ slots'[s].key = todo[1].key /\ \A i \in Slot : i # s => slots'[i] = slots[i]
        /\ \A i \in InUse' : i = s \/ (i \in InUse /\ slots'[i].key = slots[i].key)
    <2>1. slots'[s] = [Free EXCEPT !.key = todo[1].key, !.time = todo[1].time]
      BY <1>3, TypeFacts
    <2>2. slots'[s].key = todo[1].key
      BY <2>1 DEF Free
    <2>3. \A i \in Slot : i # s => slots'[i] = slots[i]
      BY <1>3, TypeFacts
    <2> QED
      BY <2>2, <2>3 DEF InUse
  <1>9. \A i \in InUse : slots[i].key # todo[1].key
    BY <1>3, <1>6, NoSlot
  <1>10. \A i, j \in InUse' : slots'[i].key = slots'[j].key => i = j
    BY <1>8, <1>9 DEF SlotsInv
  <1>11. PICK own \in owed : /\ Stands(own, todo[1]) /\ todo[1].n \in Nat
                             /\ \A q \in owed : q.n = todo[1].n => q = own
    BY <1>6, Own
  <1>12. /\ \A o \in owed' : o.key = todo[1].key /\ o.down => \E q \in owed' : Opposite(q, o) /\ q.n < o.n
         /\ todo[1].key \notin down' => \E q \in owed' : q.key = todo[1].key /\ ~q.down
    <2>1. own.key = todo[1].key /\ own.down /\ own.n = todo[1].n
      BY <1>3, <1>11 DEF Stands
    <2>2. ASSUME NEW o \in owed', o.key = todo[1].key, o.down
          PROVE  \E q \in owed' : Opposite(q, o) /\ q.n < o.n
      <3>1. o \in owed /\ o.n \in Nat /\ o.n # todo[1].n
        BY <1>6, TypeFacts
      <3>2. ~(o.n < todo[1].n)
        BY <1>3, <3>1, NoEarlier
      <3>3. own.n < o.n
        BY <1>11, <2>1, <3>1, <3>2
      <3>4. o.down = own.down
        <4>1. own.down \in BOOLEAN /\ o.down \in BOOLEAN
          BY <3>1, TypeFacts DEF Owed
        <4> QED
          BY <2>1, <2>2, <4>1
      <3>5. PICK r \in owed : Opposite(r, own) /\ own.n < r.n /\ r.n < o.n
        BY <2>1, <2>2, <3>1, <3>3, <3>4 DEF TurnsInv
      <3>6. r.n # todo[1].n
        BY <1>11, <2>1, <3>5, TypeFacts
      <3>7. r \in owed'
        BY <1>6, <3>5, <3>6
      <3> QED
        BY <2>1, <2>2, <3>4, <3>5, <3>7 DEF Opposite
    <2>3. ASSUME todo[1].key \notin down' PROVE \E q \in owed' : q.key = todo[1].key /\ ~q.down
      <3>1. own.down # (own.key \in down)
        BY <1>6, <2>1, <2>3
      <3>2. PICK r \in owed : Opposite(r, own) /\ own.n < r.n
        BY <3>1 DEF TurnsInv
      <3>3. r.n # todo[1].n
        BY <1>11, <2>1, <3>2, TypeFacts
      <3>4. r \in owed' /\ r.key = todo[1].key /\ r.down # own.down
        BY <1>6, <2>1, <3>2, <3>3 DEF Opposite
      <3>5. r.down \in BOOLEAN
        BY <3>2, TypeFacts DEF Owed
      <3> QED
        BY <2>1, <3>4, <3>5
    <2> QED
      BY <2>2, <2>3
  <1>13. ASSUME NEW i \in InUse', ~HasEnding(i)'
         PROVE  /\ \A o \in owed' : o.key = slots'[i].key /\ o.down =>
                     \E q \in owed' : Opposite(q, o) /\ q.n < o.n
                /\ slots'[i].key \notin down' => \E q \in owed' : q.key = slots'[i].key /\ ~q.down
    <2>1. CASE i = s
      BY <1>8, <1>12, <2>1
    <2>2. CASE i # s
      <3>1. i \in InUse /\ slots'[i].key = slots[i].key /\ ~HasEnding(i) /\ slots[i].key # todo[1].key
        BY <1>5, <1>8, <1>9, <1>13, <2>2 DEF EndingsKept
      <3>2. ASSUME NEW o \in owed', o.key = slots[i].key, o.down
            PROVE  \E q \in owed' : Opposite(q, o) /\ q.n < o.n
        <4>1. PICK q \in owed : Opposite(q, o) /\ q.n < o.n
          BY <1>6, <3>1, <3>2 DEF SlotsInv
        <4>2. q \in owed'
          BY <1>6, <3>1, <3>2, <4>1 DEF Opposite
        <4> QED
          BY <4>1, <4>2
      <3>3. ASSUME slots[i].key \notin down PROVE \E q \in owed' : q.key = slots[i].key /\ ~q.down
        <4>1. PICK q \in owed : q.key = slots[i].key /\ ~q.down
          BY <3>1, <3>3 DEF SlotsInv
        <4> QED
          BY <1>6, <3>1, <4>1
      <3> QED
        BY <1>6, <3>1, <3>2, <3>3
    <2> QED
      BY <2>1, <2>2
  <1>14. ASSUME NEW i \in InUse', NEW k \in Places, IsCaptured(k)', captured'[k].key = slots'[i].key
         PROVE  Behind(k)'
    <2>1. IsCaptured(k) /\ captured'[k] = captured[k] /\ (Behind(k) => Behind(k)')
      BY <1>7, <1>14
    <2>2. CASE i = s
      BY <1>3, <2>1, Held DEF IsCaptured
    <2>3. CASE i # s
      <3>1. i \in InUse /\ captured[k].key = slots[i].key
        BY <1>8, <1>14, <2>1, <2>3
      <3> QED
        BY <2>1, <3>1 DEF SlotsInv
    <2> QED
      BY <2>2, <2>3
  <1>15. Places' = Places
    BY DEF Places
  <1> QED
    BY <1>10, <1>13, <1>14, <1>15, Zenon DEF SlotsInv, Opposite

-----------------------------------------------------------------------------
(* What reaches the keymap while a hold-tap is undecided *)

\* Without a call of the keymap among the new ones there is none.
LEMMA NoKeymap ==
  ASSUME todo \in Seq(Call), Shape, NEW q, Splices(q), \A j \in 1 .. Len(q) : q[j].op # "keymap"
  PROVE  KeymapInv'
  <1>1. ASSUME NEW j \in Here' PROVE todo'[j].op # "keymap"
    <2>1. j \in Nat /\ j >= 1 /\ Len(q) \in Nat
      BY Splicing DEF Here
    <2>2. CASE j <= Len(q)
      <3>1. j \in 1 .. Len(q)
        BY <2>1, <2>2
      <3> QED
        BY <3>1, Splicing
    <2>3. CASE ~(j <= Len(q))
      <3>1. PICK i \in Here : i > 1 /\ todo'[j] = todo[i]
        BY <2>1, <2>3, Splicing
      <3>2. i # 1
        BY <3>1
      <3> QED
        BY <3>1, <3>2 DEF Shape
    <2> QED
      BY <2>2, <2>3
  <1> QED
    BY <1>1 DEF KeymapInv

\* The first event gets there.
LEMMA GetsThere ==
  ASSUME todo \in Seq(Call), Shape, NEW q, Onward(q, "keymap"), Len(q) = 1, IsEvent(todo[1]),
         captured' = captured,
         undecided' # 0 =>
           /\ ~todo[1].down
           /\ \A k \in Places : IsCaptured(k) /\ captured[k].key = todo[1].key => Behind(k)
  PROVE  KeymapInv'
  <1>1. Splices(q) /\ Carries(q)
    BY DEF Onward
  <1>2. Keeps(Len(q) - 1)
    BY <1>1, CarrySteps
  <1>3. PICK d : d = Len(q) - 1
    OBVIOUS
  <1>4. PICK lo \in {0, 1} : lo = 0
    OBVIOUS
  <1>5. PICK new : new = {}
    OBVIOUS
  <1>6. Moves(d, lo, new)
    BY <1>2, <1>3, <1>4, <1>5 DEF Keeps
  <1>7. ReplaysStay
    BY <1>4, <1>6, Staying
  <1>8. ASSUME NEW j \in Here', todo'[j].op = "keymap" PROVE j = 1
    <2>1. j \in Nat /\ j >= 1
      BY DEF Here
    <2>2. CASE j > 1
      <3>1. PICK i \in Here : i > 1 /\ todo'[j] = todo[i]
        BY <1>1, <2>2, Splicing
      <3>2. i # 1
        BY <3>1
      <3> QED
        BY <1>8, <3>1, <3>2 DEF Shape
    <2> QED
      BY <2>1, <2>2
  <1>9. todo'[1].key = todo[1].key /\ todo'[1].down = todo[1].down
    <2>1. 1 \in 1 .. Len(q)
      OBVIOUS
    <2>2. todo'[1] = q[1]
      BY <1>1, <2>1, Splicing
    <2>3. Like(q[1], todo[1])
      BY <1>1 DEF Carries
    <2> QED
      BY <2>2, <2>3 DEF Like
  <1>10. ASSUME undecided' # 0, NEW k \in Places, IsCaptured(k)', captured'[k].key = todo'[1].key
         PROVE  Behind(k)'
    <2>1. IsCaptured(k) /\ captured[k].key = todo[1].key
      BY <1>9, <1>10 DEF IsCaptured
    <2>2. Behind(k)
      BY <1>10, <2>1
    <2> QED
      BY <1>7, <2>2, BehindStays
  <1>11. Places' = Places
    BY DEF Places
  <1>12. ASSUME NEW j \in Here', todo'[j].op = "keymap", undecided' # 0
         PROVE  /\ ~todo'[j].down
                /\ \A k \in Places : IsCaptured(k)' /\ captured'[k].key = todo'[j].key => Behind(k)'
    BY <1>8, <1>9, <1>10, <1>12
  <1> QED
    BY <1>11, <1>12 DEF KeymapInv

\* A release that is not captured has no captured event of its key to wait for.
LEMMA BubblesIn ==
  ASSUME TypeInv, OwedInv, LineInv, Cover, TurnsInv, todo # <<>>, IsEvent(todo[1]), Bubbles(todo[1]),
         NEW k \in Places, IsCaptured(k), captured[k].key = todo[1].key
  PROVE  Behind(k)
  <1>1. SUFFICES ASSUME ~Behind(k) PROVE FALSE
    OBVIOUS
  <1>2. ~todo[1].down /\ ~CapturedDown(todo[1].key) /\ 1 \in Here
    BY Heads DEF Bubbles
  <1>3. ASSUME NEW l \in Places, IsCaptured(l), ~Behind(l), captured[l].key = todo[1].key, captured[l].down
        PROVE  FALSE
    <2>1. \A m \in 1 .. l : captured[m] # None
      BY <1>3, Held DEF IsCaptured, Filled
    <2>2. l \in DOMAIN captured
      BY TypeFacts DEF CapturedType
    <2> QED
      BY <1>2, <1>3, <2>1, <2>2 DEF CapturedDown, IsCaptured
  <1>4. ~captured[k].down
    BY <1>1, <1>3
  <1>5. captured[k].n < todo[1].n
    <2>1. ~After(1, k)
      BY <1>1 DEF Behind, After, Here
    <2> QED
      BY <1>2, <2>1 DEF LineInv
  <1>6. PICK o \in owed : Stands(o, captured[k])
    BY DEF OwedInv
  <1>7. PICK own \in owed : Stands(own, todo[1])
    BY <1>2, Own
  <1>8. o.key = own.key /\ o.down = own.down /\ o.n < own.n /\ ~o.down
    <2>1. ~o.down /\ ~own.down /\ o.down \in BOOLEAN /\ own.down \in BOOLEAN
      BY <1>2, <1>4, <1>6, <1>7, TypeFacts DEF Stands, Owed
    <2>2. o.down = own.down
      BY <2>1
    <2> QED
      BY <1>5, <1>6, <1>7, <2>1, <2>2 DEF Stands
  <1>9. PICK r \in owed : Opposite(r, o) /\ r.n < own.n
    BY <1>8 DEF TurnsInv
  <1>10. r.n < todo[1].n /\ r.key = todo[1].key /\ r.down
    <2>1. r.down \in BOOLEAN /\ o.down \in BOOLEAN
      BY <1>9, TypeFacts DEF Owed
    <2> QED
      BY <1>7, <1>8, <1>9, <2>1 DEF Opposite, Stands
  <1>11. PICK l \in Places : IsCaptured(l) /\ Stands(r, captured[l]) /\ ~Behind(l)
    BY <1>9, <1>10, Older
  <1> QED
    BY <1>3, <1>10, <1>11 DEF Stands

LEMMA KeymapSteps ==
  ASSUME TypeInv, Shape, Cover, OwedInv, LineInv, TurnsInv, EndingInv, KeyUpInv, SlotsInv,
         Unlingering, todo' \in Seq(Call), Handle
  PROVE  KeymapInv'
  <1>0. todo \in Seq(Call)
    BY DEF TypeInv
  <1>1. ASSUME NEW q, Splices(q), Lights(q) PROVE KeymapInv'
    <2>1. \A j \in 1 .. Len(q) : q[j].op # "keymap"
      BY <1>1 DEF Lights, Light
    <2> QED
      BY <1>0, <1>1, <2>1, NoKeymap
  <1>2. ASSUME NEW q, NEW o, Onward(q, o), IsEvent(todo[1]), o # "keymap" PROVE KeymapInv'
    <2>1. \A j \in 1 .. Len(q) : j = Len(q) \/ j < Len(q)
      BY <1>2, <1>0, Splicing DEF Onward
    <2>2. q[Len(q)].op = o
      <3>1. PICK c : c = todo[1]
        OBVIOUS
      <3>2. c \in PositionEvent(Moving)
        BY <1>2, <3>1, Heads, CallKinds DEF Onward, Splices
      <3>3. q[Len(q)] = [c EXCEPT !.op = o]
        BY <1>2, <3>1 DEF Onward
      <3> QED
        BY <3>2, <3>3 DEF PositionEvent
    <2>3. \A j \in 1 .. Len(q) : q[j].op # "keymap"
      <3>1. \A j \in 1 .. Len(q) : j < Len(q) => q[j].op # "keymap"
        BY <1>2 DEF Onward, Carries, Light
      <3> QED
        BY <1>2, <2>1, <2>2, <3>1
    <2> QED
      BY <1>0, <1>2, <2>3, NoKeymap DEF Onward
  <1>3. CASE Interrupt
    BY <1>2, <1>3, InterruptCalls
  <1>4. CASE Listen
    <2>1. undecided' = undecided /\ captured' = captured
      BY <1>4 DEF Listen
    <2>2. todo # <<>> /\ IsEvent(todo[1])
      BY <1>4, ListenCalls
    <2>3. CASE \E q : Onward(q, "capture")
      BY <1>2, <2>2, <2>3
    <2>4. CASE /\ undecided = 0 \/ slots[undecided].key = todo[1].key
               /\ \E q : Onward(q, "keymap") /\ Len(q) = 1
      <3>1. PICK q : Onward(q, "keymap") /\ Len(q) = 1
        BY <2>4
      <3>2. ASSUME undecided # 0
            PROVE  /\ ~todo[1].down
                   /\ \A k \in Places : IsCaptured(k) /\ captured[k].key = todo[1].key => Behind(k)
        <4>1. undecided \in InUse /\ slots[undecided].key = todo[1].key
          BY <2>4, <3>2, Slots DEF TypeInv
        <4>2. ~todo[1].down
          BY <2>2, <4>1, NoSlot
        <4> QED
          BY <4>1, <4>2 DEF SlotsInv
      <3> QED
        BY <1>0, <2>1, <2>2, <3>1, <3>2, GetsThere
    <2> QED
      BY <1>4, <2>3, <2>4, ListenCalls
  <1>5. CASE Capture
    <2>1. todo # <<>> /\ IsEvent(todo[1]) /\ undecided' = undecided
      BY <1>5, CaptureCalls DEF Capture
    <2>2. CASE /\ undecided = 0 \/ Bubbles(todo[1])
               /\ UNCHANGED <<captured, faults>>
               /\ \E q : Onward(q, "keymap") /\ Len(q) = 1
      <3>1. PICK q : Onward(q, "keymap") /\ Len(q) = 1
        BY <2>2
      <3>2. ASSUME undecided # 0
            PROVE  /\ ~todo[1].down
                   /\ \A k \in Places : IsCaptured(k) /\ captured[k].key = todo[1].key => Behind(k)
        <4>1. Bubbles(todo[1])
          BY <2>2, <3>2
        <4> QED
          BY <2>1, <4>1, BubblesIn DEF Bubbles
      <3> QED
        BY <1>0, <2>1, <2>2, <3>1, <3>2, GetsThere
    <2>3. CASE \E q : Splices(q) /\ Lights(q)
      BY <1>1, <2>3
    <2> QED
      BY <1>5, <2>2, <2>3, CaptureCalls
  <1>6. CASE DecideNothing
    BY <1>1, <1>6, DecideNothingCalls
  <1>7. CASE DecideFinally
    BY <1>7, DecideFinallyCalls DEF KeymapInv
  <1>8. CASE ReplayNext
    <2>1. CASE \E q : Splices(q) /\ Lights(q)
      BY <1>1, <2>1
    <2>2. CASE /\ todo[1].from \in Places /\ captured[todo[1].from] # None
               /\ \E q : /\ Splices(q) /\ Len(q) = 2
                         /\ q[1] = captured[todo[1].from] /\ q[2] = Replay(todo[1].from + 1)
      <3>1. PICK q : /\ Splices(q) /\ Len(q) = 2
                     /\ q[1] = captured[todo[1].from] /\ q[2] = Replay(todo[1].from + 1)
        BY <2>2
      <3>2. captured[todo[1].from] \in PositionEvent({"position"}) \cup KeycodeEvent
        BY <2>2, TypeFacts DEF CapturedType
      <3>3. q[1].op # "keymap" /\ q[2].op # "keymap"
        BY <3>1, <3>2 DEF Replay, PositionEvent, KeycodeEvent
      <3>4. \A j \in 1 .. Len(q) : j = 1 \/ j = 2
        BY <3>1
      <3> QED
        BY <1>0, <3>1, <3>3, <3>4, NoKeymap
    <2> QED
      BY <1>8, <2>1, <2>2, ReplayCalls
  <1>9. CASE PlainKey
    BY <1>1, <1>9, PlainKeyCalls
  <1>10. CASE BindingPressed
    BY <1>1, <1>10, BindingPressedCalls
  <1>11. CASE StartTimer
    BY <1>1, <1>11, StartTimerCalls
  <1>12. CASE BindingReleased
    <2>1. ASSUME NEW i, NEW q, Splices(q), Len(q) \in {2, 3}, q[Len(q)] = Ending(i),
                 \A j \in 1 .. Len(q) : j < Len(q) => Light(q[j])
          PROVE  KeymapInv'
      <3>1. PICK m \in {2, 3} : m = Len(q)
        BY <2>1
      <3>2. \A j \in 1 .. m : j = m \/ j < m
        BY <3>1
      <3>3. \A j \in 1 .. m : j < m => q[j].op # "keymap"
        BY <2>1, <3>1, LightOrHeavy DEF Splices
      <3>4. q[m].op # "keymap"
        BY <2>1, <3>1 DEF Ending
      <3>5. \A j \in 1 .. Len(q) : q[j].op # "keymap"
        BY <3>1, <3>2, <3>3, <3>4
      <3> QED
        BY <1>0, <2>1, <3>5, NoKeymap
    <2>2. \/ \E q : Splices(q) /\ Lights(q)
          \/ \E i \in Found(todo[1].key) : \E q :
               /\ Splices(q) /\ Len(q) \in {2, 3} /\ q[Len(q)] = Ending(i)
               /\ \A j \in 1 .. Len(q) : j < Len(q) => Light(q[j])
      BY <1>12, BindingReleasedCalls
    <2> QED
      BY <1>1, <2>1, <2>2
  <1>13. CASE Release
    <2>1. \E q : Splices(q) /\ \A j \in 1 .. Len(q) : IsKeycode(q[j])
      BY <1>13, ReleaseHead, ReleaseCalls
    <2> QED
      BY <1>1, <2>1 DEF Lights, IsKeycode, Light
  <1>14. CASE KeycodeRaised
    BY <1>1, <1>14, KeycodeCalls
  <1> QED
    BY <1>3, <1>4, <1>5, <1>6, <1>7, <1>8, <1>9, <1>10, <1>11, <1>12, <1>13, <1>14 DEF Handle

-----------------------------------------------------------------------------
(* No more than one hold at a time *)

OneHold(q) == \A i, j \in 1 .. Len(q) : IsHold(q[i]) /\ IsHold(q[j]) => i = j

\* Without a keycode as the first call there is none, but for the new ones.
LEMMA NewHolds ==
  ASSUME todo \in Seq(Call), Shape, NEW q, Splices(q), ~IsKeycode(todo[1]), OneHold(q)
  PROVE  HoldOnce'
  <1>1. ASSUME NEW j \in Here', IsHold(todo'[j]) PROVE j \in 1 .. Len(q) /\ todo'[j] = q[j]
    <2>1. j \in Nat /\ j >= 1 /\ Len(q) \in Nat
      BY Splicing DEF Here
    <2>2. CASE j <= Len(q)
      <3>1. j \in 1 .. Len(q)
        BY <2>1, <2>2
      <3> QED
        BY <3>1, Splicing
    <2>3. CASE ~(j <= Len(q))
      <3>1. PICK i \in Here : i > 1 /\ todo'[j] = todo[i]
        BY <2>1, <2>3, Splicing
      <3>2. 1 \in Here /\ 1 < i
        BY <3>1, Splicing
      <3>3. IsKeycode(todo[i])
        BY <1>1, <3>1 DEF IsHold
      <3> QED
        BY <3>2, <3>3 DEF Shape
    <2> QED
      BY <2>2, <2>3
  <1>2. \A i, j \in Here' : IsHold(todo'[i]) /\ IsHold(todo'[j]) => i = j
    BY <1>1 DEF OneHold
  <1> QED
    BY <1>2 DEF HoldOnce

LEMMA OneCall ==
  ASSUME NEW q \in Seq(Call), Len(q) \in {0, 1}
  PROVE  OneHold(q)
  <1>1. PICK m \in {0, 1} : m = Len(q)
    OBVIOUS
  <1>2. \A i, j \in 1 .. m : i = j
    BY <1>1
  <1> QED
    BY <1>1, <1>2 DEF OneHold

LEMMA HoldSteps ==
  ASSUME TypeInv, Shape, HoldOnce, EndingInv, KeyUpInv, WaitingInv,
         Unlingering, todo' \in Seq(Call), Handle
  PROVE  HoldOnce'
  <1>0. todo \in Seq(Call)
    BY DEF TypeInv
  <1>1. ASSUME NEW q, Splices(q), ~IsKeycode(todo[1]), OneHold(q) PROVE HoldOnce'
    BY <1>0, <1>1, NewHolds
  <1>2. ASSUME NEW q, Splices(q), ~IsKeycode(todo[1]), Len(q) \in {0, 1} PROVE HoldOnce'
    BY <1>1, <1>2, OneCall DEF Splices
  <1>3. ASSUME NEW q, Splices(q), ~IsKeycode(todo[1]), \A j \in 1 .. Len(q) : j < Len(q) => ~IsKeycode(q[j])
        PROVE  HoldOnce'
    <2>1. Len(q) \in Nat
      BY <1>0, <1>3, Splicing
    <2>2. \A j \in 1 .. Len(q) : IsHold(q[j]) => j = Len(q)
      BY <1>3, <2>1 DEF IsHold
    <2>3. OneHold(q)
      BY <2>2 DEF OneHold
    <2> QED
      BY <1>1, <1>3, <2>3
  <1>4. ASSUME IsEvent(todo[1]) \/ IsReplay(todo[1]) \/ IsEnding(todo[1]) PROVE ~IsKeycode(todo[1])
    BY <1>4 DEF IsEvent, IsReplay, IsEnding, IsKeycode, Moving
  <1>5. CASE Interrupt
    <2>1. undecided' = undecided
      BY <1>5 DEF Interrupt
    <2>2. CASE undecided = 0
      BY <2>1, <2>2 DEF HoldOnce, Catching
    <2>3. CASE undecided # 0
      <3>1. \A s, t \in Waiting : s = t
        BY <2>3 DEF WaitingInv
      <3>2. PICK q : Onward(q, "listen") /\ Len(q) <= 2
        BY <1>5, <3>1, InterruptCalls
      <3>3. Splices(q) /\ Len(q) \in Nat /\ Len(q) > 0 /\ IsEvent(todo[1]) /\ Like(q[Len(q)], todo[1])
        BY <1>0, <3>2, Splicing DEF Onward, Carries
      <3>4. ~IsKeycode(q[Len(q)])
        <4>1. IsEvent(q[Len(q)])
          BY <3>3 DEF Like
        <4> QED
          BY <4>1 DEF IsEvent, IsKeycode, Moving
      <3>5. \A i, j \in 1 .. Len(q) : i # Len(q) /\ j # Len(q) => i = j
        BY <3>2, <3>3
      <3>6. OneHold(q)
        BY <3>4, <3>5 DEF OneHold, IsHold
      <3> QED
        BY <1>1, <1>4, <3>3, <3>6
    <2> QED
      BY <2>2, <2>3
  <1>6. CASE Listen
    <2>1. IsEvent(todo[1])
      BY <1>6, ListenCalls
    <2>2. PICK q : \E o : /\ Onward(q, o)
                          /\ \/ Len(q) = 1
                             \/ Len(q) = 2 /\ q[1] = Decide(undecided, "timer")
      BY <1>6, ListenCalls
    <2>3. Splices(q)
      BY <2>2 DEF Onward
    <2>4. \A j \in 1 .. Len(q) : j < Len(q) => ~IsKeycode(q[j])
      <3>1. PICK m \in {1, 2} : m = Len(q)
        BY <2>2
      <3>2. m = 2 => ~IsKeycode(q[1])
        BY <2>2, <3>1 DEF Decide, IsKeycode
      <3>3. ASSUME NEW j \in 1 .. m, j < m PROVE m = 2 /\ j = 1
        <4>1. j \in Int /\ m \in Int /\ 1 <= j /\ j < m /\ (m = 1 \/ m = 2)
          BY <3>1, <3>3
        <4> QED
          BY ONLY <4>1
      <3> QED
        BY <3>1, <3>2, <3>3
    <2> QED
      BY <1>3, <1>4, <2>1, <2>3, <2>4
  <1>7. CASE Capture
    <2>1. IsEvent(todo[1]) /\ \E q : Splices(q) /\ Len(q) \in {0, 1}
      BY <1>7, CaptureCalls DEF Onward
    <2> QED
      BY <1>2, <1>4, <2>1
  <1>8. CASE DecideNothing
    <2>1. ~IsKeycode(todo[1]) /\ \E q : Splices(q) /\ (Len(q) = 0 \/ Len(q) = 1)
      BY <1>8, DecideNothingCalls
    <2>2. PICK q : Splices(q) /\ (Len(q) = 0 \/ Len(q) = 1)
      BY <2>1
    <2>3. Len(q) \in {0, 1}
      BY <2>2
    <2> QED
      BY <1>2, <2>1, <2>2, <2>3
  <1>9. CASE DecideFinally
    BY <1>9, DecideFinallyCalls DEF HoldOnce, Catching
  <1>10. CASE ReplayNext
    <2>1. IsReplay(todo[1])
      BY <1>10, ReplayCalls
    <2>2. CASE \E q : Splices(q) /\ Len(q) = 0
      <3>1. PICK q : Splices(q) /\ Len(q) = 0
        BY <2>2
      <3>2. Len(q) \in {0, 1}
        BY <3>1
      <3> QED
        BY <1>2, <1>4, <2>1, <3>1, <3>2
    <2>3. CASE \E q : Splices(q) /\ Len(q) = 2 /\ q[2] = Replay(todo[1].from + 1)
      <3>1. PICK q : Splices(q) /\ Len(q) = 2 /\ q[2] = Replay(todo[1].from + 1)
        BY <2>3
      <3>2. ~IsHold(q[2]) /\ \A j \in 1 .. Len(q) : j = 1 \/ j = 2
        BY <3>1 DEF IsHold, IsKeycode, Replay
      <3>3. OneHold(q)
        BY <3>2 DEF OneHold
      <3> QED
        BY <1>1, <1>4, <2>1, <3>1, <3>3
    <2>4. \/ \E q : Splices(q) /\ Len(q) = 0
          \/ \E q : Splices(q) /\ Len(q) = 2 /\ q[2] = Replay(todo[1].from + 1)
      BY <1>10, ReplayCalls
    <2> QED
      BY <2>2, <2>3, <2>4
  <1>11. CASE PlainKey
    <2>1. IsEvent(todo[1]) /\ \E q : Splices(q) /\ Len(q) \in {0, 1}
      BY <1>11, PlainKeyCalls DEF AtKeymap
    <2> QED
      BY <1>2, <1>4, <2>1
  <1>12. CASE BindingPressed
    <2>1. IsEvent(todo[1])
      BY <1>12, BindingPressedCalls DEF AtKeymap
    <2>2. PICK q : Splices(q) /\ (Len(q) = 0 \/ \A j \in 1 .. Len(q) : ~IsKeycode(q[j]))
      BY <1>12, BindingPressedCalls
    <2>3. \A j \in 1 .. Len(q) : j < Len(q) => ~IsKeycode(q[j])
      BY <2>2
    <2> QED
      BY <1>3, <1>4, <2>1, <2>2, <2>3
  <1>13. CASE StartTimer
    <2>1. PICK q : Splices(q) /\ Len(q) = 0
      BY <1>13, StartTimerCalls
    <2>2. ~IsKeycode(todo[1])
      BY <1>13, StartTimerCalls DEF IsKeycode
    <2>3. Len(q) \in {0, 1}
      BY <2>1
    <2> QED
      BY <1>2, <2>1, <2>2, <2>3
  <1>14. CASE BindingReleased
    <2>1. IsEvent(todo[1])
      BY <1>14, BindingReleasedCalls DEF AtKeymap
    <2>2. PICK q : Splices(q) /\ (Len(q) = 0 \/ \A j \in 1 .. Len(q) : j < Len(q) => ~IsKeycode(q[j]))
      BY <1>14, BindingReleasedCalls
    <2>3. \A j \in 1 .. Len(q) : j < Len(q) => ~IsKeycode(q[j])
      BY <2>2
    <2> QED
      BY <1>3, <1>4, <2>1, <2>2, <2>3
  <1>15. CASE Release
    <2>1. ~IsKeycode(todo[1]) /\ \E q : Splices(q) /\ OneHold(q)
      BY <1>15, ReleaseHead, ReleaseCalls DEF OneHold
    <2> QED
      BY <1>1, <2>1
  <1>16. CASE KeycodeRaised
    <2>1. Catching' = Catching
      BY <1>16 DEF KeycodeRaised, Catching, Conf, input
    <2>2. PICK q : Splices(q) /\ Len(q) = 0
      BY <1>16, KeycodeCalls
    <2>3. ASSUME NEW j \in Here' PROVE j + 1 \in Here /\ todo'[j] = todo[j + 1]
      <3>1. PICK l \in Int : l = Len(q) /\ l = 0
        BY <2>2
      <3>2. j \in Nat /\ j > l
        BY <3>1 DEF Here
      <3>3. j - (l - 1) \in Here /\ todo'[j] = todo[j - (l - 1)]
        BY <1>0, <2>2, <3>1, <3>2, Splicing
      <3>4. j - (l - 1) = j + 1
        BY <3>1, <3>2
      <3> QED
        BY <3>3, <3>4
    <2>4. ASSUME Catching, NEW i \in Here', NEW j \in Here', IsHold(todo'[i]), IsHold(todo'[j])
          PROVE  i = j
      <3>1. i + 1 = j + 1
        BY <2>3, <2>4 DEF HoldOnce
      <3> QED
        BY <3>1 DEF Here
    <2> QED
      BY <2>1, <2>4 DEF HoldOnce
  <1> QED
    BY <1>5, <1>6, <1>7, <1>8, <1>9, <1>10, <1>11, <1>12, <1>13, <1>14, <1>15, <1>16 DEF Handle

-----------------------------------------------------------------------------
(* The retro-tap keys that wait *)

WaitingFewer == \A s \in Waiting' : s \in Waiting /\ slots'[s].key = slots[s].key
AllOne == \A s, t \in Waiting' : s = t
AloneNext(e) == \A s \in Waiting' : slots'[s].key = e.key /\ ~e.down

Leaves(c, s) == \/ IsEnding(c) /\ c.slot = s
                \/ Past(c) /\ ~c.down /\ c.key = slots[s].key

\* What the new calls must do for those that wait.
WaitingFit(q) ==
  /\ WaitingFewer
  /\ undecided' # 0 => AllOne
  /\ \A j \in 1 .. Len(q) : q[j].op = "listen" => AloneNext(q[j])
  /\ undecided' = 0 => \A j \in 1 .. Len(q) : Past(q[j]) /\ q[j].down => AllOne
  /\ undecided' = 0 => \A s \in Waiting' : Leaves(todo[1], s) =>
       \E l \in 1 .. Len(q) : Leaves(q[l], s)
  /\ Len(q) > 0 /\ ByTimer(q[1]) =>
       \/ Len(q) > 1 /\ q[2].op = "capture" /\ AloneNext(q[2])
       \/ Len(q) > 2 /\ q[2] = Decide(q[1].slot, "key-up") /\ q[3] = Ending(q[1].slot)

LEMMA WaitingSplice ==
  ASSUME todo \in Seq(Call), Shape, WaitingInv, NEW q, Splices(q), WaitingFit(q)
  PROVE  WaitingInv'
  <1>1. PICK m \in Nat : m = Len(q)
    BY Splicing
  <1>2. 1 \in Here /\ Here \subseteq Nat /\ Here' \subseteq Nat /\ todo' \in Seq(Call)
    BY Splicing DEF Here
  <1>3. ASSUME NEW j \in Here', ~(j <= m)
        PROVE  \E i \in Here : i = j - (m - 1) /\ j = i + (m - 1) /\ i > 1 /\ todo'[j] = todo[i]
    <2>1. j \in Nat /\ j > Len(q)
      BY <1>1, <1>2, <1>3
    <2>2. PICK i \in Here : i = j - (m - 1) /\ i > 1 /\ todo'[j] = todo[i]
      BY <1>1, <2>1, Splicing
    <2>3. j = i + (m - 1)
      BY <1>2, <2>1, <2>2
    <2> QED
      BY <2>2, <2>3
  <1>4. ASSUME NEW j \in Here', j <= m PROVE j \in 1 .. Len(q) /\ todo'[j] = q[j]
    <2>1. j \in Nat /\ j >= 1
      BY DEF Here
    <2>2. j \in 1 .. Len(q)
      BY <1>1, <1>4, <2>1
    <2> QED
      BY <2>2, Splicing
  <1>5. undecided' # 0 => \A s, t \in Waiting' : s = t
    BY DEF WaitingFit, AllOne
  <1>6. ASSUME NEW j \in Here', todo'[j].op = "listen" PROVE AloneNext(todo'[j])
    <2>1. SUFFICES ASSUME NEW s \in Waiting' PROVE slots'[s].key = todo'[j].key /\ ~todo'[j].down
      BY DEF AloneNext
    <2>2. CASE j <= m
      BY <1>4, <1>6, <2>2 DEF WaitingFit, AloneNext
    <2>3. CASE ~(j <= m)
      <3>1. PICK i \in Here : todo'[j] = todo[i]
        BY <1>3, <2>3
      <3>2. Alone(todo[i])
        BY <1>6, <3>1 DEF WaitingInv
      <3> QED
        BY <3>1, <3>2 DEF Alone, WaitingFit, WaitingFewer
    <2> QED
      BY <2>2, <2>3
  <1>7. ASSUME NEW j \in Here', Past(todo'[j]), todo'[j].down, NEW s \in Waiting', NEW t \in Waiting',
               ~Leaving(s, j)', ~Leaving(t, j)'
        PROVE  s = t
    <2>1. CASE undecided' # 0
      BY <1>5, <2>1
    <2>2. CASE undecided' = 0 /\ j <= m
      BY <1>4, <1>7, <2>2 DEF WaitingFit, AllOne
    <2>3. CASE undecided' = 0 /\ ~(j <= m)
      <3>1. PICK i \in Here : i = j - (m - 1) /\ j = i + (m - 1) /\ i > 1 /\ todo'[j] = todo[i]
        BY <1>3, <2>3
      <3>2. ASSUME NEW r \in Waiting', Leaving(r, i) PROVE Leaving(r, j)'
        <4>0. slots'[r].key = slots[r].key
          BY DEF WaitingFit, WaitingFewer
        <4>1. PICK l \in Here : l < i /\ Leaves(todo[l], r)
          BY <3>2 DEF Leaving, Leaves
        <4>2. ASSUME NEW h \in Here', h < j, Leaves(todo'[h], r) PROVE Leaving(r, j)'
          BY <4>0, <4>2 DEF Leaving, Leaves
        <4>3. CASE l = 1
          <5>1. PICK h \in 1 .. Len(q) : Leaves(q[h], r)
            BY <2>3, <4>1, <4>3 DEF WaitingFit
          <5>2. h \in Here' /\ todo'[h] = q[h]
            BY <5>1, Splicing
          <5>3. h < j
            <6>1. h \in Nat /\ h <= m /\ j \in Nat /\ m \in Nat
              BY <1>1, <1>2, <5>1
            <6> QED
              BY <2>3, <6>1
          <5> QED
            BY <4>2, <5>1, <5>2, <5>3
        <4>4. CASE l # 1
          <5>1. l > 1 /\ l \in Nat
            BY <1>2, <4>4 DEF Here
          <5>2. l + (m - 1) \in Here' /\ todo'[l + (m - 1)] = todo[l]
            BY <1>1, <5>1, Splicing
          <5>3. l + (m - 1) < j
            BY <1>2, <3>1, <4>1, <5>1
          <5> QED
            BY <4>1, <4>2, <5>2, <5>3
        <4> QED
          BY <4>3, <4>4
      <3>3. ~Leaving(s, i) /\ ~Leaving(t, i) /\ s \in Waiting /\ t \in Waiting
        BY <1>7, <3>2 DEF WaitingFit, WaitingFewer
      <3>4. Past(todo[i]) /\ todo[i].down
        BY <1>7, <3>1
      <3> QED
        BY <3>3, <3>4 DEF WaitingInv
    <2> QED
      BY <2>1, <2>2, <2>3
  <1>8. ASSUME ~Quiet', ByTimer(todo'[1])
        PROVE  \/ Len(todo') = 1
               \/ Len(todo') > 1 /\ todo'[2].op = "capture" /\ AloneNext(todo'[2])
               \/ Len(todo') > 2 /\ todo'[2] = Decide(todo'[1].slot, "key-up") /\ todo'[3] = Ending(todo'[1].slot)
    <2>1. 1 \in Here' /\ Len(todo') \in Nat
      <3>1. todo' # <<>>
        BY <1>8 DEF Quiet
      <3> QED
        BY <1>2, <3>1, EmptySeq DEF Here
    <2>2. m >= 1
      <3>1. SUFFICES ASSUME ~(1 <= m) PROVE FALSE
        BY <1>1
      <3>2. PICK i \in Here : i > 1 /\ todo'[1] = todo[i]
        BY <1>3, <2>1, <3>1
      <3>3. i # 1 /\ ByTimer(todo[i])
        BY <1>8, <3>2
      <3> QED
        BY <3>3 DEF Shape
    <2>3. todo'[1] = q[1]
      BY <1>4, <2>1, <2>2
    <2>4. Len(q) > 0
      BY <1>1, <2>2
    <2>5. CASE Len(q) > 1 /\ q[2].op = "capture" /\ AloneNext(q[2])
      <3>1. 2 \in 1 .. Len(q)
        BY <1>1, <2>5
      <3>2. 2 \in Here' /\ todo'[2] = q[2]
        BY <3>1, Splicing
      <3>3. Len(todo') > 1
        BY <2>1, <3>2 DEF Here
      <3> QED
        BY <2>5, <3>2, <3>3
    <2>6. CASE Len(q) > 2 /\ q[2] = Decide(q[1].slot, "key-up") /\ q[3] = Ending(q[1].slot)
      <3>1. 2 \in 1 .. Len(q) /\ 3 \in 1 .. Len(q)
        BY <1>1, <2>6
      <3>2. 2 \in Here' /\ todo'[2] = q[2] /\ 3 \in Here' /\ todo'[3] = q[3]
        BY <3>1, Splicing
      <3>3. Len(todo') > 2
        BY <2>1, <3>2 DEF Here
      <3> QED
        BY <2>3, <2>6, <3>2, <3>3
    <2> QED
      BY <1>8, <2>3, <2>4, <2>5, <2>6 DEF WaitingFit
  <1> QED
    BY <1>5, <1>6, <1>7, <1>8 DEF WaitingInv, Alone, AloneNext

\* Where no other slot begins to wait.
LEMMA FewerWait ==
  ASSUME setup' = setup,
         \A s \in Slot : slots'[s].key # None /\ slots'[s].status = "timer" =>
           slots'[s].key = slots[s].key /\ slots[s].status = "timer"
  PROVE  WaitingFewer
  <1>1. ASSUME NEW s \in Waiting' PROVE s \in Waiting /\ slots'[s].key = slots[s].key
    <2>1. s \in Slot /\ slots'[s].key # None /\ slots'[s].status = "timer" /\ setup.conf[slots'[s].key].retro
      BY <1>1 DEF Waiting, InUse, Conf
    <2>2. slots'[s].key = slots[s].key /\ slots[s].status = "timer"
      BY <2>1
    <2> QED
      BY <2>1, <2>2 DEF Waiting, InUse, Conf
  <1> QED
    BY <1>1 DEF WaitingFewer

LEMMA StillOne ==
  ASSUME WaitingInv, WaitingFewer, undecided # 0
  PROVE  AllOne
  BY DEF WaitingInv, WaitingFewer, AllOne

\* No event goes on.
LEMMA LightsFit ==
  ASSUME WaitingInv, WaitingFewer, undecided' # 0 => AllOne, NEW q, Lights(q),
         Len(q) = 0 \/ ~ByTimer(q[1]),
         undecided' = 0 => \A s \in Waiting' : ~Leaves(todo[1], s)
  PROVE  WaitingFit(q)
  <1>1. \A j \in 1 .. Len(q) : q[j].op # "listen" /\ ~Past(q[j])
    BY DEF Lights, Light, Past
  <1>2. ~(Len(q) > 0 /\ ByTimer(q[1]))
    OBVIOUS
  <1> QED
    BY <1>1, <1>2 DEF WaitingFit

\* An event goes on from the listener, or from the capture.
LEMMA OnwardWaits ==
  ASSUME TypeInv, WaitingInv, WaitingFewer, undecided' = undecided, todo # <<>>,
         IsEvent(todo[1]), Past(todo[1]),
         NEW q, NEW o \in {"capture", "keymap"}, Onward(q, o),
         Len(q) > 0 /\ ByTimer(q[1]) => Len(q) > 1 /\ q[2].op = "capture" /\ AloneNext(q[2])
  PROVE  WaitingFit(q)
  <1>0. 1 \in Here /\ Here \subseteq Nat
    BY Heads DEF Here
  <1>1. \A j \in 1 .. Len(q) : j = Len(q) \/ j < Len(q)
    BY Splicing DEF Onward, TypeInv
  <1>2. Len(q) \in 1 .. Len(q)
    BY Splicing DEF Onward, TypeInv
  <1>3. /\ q[Len(q)].op = o /\ q[Len(q)].key = todo[1].key /\ q[Len(q)].down = todo[1].down
        /\ \A j \in 1 .. Len(q) : j < Len(q) => Light(q[j])
    <2>1. PICK c : c = todo[1]
      OBVIOUS
    <2>2. c \in PositionEvent(Moving)
      BY <2>1, Heads, CallKinds
    <2>3. q[Len(q)] = [c EXCEPT !.op = o]
      BY <2>1 DEF Onward
    <2> QED
      BY <2>1, <2>2, <2>3 DEF PositionEvent, Onward, Carries
  <1>4. \A j \in 1 .. Len(q) : q[j].op # "listen"
    BY <1>1, <1>3 DEF Light
  <1>5. \A j \in 1 .. Len(q) : Past(q[j]) => j = Len(q)
    BY <1>1, <1>3 DEF Light, Past
  <1>6. ASSUME todo[1].down PROVE AllOne
    <2>1. \A s : ~Leaving(s, 1)
      BY <1>0 DEF Leaving, Here
    <2>2. \A s, t \in Waiting : s = t
      BY <1>0, <1>6, <2>1 DEF WaitingInv
    <2> QED
      BY <2>2 DEF AllOne, WaitingFewer
  <1>7. ASSUME NEW s, Leaves(todo[1], s) PROVE Leaves(q[Len(q)], s)
    <2>1. ~IsEnding(todo[1])
      BY DEF Past, IsEnding
    <2> QED
      BY <1>3, <1>7, <2>1 DEF Leaves, Past
  <1>8. undecided' # 0 => AllOne
    BY StillOne
  <1> QED
    BY <1>2, <1>3, <1>4, <1>5, <1>6, <1>7, <1>8 DEF WaitingFit

LEMMA WaitingListener ==
  ASSUME TypeInv, Shape, OwedInv, LineInv, EndingInv, SlotsInv, WaitingInv, todo' \in Seq(Call),
         Interrupt \/ Listen \/ Capture
  PROVE  WaitingInv'
  <1>0. todo \in Seq(Call)
    BY DEF TypeInv
  <1>1. CASE Interrupt
    <2>1. /\ todo # <<>> /\ IsEvent(todo[1]) /\ todo[1].op = "position" /\ Head(todo) = todo[1]
          /\ undecided' = undecided /\ setup' = setup
      BY <1>1, InterruptCalls, Heads DEF Interrupt, input
    <2>2. PICK q : Onward(q, "listen") /\ \A j \in 1 .. Len(q) : j < Len(q) => IsHold(q[j])
      BY <1>1, InterruptCalls
    <2>3. /\ slots' = [i \in Slot |-> IF i \in Retro(todo[1].key) THEN [slots[i] EXCEPT !.status = "interrupt"]
                                      ELSE slots[i]]
      BY <1>1, <2>1 DEF Interrupt
    <2>4. ASSUME NEW s \in Slot, slots'[s].status = "timer" PROVE s \notin Retro(todo[1].key) /\ slots'[s] = slots[s]
      BY <2>3, <2>4, TypeFacts DEF Row
    <2>5. WaitingFewer
      BY <2>1, <2>4, FewerWait
    <2>6. ASSUME NEW s \in Waiting' PROVE slots'[s].key = todo[1].key /\ ~todo[1].down
      <3>1. s \in Waiting /\ slots'[s].key = slots[s].key
        BY <2>5 DEF WaitingFewer
      <3>2. s \notin Retro(todo[1].key)
        <4>1. s \in Slot /\ slots'[s].status = "timer"
          BY <2>6 DEF Waiting, InUse
        <4> QED
          BY <2>4, <4>1
      <3>3. slots[s].key = todo[1].key /\ s \in InUse
        BY <3>1, <3>2 DEF Retro, Waiting
      <3> QED
        BY <2>1, <3>1, <3>3, NoSlot
    <2>7. \A j \in 1 .. Len(q) : j = Len(q) \/ j < Len(q)
      BY <1>0, <2>2, Splicing DEF Onward
    <2>8. /\ q[Len(q)].op = "listen" /\ q[Len(q)].key = todo[1].key /\ q[Len(q)].down = todo[1].down
      <3>1. PICK c : c = todo[1]
        OBVIOUS
      <3>2. c \in PositionEvent(Moving)
        BY <2>1, <3>1, Heads, CallKinds
      <3>3. q[Len(q)] = [c EXCEPT !.op = "listen"]
        BY <2>2, <3>1 DEF Onward
      <3> QED
        BY <3>1, <3>2, <3>3 DEF PositionEvent
    <2>9. \A j \in 1 .. Len(q) : q[j].op = "listen" \/ Past(q[j]) => j = Len(q)
      BY <2>2, <2>7 DEF IsHold, IsKeycode, Past
    <2>10. \A j \in 1 .. Len(q) : q[j].op = "listen" => AloneNext(q[j])
      BY <2>6, <2>8, <2>9 DEF AloneNext
    <2>11. \A j \in 1 .. Len(q) : Past(q[j]) /\ q[j].down => AllOne
      BY <2>6, <2>8, <2>9 DEF AllOne
    <2>12. \A s : ~Leaves(todo[1], s)
      BY <2>1 DEF Leaves, IsEnding, Past
    <2>13. ~ByTimer(q[1])
      <3>1. 1 \in 1 .. Len(q)
        BY <1>0, <2>2, Splicing DEF Onward
      <3> QED
        BY <2>2, <2>7, <2>8, <3>1 DEF IsHold, IsKeycode, ByTimer
    <2>14. undecided' # 0 => AllOne
      BY <2>1, <2>5, StillOne
    <2>15. WaitingFit(q)
      BY <2>5, <2>10, <2>11, <2>12, <2>13, <2>14 DEF WaitingFit
    <2> QED
      BY <1>0, <2>2, <2>15, WaitingSplice DEF Onward
  <1>2. CASE Listen
    <2>1. /\ todo # <<>> /\ IsEvent(todo[1]) /\ todo[1].op = "listen" /\ Head(todo) = todo[1]
          /\ undecided' = undecided /\ setup' = setup /\ Past(todo[1]) /\ 1 \in Here
      BY <1>2, ListenCalls, Heads DEF Listen, input, Past
    <2>2. \A s \in Slot : slots'[s].key = slots[s].key /\ slots'[s].status = slots[s].status
      <3>1. slots' = slots \/ \E f : slots' = [slots EXCEPT ![undecided].first = f]
        BY <1>2 DEF Listen
      <3> QED
        BY <3>1, TypeFacts DEF Row
    <2>3. WaitingFewer
      BY <2>1, <2>2, FewerWait
    <2>4. PICK q, o : /\ Onward(q, o)
                      /\ \/ o = "keymap" /\ Len(q) = 1
                         \/ o = "capture" /\ Len(q) = 1
                         \/ o = "capture" /\ Len(q) = 2 /\ q[1] = Decide(undecided, "timer")
      BY <1>2, ListenCalls
    <2>5. /\ q[Len(q)].op = o /\ q[Len(q)].key = todo[1].key /\ q[Len(q)].down = todo[1].down
      <3>1. PICK c : c = todo[1]
        OBVIOUS
      <3>2. c \in PositionEvent(Moving)
        BY <2>1, <3>1, Heads, CallKinds
      <3>3. q[Len(q)] = [c EXCEPT !.op = o]
        BY <2>4, <3>1 DEF Onward
      <3> QED
        BY <3>1, <3>2, <3>3 DEF PositionEvent
    <2>6. Alone(todo[1])
      BY <2>1 DEF WaitingInv
    <2>7. AloneNext(q[Len(q)])
      BY <2>3, <2>5, <2>6 DEF AloneNext, Alone, WaitingFewer
    <2>8. ASSUME ByTimer(q[1]) PROVE Len(q) > 1 /\ q[2].op = "capture" /\ AloneNext(q[2])
      <3>1. Len(q) # 1
        BY <2>4, <2>5, <2>8 DEF ByTimer
      <3>2. Len(q) = 2 /\ o = "capture"
        BY <2>4, <3>1
      <3> QED
        BY <2>5, <2>7, <3>2
    <2>9. WaitingFit(q)
      BY <2>1, <2>3, <2>4, <2>8, OnwardWaits
    <2> QED
      BY <1>0, <2>4, <2>9, WaitingSplice DEF Onward
  <1>3. CASE Capture
    <2>1. /\ todo # <<>> /\ IsEvent(todo[1]) /\ todo[1].op = "capture" /\ Head(todo) = todo[1]
          /\ undecided' = undecided /\ setup' = setup /\ slots' = slots /\ Past(todo[1])
      BY <1>3, CaptureCalls, Heads DEF Capture, input, Past
    <2>2. WaitingFewer
      BY <2>1, FewerWait
    <2>3. CASE \E q : Onward(q, "keymap") /\ Len(q) = 1
      <3>1. PICK q : Onward(q, "keymap") /\ Len(q) = 1
        BY <2>3
      <3>2. ~ByTimer(q[1])
        <4>1. IsEvent(q[1])
          BY <2>1, <3>1 DEF Onward, Carries, Like
        <4> QED
          BY <4>1 DEF IsEvent, ByTimer, Moving
      <3>3. WaitingFit(q)
        BY <2>1, <2>2, <3>1, <3>2, OnwardWaits
      <3> QED
        BY <1>0, <3>1, <3>3, WaitingSplice DEF Onward
    <2>4. CASE undecided # 0 /\ \E q : Splices(q) /\ Lights(q) /\ ~ByTimer(q[1])
      <3>1. PICK q : Splices(q) /\ Lights(q) /\ ~ByTimer(q[1])
        BY <2>4
      <3>2. WaitingFit(q)
        BY <2>1, <2>2, <2>4, <3>1, StillOne, LightsFit
      <3> QED
        BY <1>0, <3>1, <3>2, WaitingSplice
    <2> QED
      BY <1>3, <2>3, <2>4, CaptureCalls
  <1> QED
    BY <1>1, <1>2, <1>3

\* A decision: the hold-tap may wait now, and is not alone then if the key that is
\* on its way leaves, or its own release has come.
LEMMA WaitingDecided ==
  ASSUME TypeInv, Shape, WaitingInv, todo' \in Seq(Call), DecideFinally
  PROVE  WaitingInv'
  <1>0. todo \in Seq(Call)
    BY DEF TypeInv
  <1>1. /\ todo # <<>> /\ undecided # 0 /\ undecided' = 0 /\ todo[1].slot = undecided /\ 1 \in Here
        /\ ~IsKeycode(todo[1]) /\ todo[1].op = "decide" /\ setup' = setup
    BY DecideFinallyCalls, Heads DEF DecideFinally, input
  <1>2. PICK st \in {"tap", "interrupt", "timer"} : /\ slots' = [slots EXCEPT ![undecided].status = st]
                                                    /\ st = "timer" => ByTimer(todo[1])
    BY DecideFinallyCalls
  <1>3. PICK q : /\ Splices(q) /\ Len(q) > 0 /\ q[Len(q)] = Replay(1)
                 /\ \A j \in 1 .. Len(q) : j < Len(q) => IsKeycode(q[j])
    BY DecideFinallyCalls
  <1>4. PICK m \in Nat : m = Len(q) /\ m > 0 /\ m \in 1 .. Len(q)
    BY <1>0, <1>3, Splicing
  <1>5. \A j \in 1 .. Len(q) : IsKeycode(q[j]) \/ IsReplay(q[j])
    <2>1. \A j \in 1 .. Len(q) : j = m \/ j < m
      BY <1>4
    <2>2. IsReplay(q[m])
      BY <1>3, <1>4 DEF IsReplay, Replay
    <2> QED
      BY <1>3, <1>4, <2>1, <2>2
  <1>6. \A j \in 1 .. Len(q) : q[j].op # "listen" /\ ~Past(q[j]) /\ ~ByTimer(q[j])
    BY <1>5 DEF IsKeycode, IsReplay, Past, ByTimer
  <1>7. 1 \in 1 .. Len(q)
    BY <1>4
  <1>8. \A s \in Slot : slots'[s].key = slots[s].key /\ (s # undecided => slots'[s] = slots[s])
    BY <1>2, TypeFacts DEF Row
  <1>9. CASE st # "timer"
    <2>1. slots'[undecided].status # "timer"
      <3>1. undecided \in Slot
        BY <1>1, Slots DEF TypeInv, InUse
      <3>2. slots'[undecided].status = st
        BY <1>2, <3>1, TypeFacts DEF Row
      <3> QED
        BY <1>9, <3>2
    <2>2. WaitingFewer
      <3>1. \A s \in Slot : slots'[s].key # None /\ slots'[s].status = "timer" =>
              slots'[s].key = slots[s].key /\ slots[s].status = "timer"
        BY <1>8, <2>1
      <3> QED
        BY <1>1, <3>1, FewerWait
    <2>3. AllOne
      BY <1>1, <2>2, StillOne
    <2>4. WaitingFit(q)
      BY <1>1, <1>6, <1>7, <2>2, <2>3 DEF WaitingFit, Leaves, IsEnding, Past
    <2> QED
      BY <1>0, <1>3, <2>4, WaitingSplice
  <1>10. CASE st = "timer"
    <2>1. /\ Len(todo) = 1
             \/ (Len(todo) > 1 /\ todo[2].op = "capture" /\ Alone(todo[2]))
             \/ (Len(todo) > 2 /\ todo[2] = Decide(undecided, "key-up") /\ todo[3] = Ending(undecided))
      BY <1>1, <1>2, <1>10 DEF WaitingInv, Quiet
    <2>2. ASSUME NEW s \in Waiting' PROVE s = undecided \/ s \in Waiting
      <3>1. s \in Slot /\ slots'[s].key # None /\ slots'[s].status = "timer" /\ setup.conf[slots'[s].key].retro
        BY <1>1, <2>2 DEF Waiting, InUse, Conf
      <3> QED
        BY <1>8, <3>1 DEF Waiting, InUse, Conf
    <2>3. ASSUME NEW j \in Here', todo'[j].op = "listen" \/ Past(todo'[j])
          PROVE  \E i \in Here : i = j - (m - 1) /\ j = i + (m - 1) /\ i > 1 /\ todo'[j] = todo[i]
      <3>1. j \in Nat /\ j >= 1
        BY DEF Here
      <3>2. j > m
        <4>1. SUFFICES ASSUME ~(j > m) PROVE FALSE
          OBVIOUS
        <4>2. j \in 1 .. Len(q)
          BY <1>4, <3>1, <4>1
        <4>3. todo'[j] = q[j]
          BY <1>0, <1>3, <4>2, Splicing
        <4> QED
          BY <1>6, <2>3, <4>2, <4>3
      <3>3. PICK i \in Here : i = j - (m - 1) /\ i > 1 /\ todo'[j] = todo[i]
        BY <1>0, <1>3, <1>4, <3>2, Splicing
      <3>4. j = i + (m - 1)
        <4>1. i \in Int /\ j \in Int /\ m \in Int /\ i = j - (m - 1)
          BY <3>1, <3>3 DEF Here
        <4> QED
          BY ONLY <4>1
      <3> QED
        BY <3>3, <3>4
    <2>4. ASSUME NEW j \in Here' PROVE todo'[j].op # "listen"
      <3>1. SUFFICES ASSUME todo'[j].op = "listen" PROVE FALSE
        OBVIOUS
      <3>2. PICK i \in Here : i > 1 /\ todo[i].op = "listen"
        BY <2>3, <3>1
      <3>3. 1 < i
        BY <3>2
      <3> QED
        BY <1>1, <3>2, <3>3 DEF Shape
    <2>5. ASSUME NEW i \in Here, i > 1, NEW r \in Waiting', NEW l \in Here, l > 1, l < i, Leaves(todo[l], r),
                 i + (m - 1) \in Here'
          PROVE  Leaving(r, i + (m - 1))'
      <3>1. r \in Slot /\ slots'[r].key = slots[r].key
        BY <1>8 DEF Waiting, InUse
      <3>2. l + (m - 1) \in Here' /\ todo'[l + (m - 1)] = todo[l]
        BY <1>0, <1>3, <1>4, <2>5, Splicing
      <3>3. l + (m - 1) < i + (m - 1)
        BY <2>5 DEF Here
      <3> QED
        BY <2>5, <3>1, <3>2, <3>3 DEF Leaving, Leaves
    <2>6. ASSUME NEW j \in Here', Past(todo'[j]), todo'[j].down, NEW s \in Waiting', NEW t \in Waiting',
                 ~Leaving(s, j)', ~Leaving(t, j)'
          PROVE  s = t
      <3>1. PICK i \in Here : j = i + (m - 1) /\ i > 1 /\ todo'[j] = todo[i]
        BY <2>3, <2>6
      <3>2. i \in Nat /\ Past(todo[i]) /\ todo[i].down /\ Len(todo) \in Nat
        BY <1>0, <2>6, <3>1 DEF Here
      <3>3. \A r \in {s, t}, l \in Here : l > 1 /\ l < i => ~Leaves(todo[l], r)
        BY <2>5, <2>6, <3>1
      <3>4. CASE Len(todo) = 1
        BY <3>1, <3>2, <3>4 DEF Here
      <3>5. CASE Len(todo) > 1 /\ todo[2].op = "capture" /\ Alone(todo[2])
        <4>1. 2 \in Here
          BY <3>2, <3>5 DEF Here
        <4>2. ASSUME NEW r \in {s, t} PROVE r = undecided
          <5>1. SUFFICES ASSUME r \in Waiting PROVE FALSE
            BY <2>2, <4>2
          <5>2. slots[r].key = todo[2].key /\ ~todo[2].down
            BY <3>5, <5>1 DEF Alone
          <5>3. Leaves(todo[2], r)
            BY <3>5, <5>2 DEF Leaves, Past
          <5>4. i # 2
            BY <3>2, <5>2
          <5>5. 2 < i
            BY <3>1, <3>2, <5>4
          <5> QED
            BY <3>3, <4>1, <5>3, <5>5
        <4> QED
          BY <4>2
      <3>6. CASE Len(todo) > 2 /\ todo[2] = Decide(undecided, "key-up") /\ todo[3] = Ending(undecided)
        <4>1. 2 \in Here /\ 3 \in Here
          BY <3>2, <3>6 DEF Here
        <4>2. ~Past(todo[2]) /\ ~Past(todo[3])
          BY <3>6 DEF Past, Decide, Ending
        <4>3. i > 3
          <5>1. i # 2 /\ i # 3
            BY <3>2, <4>2
          <5> QED
            BY <3>1, <3>2, <5>1
        <4>4. Leaves(todo[3], undecided)
          BY <3>6 DEF Leaves, IsEnding, Ending
        <4>5. \A r \in {s, t} : r # undecided
          BY <3>3, <4>1, <4>3, <4>4
        <4>6. s \in Waiting /\ t \in Waiting
          BY <2>2, <4>5
        <4> QED
          BY <1>1, <4>6 DEF WaitingInv
      <3> QED
        BY <2>1, <3>4, <3>5, <3>6
    <2>7. ~ByTimer(todo'[1])
      BY <1>0, <1>3, <1>6, <1>7, Splicing
    <2> QED
      BY <1>1, <2>4, <2>6, <2>7 DEF WaitingInv
  <1> QED
    BY <1>9, <1>10

LEMMA WaitingOthers ==
  ASSUME TypeInv, Shape, WaitingInv, todo' \in Seq(Call),
         DecideNothing \/ ReplayNext \/ StartTimer \/ KeycodeRaised
  PROVE  WaitingInv'
  <1>0. todo \in Seq(Call)
    BY DEF TypeInv
  <1>1. slots' = slots /\ setup' = setup /\ undecided' = undecided
    BY DEF DecideNothing, ReplayNext, StartTimer, KeycodeRaised, code, input
  <1>2. WaitingFewer
    BY <1>1, FewerWait
  <1>3. undecided' # 0 => AllOne
    BY <1>1, <1>2, StillOne
  <1>4. ASSUME NEW q, Splices(q), Lights(q), Len(q) = 0 \/ ~ByTimer(q[1]),
               \A s \in Waiting' : ~Leaves(todo[1], s)
        PROVE  WaitingInv'
    BY <1>0, <1>2, <1>3, <1>4, LightsFit, WaitingSplice
  <1>5. ASSUME todo[1].op \in {"decide", "schedule", "keycode", "replay"} PROVE \A s : ~Leaves(todo[1], s)
    BY <1>5 DEF Leaves, IsEnding, Past
  <1>6. CASE DecideNothing
    <2>1. todo[1].op = "decide"
      BY <1>6, DecideNothingCalls, Heads DEF DecideNothing
    <2>2. PICK q : Splices(q) /\ Lights(q) /\ (Len(q) = 0 \/ IsKeycode(q[1]))
      BY <1>6, DecideNothingCalls
    <2>3. IsKeycode(q[1]) => ~ByTimer(q[1])
      BY DEF IsKeycode, ByTimer
    <2> QED
      BY <1>4, <1>5, <2>1, <2>2, <2>3
  <1>7. CASE StartTimer
    BY <1>4, <1>5, <1>7, StartTimerCalls
  <1>8. CASE KeycodeRaised
    BY <1>4, <1>5, <1>8, KeycodeCalls DEF IsKeycode
  <1>9. CASE ReplayNext
    <2>1. todo[1].op = "replay"
      BY <1>9, ReplayCalls DEF IsReplay
    <2>2. CASE \E q : Splices(q) /\ Lights(q) /\ Len(q) = 0
      BY <1>4, <1>5, <2>1, <2>2
    <2>3. CASE /\ todo[1].from \in Places /\ captured[todo[1].from] # None
               /\ \E q : /\ Splices(q) /\ Len(q) = 2
                         /\ q[1] = captured[todo[1].from] /\ q[2] = Replay(todo[1].from + 1)
      <3>1. PICK q : /\ Splices(q) /\ Len(q) = 2
                     /\ q[1] = captured[todo[1].from] /\ q[2] = Replay(todo[1].from + 1)
        BY <2>3
      <3>2. captured[todo[1].from] \in PositionEvent({"position"}) \cup KeycodeEvent
        BY <2>3, TypeFacts DEF CapturedType
      <3>3. q[1].op \in {"position", "keycode"} /\ q[2].op = "replay"
        BY <3>1, <3>2 DEF Replay, PositionEvent, KeycodeEvent
      <3>4. \A j \in 1 .. Len(q) : j = 1 \/ j = 2
        BY <3>1
      <3>5. \A j \in 1 .. Len(q) : q[j].op # "listen" /\ ~Past(q[j]) /\ ~ByTimer(q[j])
        BY <3>3, <3>4 DEF Past, ByTimer
      <3>6. ~ByTimer(q[1])
        BY <3>3 DEF ByTimer
      <3>7. WaitingFit(q)
        BY <1>2, <1>3, <1>5, <2>1, <3>5, <3>6 DEF WaitingFit
      <3> QED
        BY <1>0, <3>1, <3>7, WaitingSplice
    <2> QED
      BY <1>9, <2>2, <2>3, ReplayCalls
  <1> QED
    BY <1>6, <1>7, <1>8, <1>9

LEMMA WaitingKeymap ==
  ASSUME TypeInv, Shape, EndingInv, KeyUpInv, SlotsInv, WaitingInv, Unlingering, todo' \in Seq(Call),
         PlainKey \/ BindingPressed \/ BindingReleased \/ Release
  PROVE  WaitingInv'
  <1>0. todo \in Seq(Call)
    BY DEF TypeInv
  <1>1. setup' = setup
    <2>1. CASE Release
      BY ONLY <2>1, Release, Zenon DEF Release, input
    <2>2. CASE PlainKey
      BY ONLY <2>2, PlainKey, Zenon DEF PlainKey, input
    <2>3. CASE BindingPressed
      BY ONLY <2>3, BindingPressed, Zenon DEF BindingPressed, input
    <2>4. CASE BindingReleased
      BY ONLY <2>4, BindingReleased, Zenon DEF BindingReleased, input
    <2> QED
      BY <2>1, <2>2, <2>3, <2>4
  <1>2. ASSUME slots' = slots, undecided' = undecided PROVE WaitingFewer /\ (undecided' # 0 => AllOne)
    BY <1>1, <1>2, FewerWait, StillOne
  <1>3. ASSUME WaitingFewer, undecided' # 0 => AllOne,
               NEW q, Splices(q), Lights(q), Len(q) = 0 \/ ~ByTimer(q[1]),
               undecided' = 0 => \A s \in Waiting' : ~Leaves(todo[1], s)
        PROVE  WaitingInv'
    BY <1>0, <1>3, LightsFit, WaitingSplice
  <1>4. ASSUME AtKeymap, NEW s, Leaves(todo[1], s) PROVE ~todo[1].down /\ todo[1].key = slots[s].key
    BY <1>4 DEF Leaves, IsEnding, AtKeymap, IsEvent, Moving
  <1>5. CASE PlainKey
    <2>1. slots' = slots /\ undecided' = undecided
      BY <1>5 DEF PlainKey, code
    <2>2. AtKeymap /\ todo[1].key \notin HoldTap
      BY <1>5, PlainKeyCalls
    <2>3. \A s \in Waiting' : ~Leaves(todo[1], s)
      <3>1. \A s \in Waiting' : s \in InUse
        BY <1>2, <2>1 DEF WaitingFewer, Waiting
      <3> QED
        BY <1>4, <2>2, <3>1, Slots DEF TypeInv
    <2>4. PICK q : Splices(q) /\ Lights(q) /\ Len(q) = 1 /\ IsKeycode(q[1])
      BY <1>5, PlainKeyCalls
    <2>5. ~ByTimer(q[1])
      BY <2>4 DEF IsKeycode, ByTimer
    <2> QED
      BY <1>2, <1>3, <2>1, <2>3, <2>4, <2>5
  <1>6. CASE BindingPressed
    <2>1. AtKeymap /\ todo[1].down
      BY <1>6, BindingPressedCalls
    <2>2. \A s : ~Leaves(todo[1], s)
      BY <1>4, <2>1
    <2>3. CASE /\ slots' = slots /\ undecided' = undecided
               /\ \E q : Splices(q) /\ Lights(q) /\ Len(q) = 0
      BY <1>2, <1>3, <2>2, <2>3
    <2>4. CASE /\ undecided = 0
               /\ \E i \in Slot \ InUse :
                    /\ slots' = [slots EXCEPT ![i] = [Free EXCEPT !.key = todo[1].key, !.time = todo[1].time]]
                    /\ undecided' = i
               /\ \E q : /\ Splices(q) /\ Lights(q)
                         /\ \A j \in 1 .. Len(q) : ~IsKeycode(q[j]) /\ ~ByTimer(q[j])
      <3>1. PICK i \in Slot \ InUse :
                    /\ slots' = [slots EXCEPT ![i] = [Free EXCEPT !.key = todo[1].key, !.time = todo[1].time]]
                    /\ undecided' = i
        BY <2>4
      <3>2. slots'[i].status = "undecided" /\ \A s \in Slot : s # i => slots'[s] = slots[s]
        <4>1. slots'[i] = [Free EXCEPT !.key = todo[1].key, !.time = todo[1].time]
          BY <3>1, TypeFacts
        <4>2. slots'[i].status = "undecided"
          BY <4>1 DEF Free
        <4> QED
          BY <3>1, <4>2, TypeFacts
      <3>3. WaitingFewer
        <4>1. \A s \in Slot : slots'[s].key # None /\ slots'[s].status = "timer" =>
                slots'[s].key = slots[s].key /\ slots[s].status = "timer"
          BY <3>2
        <4> QED
          BY <1>1, <4>1, FewerWait
      <3>4. AllOne
        <4>1. 1 \in Here /\ Past(todo[1]) /\ todo[1].down
          BY <2>1, Heads DEF AtKeymap, Past
        <4>2. \A s : ~Leaving(s, 1)
          BY DEF Leaving, Here
        <4>3. \A s, t \in Waiting : s = t
          BY <4>1, <4>2 DEF WaitingInv
        <4> QED
          BY <3>3, <4>3 DEF AllOne, WaitingFewer
      <3>5. PICK q : Splices(q) /\ Lights(q) /\ \A j \in 1 .. Len(q) : ~ByTimer(q[j])
        BY <2>4
      <3>6. Len(q) = 0 \/ ~ByTimer(q[1])
        <4>1. Len(q) \in Nat
          BY <1>0, <3>5, Splicing
        <4> QED
          BY <3>5, <4>1
      <3> QED
        BY <1>3, <2>2, <3>3, <3>4, <3>5, <3>6
    <2> QED
      BY <1>6, <2>3, <2>4, BindingPressedCalls
  <1>7. CASE BindingReleased
    <2>1. AtKeymap
      BY <1>7, BindingReleasedCalls
    <2>2. slots' = slots /\ undecided' = undecided
      BY <1>7 DEF BindingReleased
    <2>3. ASSUME NEW s \in Waiting', Leaves(todo[1], s) PROVE s \in Found(todo[1].key) /\ s \in InUse
      <3>1. s \in InUse
        BY <1>2, <2>2 DEF WaitingFewer, Waiting
      <3> QED
        BY <1>4, <2>1, <2>3, <3>1 DEF Found
    <2>4. CASE Found(todo[1].key) = {} /\ \E q : Splices(q) /\ Lights(q) /\ Len(q) = 0
      BY <1>2, <1>3, <2>2, <2>3, <2>4
    <2>5. CASE \E i \in Found(todo[1].key) : \E q :
                 /\ Splices(q) /\ Len(q) \in {2, 3} /\ q[Len(q)] = Ending(i)
                 /\ q[Len(q) - 1] = Decide(i, "key-up")
                 /\ Len(q) = 3 => q[1] = Decide(i, "timer")
                 /\ \A j \in 1 .. Len(q) : j < Len(q) => Light(q[j])
      <3>1. PICK i \in Found(todo[1].key) : \E q :
                 /\ Splices(q) /\ Len(q) \in {2, 3} /\ q[Len(q)] = Ending(i)
                 /\ q[Len(q) - 1] = Decide(i, "key-up")
                 /\ Len(q) = 3 => q[1] = Decide(i, "timer")
                 /\ \A j \in 1 .. Len(q) : j < Len(q) => Light(q[j])
        BY <2>5
      <3>2. PICK q : /\ Splices(q) /\ Len(q) \in {2, 3} /\ q[Len(q)] = Ending(i)
                     /\ q[Len(q) - 1] = Decide(i, "key-up")
                     /\ Len(q) = 3 => q[1] = Decide(i, "timer")
                     /\ \A j \in 1 .. Len(q) : j < Len(q) => Light(q[j])
        BY <3>1
      <3>3. PICK m \in {2, 3} : m = Len(q)
        BY <3>2
      <3>4. \A j \in 1 .. m : j = m \/ j < m
        BY <3>3
      <3>5. \A j \in 1 .. m : q[j].op # "listen" /\ ~Past(q[j])
        BY <3>2, <3>3, <3>4 DEF Light, Past, Ending
      <3>6. \A s \in Waiting' : Leaves(todo[1], s) => Leaves(q[m], s)
        <4>1. ASSUME NEW s \in Waiting', Leaves(todo[1], s) PROVE s = i
          <5>1. s \in InUse /\ i \in InUse /\ slots[s].key = todo[1].key /\ slots[i].key = todo[1].key
            BY <2>3, <4>1 DEF Found
          <5> QED
            BY <5>1 DEF SlotsInv
        <4>2. Leaves(q[m], i)
          BY <3>2, <3>3 DEF Leaves, IsEnding, Ending
        <4> QED
          BY <4>1, <4>2
      <3>7. m \in 1 .. m
        BY <3>3
      <3>8. ByTimer(q[1]) => m > 2 /\ q[2] = Decide(q[1].slot, "key-up") /\ q[3] = Ending(q[1].slot)
        <4>1. CASE m = 2
          <5>1. q[1] = Decide(i, "key-up")
            BY <3>2, <3>3, <4>1
          <5> QED
            BY <5>1 DEF ByTimer, Decide
        <4>2. CASE m = 3
          <5>1. q[1] = Decide(i, "timer") /\ q[2] = Decide(i, "key-up") /\ q[3] = Ending(i)
            BY <3>2, <3>3, <4>2
          <5>2. q[1].slot = i
            BY <5>1 DEF Decide
          <5> QED
            BY <4>2, <5>1, <5>2
        <4> QED
          BY <3>3, <4>1, <4>2
      <3>9. WaitingFit(q)
        BY <1>2, <2>2, <3>3, <3>5, <3>6, <3>7, <3>8 DEF WaitingFit
      <3> QED
        BY <1>0, <3>2, <3>9, WaitingSplice
    <2> QED
      BY <1>7, <2>4, <2>5, BindingReleasedCalls
  <1>8. CASE Release
    <2>1. PICK f : f = todo[1].slot
      OBVIOUS
    <2>2. IsEnding(todo[1]) /\ f \in InUse /\ f \in Slot /\ f # undecided
      BY <1>8, <2>1, ReleaseHead DEF InUse
    <2>3. slots' = [slots EXCEPT ![f] = Free] /\ \E q : Splices(q) /\ \A j \in 1 .. Len(q) : IsKeycode(q[j])
      BY <1>8, <2>1, <2>2, ReleaseCalls
    <2>4. undecided' = undecided
      BY ONLY <1>8, Release, Zenon DEF Release
    <2>5. slots'[f].key = None /\ \A s \in Slot : s # f => slots'[s] = slots[s]
      BY <2>2, <2>3, TypeFacts DEF Free
    <2>6. WaitingFewer
      <3>1. \A s \in Slot : slots'[s].key # None /\ slots'[s].status = "timer" =>
              slots'[s].key = slots[s].key /\ slots[s].status = "timer"
        BY <2>5
      <3> QED
        BY <1>1, <3>1, FewerWait
    <2>7. undecided' # 0 => AllOne
      BY <2>4, <2>6, StillOne
    <2>8. \A s \in Waiting' : ~Leaves(todo[1], s)
      <3>1. \A s \in Waiting' : s # f
        BY <2>5 DEF Waiting, InUse
      <3>2. \A s : Leaves(todo[1], s) => s = f
        BY <2>1, <2>2 DEF Leaves, IsEnding, Past
      <3> QED
        BY <3>1, <3>2
    <2>9. PICK q : Splices(q) /\ \A j \in 1 .. Len(q) : IsKeycode(q[j])
      BY <2>3
    <2>10. Lights(q)
      BY <2>9 DEF Lights, IsKeycode, Light
    <2>11. Len(q) = 0 \/ ~ByTimer(q[1])
      <3>1. Len(q) \in Nat
        BY <1>0, <2>9, Splicing
      <3>2. 1 \in 1 .. Len(q) => ~ByTimer(q[1])
        BY <2>9 DEF IsKeycode, ByTimer
      <3> QED
        BY <3>1, <3>2
    <2> QED
      BY <1>3, <2>6, <2>7, <2>8, <2>9, <2>10, <2>11
  <1> QED
    BY <1>5, <1>6, <1>7, <1>8
-----------------------------------------------------------------------------
(* Room below the replays *)

RoomNext(m, c) == c < m /\ \A k \in m - c .. m - 1 : captured'[k] = None

\* Nothing from place l on is filled.
FilledBelow(l) == \A k \in Places : captured[k] = None /\ captured'[k] # None => k < l

LEMMA RoomStays ==
  ASSUME NEW m \in Nat, m <= MaxCaptured + 1, NEW c \in Nat, NEW l \in Nat,
         Room(m, c), l <= m - c, FilledBelow(l)
  PROVE  RoomNext(m, c)
  <1>1. MaxCaptured \in Nat
    BY HoldTapAssumption
  <1>2. c < m /\ \A k \in m - c .. m - 1 : captured[k] = None
    BY DEF Room
  <1>3. ASSUME NEW k \in m - c .. m - 1 PROVE captured'[k] = None
    <2>1. k \in Places /\ ~(k < l)
      BY <1>1, <1>2 DEF Places
    <2> QED
      BY <1>2, <2>1 DEF FilledBelow
  <1> QED
    BY <1>2, <1>3 DEF RoomNext

\* Where a call that matters was before.
LEMMA MovedFrom ==
  ASSUME todo \in Seq(Call), NEW d, NEW lo \in {0, 1}, NEW new, Moves(d, lo, new),
         NEW j \in Here', Heavy(todo'[j]), j \notin new
  PROVE  \E i \in Here : j = i + d /\ i > lo /\ i \in Nat /\ Like(todo'[j], todo[i])
  <1>1. d \in Int /\ j - d \in Here /\ j - d > lo /\ Like(todo'[j], todo[j - d])
    BY DEF Moves
  <1>2. PICK i : i = j - d
    OBVIOUS
  <1>3. i \in Here /\ i > lo /\ Like(todo'[j], todo[i]) /\ i \in Nat
    BY <1>1, <1>2 DEF Here
  <1>4. j \in Int
    BY DEF Here
  <1>5. j = i + d
    BY ONLY <1>1, <1>2, <1>4
  <1> QED
    BY <1>3, <1>5

LEMMA LikeKinds ==
  ASSUME NEW x, NEW c, Like(x, c)
  PROVE  /\ Weighs(x) <=> Weighs(c)
         /\ Heavy(x) <=> Heavy(c)
         /\ IsReplay(x) <=> IsReplay(c)
         /\ IsReplay(x) => x.from = c.from
         /\ IsEvent(x) <=> IsEvent(c)
         /\ IsEvent(x) => x.down = c.down /\ x.key = c.key
         /\ IsReplay(x) \/ Weighs(x) \/ IsEvent(x) => Heavy(x)
  BY DEF Like, Weighs, Heavy

\* What two replays must keep, and a call that may be captured between them.
PairNext(i, j) == todo'[i].from < todo'[j].from /\ RoomNext(todo'[j].from, 1)
TripleNext(h, i, j) ==
  /\ todo'[h].from + 2 <= todo'[j].from
  /\ NoReplay(i, j)' => RoomNext(todo'[j].from, 2)

LEMMA PairsNext ==
  ASSUME \A i, j \in Here' : i < j /\ IsReplay(todo'[i]) /\ IsReplay(todo'[j]) => PairNext(i, j),
         \A h, i, j \in Here' : /\ h < i /\ i < j
                               /\ IsReplay(todo'[h]) /\ Weighs(todo'[i]) /\ IsReplay(todo'[j])
           => TripleNext(h, i, j)
  PROVE  RoomPairs'
  BY DEF RoomPairs, Room, RoomNext, PairNext, TripleNext

\* Those that were there keep it, if what is filled is below all.
LEMMA PairsOld ==
  ASSUME TypeInv, RoomPairs, NEW d, NEW lo \in {0, 1}, NEW new, Moves(d, lo, new),
         \A j \in Here : IsReplay(todo[j]) => FilledBelow(todo[j].from)
  PROVE  /\ \A i, j \in Here' : /\ i < j /\ i \notin new /\ j \notin new
                               /\ IsReplay(todo'[i]) /\ IsReplay(todo'[j])
              => PairNext(i, j)
         /\ \A h, i, j \in Here' : /\ h < i /\ i < j /\ h \notin new /\ i \notin new /\ j \notin new
                                  /\ IsReplay(todo'[h]) /\ Weighs(todo'[i]) /\ IsReplay(todo'[j])
              => TripleNext(h, i, j)
  <1>1. todo \in Seq(Call) /\ Moves(d, lo, new) /\ d \in Int
    BY DEF TypeInv, Moves
  <1>2. ASSUME NEW j \in Here', IsReplay(todo'[j]), j \notin new
        PROVE  \E i \in Here : /\ j = i + d /\ i > lo /\ i \in Nat /\ IsReplay(todo[i])
                               /\ todo'[j].from = todo[i].from
                               /\ todo[i].from \in Nat /\ todo[i].from <= MaxCaptured + 1
    <2>1. Heavy(todo'[j]) /\ j \notin new
      BY <1>2 DEF Heavy
    <2>2. PICK i \in Here : j = i + d /\ i > lo /\ i \in Nat /\ Like(todo'[j], todo[i])
      <3>1. j - d \in Here /\ j - d > lo /\ Like(todo'[j], todo[j - d])
        BY <2>1 DEF Moves
      <3>2. PICK i : i = j - d
        OBVIOUS
      <3>3. i \in Here /\ i > lo /\ Like(todo'[j], todo[i]) /\ i \in Nat
        BY <3>1, <3>2 DEF Here
      <3>4. j \in Int
        BY DEF Here
      <3>5. j = i + d
        BY ONLY <1>1, <3>2, <3>4
      <3> QED
        BY <3>3, <3>5
    <2>3. IsReplay(todo[i]) /\ todo'[j].from = todo[i].from
      BY <1>2, <2>2, LikeKinds
    <2> QED
      BY <2>2, <2>3, ReplayType
  <1>3. ASSUME NEW i \in Here', NEW j \in Here', i < j, i \notin new, j \notin new,
               IsReplay(todo'[i]), IsReplay(todo'[j])
        PROVE  PairNext(i, j)
    <2>1. PICK a \in Here : /\ i = a + d /\ a > lo /\ a \in Nat /\ IsReplay(todo[a])
                            /\ todo'[i].from = todo[a].from
                            /\ todo[a].from \in Nat /\ todo[a].from <= MaxCaptured + 1
      BY <1>2, <1>3
    <2>2. PICK b \in Here : /\ j = b + d /\ b > lo /\ b \in Nat /\ IsReplay(todo[b])
                            /\ todo'[j].from = todo[b].from
                            /\ todo[b].from \in Nat /\ todo[b].from <= MaxCaptured + 1
      BY <1>2, <1>3
    <2>3. a < b
      BY <1>1, <1>3, <2>1, <2>2
    <2>4. todo[a].from < todo[b].from /\ Room(todo[b].from, 1)
      BY <2>1, <2>2, <2>3 DEF RoomPairs
    <2>5. FilledBelow(todo[a].from)
      BY <2>1
    <2>6. PICK l \in Nat, m \in Nat, c \in Nat : l = todo[a].from /\ m = todo[b].from /\ c = 1
      BY <2>1, <2>2
    <2>7. l <= m - c
      BY ONLY l \in Nat, m \in Nat, <2>4, <2>6
    <2>8. RoomNext(m, c)
      BY <2>2, <2>4, <2>5, <2>6, <2>7, RoomStays
    <2> QED
      BY <2>1, <2>2, <2>4, <2>6, <2>8 DEF PairNext
  <1>4. ASSUME NEW h \in Here', NEW i \in Here', NEW j \in Here', h < i, i < j,
               h \notin new, i \notin new, j \notin new, IsReplay(todo'[h]), Weighs(todo'[i]), IsReplay(todo'[j])
        PROVE  TripleNext(h, i, j)
    <2>1. PICK a \in Here : /\ h = a + d /\ a > lo /\ a \in Nat /\ IsReplay(todo[a])
                            /\ todo'[h].from = todo[a].from
                            /\ todo[a].from \in Nat /\ todo[a].from <= MaxCaptured + 1
      BY <1>2, <1>4
    <2>2. PICK b \in Here : /\ j = b + d /\ b > lo /\ b \in Nat /\ IsReplay(todo[b])
                            /\ todo'[j].from = todo[b].from
                            /\ todo[b].from \in Nat /\ todo[b].from <= MaxCaptured + 1
      BY <1>2, <1>4
    <2>4. Heavy(todo'[i])
      BY <1>4 DEF Weighs, Heavy
    <2>5. PICK w \in Here : i = w + d /\ w > lo /\ w \in Nat /\ Like(todo'[i], todo[w])
      BY <1>1, <1>4, <2>4, MovedFrom
    <2>6. Weighs(todo[w])
      BY <1>4, <2>5, LikeKinds
    <2>7. a < w /\ w < b
      BY <1>1, <1>4, <2>1, <2>2, <2>5
    <2>8. /\ todo[a].from + 2 <= todo[b].from
          /\ NoReplay(w, b) => Room(todo[b].from, 2)
      BY <2>1, <2>2, <2>6, <2>7 DEF RoomPairs
    <2>9. ASSUME NoReplay(i, j)' PROVE RoomNext(todo'[j].from, 2)
      <3>1. ASSUME NEW k \in Here, w < k, k < b, IsReplay(todo[k]) PROVE FALSE
        <4>1. k > lo /\ Heavy(todo[k]) /\ k \in Nat
          BY <2>5, <3>1 DEF Heavy, Here
        <4>2. k + d \in Here' /\ IsReplay(todo'[k + d])
          BY <1>1, <3>1, <4>1, LikeKinds DEF Moves
        <4>3. i < k + d /\ k + d < j
          <5>1. d \in Int /\ k \in Nat /\ w \in Nat /\ b \in Nat /\ i = w + d /\ j = b + d
            BY <1>1, <2>2, <2>5, <4>1
          <5> QED
            BY ONLY <3>1, <5>1
        <4> QED
          BY <2>9, <4>2, <4>3 DEF NoReplay
      <3>2. Room(todo[b].from, 2)
        BY <2>8, <3>1 DEF NoReplay
      <3>3. FilledBelow(todo[a].from)
        BY <2>1
      <3>4. PICK l \in Nat, m \in Nat, c \in Nat : l = todo[a].from /\ m = todo[b].from /\ c = 2
        BY <2>1, <2>2
      <3>5. l <= m - c
        BY ONLY l \in Nat, m \in Nat, <2>8, <3>4
      <3>6. RoomNext(m, c)
        BY <2>2, <3>2, <3>3, <3>4, <3>5, RoomStays
      <3> QED
        BY <2>2, <3>4, <3>6
    <2> QED
      BY <2>1, <2>2, <2>8, <2>9 DEF TripleNext
  <1> QED
    BY <1>3, <1>4

\* No replay comes, and no end or event after one.
PairsFit(d, lo, new) ==
  /\ Moves(d, lo, new)
  /\ \A i \in new : lo = 1 /\ i = d + 1 /\ ~IsReplay(todo'[i])
  /\ \A j \in Here : IsReplay(todo[j]) => FilledBelow(todo[j].from)

LEMMA PairsMove ==
  ASSUME TypeInv, RoomPairs, NEW d, NEW lo \in {0, 1}, NEW new, PairsFit(d, lo, new)
  PROVE  RoomPairs'
  <1>1. /\ todo \in Seq(Call) /\ Moves(d, lo, new) /\ d \in Int
        /\ \A j \in Here : IsReplay(todo[j]) => FilledBelow(todo[j].from)
    BY DEF TypeInv, PairsFit, Moves
  <1>2. \A j \in Here' : IsReplay(todo'[j]) => j \notin new
    BY DEF PairsFit
  <1>3. ASSUME NEW h \in Here', NEW i \in Here', h < i, IsReplay(todo'[h]) PROVE i \notin new
    <2>1. Heavy(todo'[h]) /\ h \notin new
      BY <1>2, <1>3 DEF Heavy
    <2>2. PICK a \in Here : h = a + d /\ a > lo /\ a \in Nat
      BY <1>1, <2>1, MovedFrom
    <2>3. SUFFICES ASSUME i \in new PROVE FALSE
      OBVIOUS
    <2>4. lo = 1 /\ i = d + 1
      BY <2>3 DEF PairsFit
    <2> QED
      BY <1>1, <1>3, <2>2, <2>4
  <1> QED
    BY <1>1, <1>2, <1>3, PairsOld, PairsNext

LEMMA PairsSteps ==
  ASSUME TypeInv, RoomInv, todo' \in Seq(Call)
  PROVE  /\ \A d : Rolls(d) => RoomPairs'
         /\ Stops => RoomPairs'
         /\ \A d : Frees(d) => RoomPairs'
         /\ \A e, g : HoldCaught(e, g) => RoomPairs'
         /\ \A e, g : Taken(e, g) => RoomPairs'
         /\ \A d : Nothing(d) => RoomPairs'
         /\ \A s, d : NewSlot(s, d) => RoomPairs'
         /\ \A s, d : Ends(s, d) => RoomPairs'
  <1>0. RoomPairs
    BY DEF RoomInv
  <1>1. ASSUME captured' = captured PROVE \A l : FilledBelow(l)
    BY <1>1 DEF FilledBelow
  <1>2. ASSUME captured' = captured, NEW d, NEW lo \in {0, 1}, Moves(d, lo, {}) PROVE RoomPairs'
    <2>1. PairsFit(d, lo, {})
      BY <1>1, <1>2 DEF PairsFit
    <2> QED
      BY <1>0, <2>1, PairsMove
  <1>3. ASSUME NEW e, NEW g, Caught(e, g), NEW lo \in {0, 1}, NEW d, Moves(d, lo, {}) PROVE RoomPairs'
    <2>1. \A k \in Places : captured'[k] # captured[k] => k = g
      <3>1. captured \in [Places -> {None} \cup PositionEvent({"position"}) \cup KeycodeEvent]
        BY TypeFacts DEF CapturedType
      <3> QED
        BY <1>3, <3>1 DEF Caught
    <2>2. \A j \in Here : IsReplay(todo[j]) => FilledBelow(todo[j].from)
      BY <1>3, <2>1, CaughtBelow DEF FilledBelow
    <2>3. PairsFit(d, lo, {})
      BY <1>3, <2>2 DEF PairsFit
    <2> QED
      BY <1>0, <2>3, PairsMove
  <1>4. ASSUME NEW s, NEW d, Ends(s, d) PROVE RoomPairs'
    <2>1. PICK new : new = {d + 1}
      OBVIOUS
    <2>2. ~IsReplay(todo'[d + 1])
      BY <1>4 DEF Ends, Ending, IsReplay
    <2>3. PICK lo \in {0, 1} : lo = 1
      OBVIOUS
    <2>4. Moves(d, lo, new) /\ captured' = captured
      BY <1>4, <2>1, <2>3 DEF Ends, Delivery
    <2>5. PairsFit(d, lo, new)
      BY <1>1, <2>1, <2>2, <2>3, <2>4 DEF PairsFit
    <2> QED
      BY <1>0, <2>5, PairsMove
  <1>5. PICK o \in {0, 1} : o = 1
    OBVIOUS
  <1>6. PICK z \in {0, 1} : z = 0
    OBVIOUS
  <1> QED
    BY <1>2, <1>3, <1>4, <1>5, <1>6 DEF Rolls, Keeps, Stops, Drops, Frees, HoldCaught, Taken, Nothing, NewSlot, Delivery

LEMMA RoomLess ==
  ASSUME NEW m \in Nat, NEW c \in Nat, NEW b \in Nat, b <= c, Room(m, c)
  PROVE  Room(m, b) /\ b < m /\ c < m
  BY DEF Room

\* The next replay after a call.
LEMMA NextReplay ==
  ASSUME TypeInv, NEW w \in Here, NEW b \in Here, w < b, IsReplay(todo[b])
  PROVE  \E g \in Here : w < g /\ g <= b /\ IsReplay(todo[g]) /\ NoReplay(w, g)
  <1> DEFINE T == {i \in Here : w < i /\ IsReplay(todo[i])}
  <1>1. T \in SUBSET Nat /\ T # {} /\ b \in T
    BY DEF Here
  <1> HIDE DEF T
  <1>2. PICK g \in T : \A k \in T : g <= k
    BY <1>1, LeastOne
  <1>3. g \in Here /\ w < g /\ IsReplay(todo[g]) /\ g <= b /\ g \in Nat
    BY <1>1, <1>2 DEF T
  <1>4. ASSUME NEW k \in Here, w < k, k < g, IsReplay(todo[k]) PROVE FALSE
    <2>1. g <= k /\ k \in Nat
      BY <1>1, <1>2, <1>4 DEF T
    <2> QED
      BY <1>3, <1>4, <2>1
  <1> QED
    BY <1>3, <1>4 DEF NoReplay

\* A decision: its replay, from the start, is the first.
LEMMA PairsDecided ==
  ASSUME TypeInv, RoomInv, NEW p, Decided(p)
  PROVE  RoomPairs'
  <1>0. todo \in Seq(Call) /\ RoomPairs /\ RoomFirst
    BY DEF TypeInv, RoomInv
  <1>1. p \in Nat /\ p >= 1 /\ p \in Here' /\ todo'[p] = Replay(1) /\ undecided # 0 /\ captured' = captured
    BY DEF Decided, Here
  <1>2. PICK d : d = p - 1
    OBVIOUS
  <1>3. PICK new : new = {p}
    OBVIOUS
  <1>4. PICK lo \in {0, 1} : lo = 0
    OBVIOUS
  <1>5. Moves(d, lo, new) /\ d \in Int
    BY <1>2, <1>3, <1>4 DEF Decided, Moves
  <1>6. IsReplay(todo'[p]) /\ todo'[p].from = 1 /\ ~Weighs(todo'[p])
    BY <1>1 DEF Replay, IsReplay, Weighs, IsEvent, IsEnding, Moving
  <1>7. \A l : FilledBelow(l)
    BY <1>1 DEF FilledBelow
  <1>8. ASSUME NEW j \in Here', Heavy(todo'[j]), j # p
        PROVE  j > p /\ \E i \in Here : j = i + d /\ i \in Nat /\ Like(todo'[j], todo[i])
    <2>1. j \notin new
      BY <1>3, <1>8
    <2>2. PICK i \in Here : j = i + d /\ i > lo /\ i \in Nat /\ Like(todo'[j], todo[i])
      BY ONLY <1>0, <1>5, <1>8, <2>1, MovedFrom, lo \in {0, 1}
    <2>3. j > p
      BY <1>1, <1>2, <1>4, <1>8, <2>2
    <2> QED
      BY <2>2, <2>3
  <1>9. ASSUME NEW j \in Here', IsReplay(todo'[j]), j # p
        PROVE  \E b \in Here : /\ j = b + d /\ b \in Nat /\ IsReplay(todo[b]) /\ todo'[j].from = todo[b].from
                               /\ todo[b].from \in Nat /\ todo[b].from <= MaxCaptured + 1
    <2>1. PICK b \in Here : j = b + d /\ b \in Nat /\ Like(todo'[j], todo[b])
      BY <1>8, <1>9 DEF Heavy
    <2>2. IsReplay(todo[b]) /\ todo'[j].from = todo[b].from
      BY <1>9, <2>1, LikeKinds
    <2> QED
      BY <2>1, <2>2, ReplayType
  \* The first one that was there, and the room below it.
  <1>10. ASSUME NEW b \in Here, IsReplay(todo[b])
         PROVE  \E f \in Here, c \in Nat :
                  /\ First(f) /\ f \in Nat /\ b \in Nat /\ (b = f \/ (f < b /\ todo[f].from < todo[b].from))
                  /\ c >= 1 + Weight(f) /\ c < todo[f].from /\ todo[f].from \in Nat
                  /\ Room(todo[f].from, c)
    <2>1. PICK f \in Here : First(f)
      BY <1>10, FirstOne
    <2>2. PICK c : c = 1 + Load(f)
      OBVIOUS
    <2>3. c \in Nat /\ c >= 1 + Weight(f)
      BY <2>2, Loads
    <2>4. Room(todo[f].from, c)
      BY <1>0, <1>1, <2>1, <2>2 DEF RoomFirst
    <2>5. c < todo[f].from
      BY <2>4 DEF Room
    <2>6. f \in Nat /\ b \in Nat /\ todo[f].from \in Nat
      BY <1>10, <2>1, ReplayType DEF First
    <2> QED
      BY <1>10, <2>1, <2>3, <2>4, <2>5, <2>6, FirstLeast
  <1>11. ASSUME NEW j \in Here', IsReplay(todo'[j]), p < j PROVE PairNext(p, j)
    <2>0. j # p
      BY <1>1, <1>11
    <2>1. PICK b \in Here : /\ j = b + d /\ b \in Nat /\ IsReplay(todo[b]) /\ todo'[j].from = todo[b].from
                            /\ todo[b].from \in Nat /\ todo[b].from <= MaxCaptured + 1
      BY <1>9, <1>11, <2>0
    <2>2. PICK f \in Here, c \in Nat :
                  /\ First(f) /\ f \in Nat /\ b \in Nat /\ (b = f \/ (f < b /\ todo[f].from < todo[b].from))
                  /\ c >= 1 + Weight(f) /\ c < todo[f].from /\ todo[f].from \in Nat
                  /\ Room(todo[f].from, c)
      BY <1>10, <2>1
    <2>3. c >= 1
      BY <2>2, Weights
    <2>4. Room(todo[b].from, 1)
      <3>1. CASE b = f
        BY <2>1, <2>2, <2>3, <3>1, RoomLess
      <3>2. CASE f < b
        BY <1>0, <2>1, <2>2, <3>2 DEF RoomPairs, First
      <3> QED
        BY <2>2, <3>1, <3>2
    <2>5. 1 < todo[b].from
      BY <2>4 DEF Room
    <2>6. RoomNext(todo[b].from, 1)
      BY <1>1, <2>4 DEF Room, RoomNext
    <2> QED
      BY <1>6, <2>1, <2>5, <2>6 DEF PairNext
  <1>12. ASSUME NEW i \in Here', NEW j \in Here', p < i, i < j, Weighs(todo'[i]), IsReplay(todo'[j])
         PROVE  TripleNext(p, i, j)
    <2>0. j # p /\ i # p /\ i \in Nat /\ j \in Nat
      BY <1>1, <1>12 DEF Here
    <2>1. PICK b \in Here : /\ j = b + d /\ b \in Nat /\ IsReplay(todo[b]) /\ todo'[j].from = todo[b].from
                            /\ todo[b].from \in Nat /\ todo[b].from <= MaxCaptured + 1
      BY <1>9, <1>12, <2>0
    <2>2. PICK w \in Here : i = w + d /\ w \in Nat /\ Like(todo'[i], todo[w])
      BY <1>8, <1>12, <2>0 DEF Heavy, Weighs
    <2>3. Weighs(todo[w]) /\ w < b
      <3>1. Weighs(todo[w])
        BY <1>12, <2>2, LikeKinds
      <3> QED
        BY ONLY <1>5, <1>12, <2>1, <2>2, <3>1
    <2>4. PICK f \in Here, c \in Nat :
                  /\ First(f) /\ f \in Nat /\ b \in Nat /\ (b = f \/ (f < b /\ todo[f].from < todo[b].from))
                  /\ c >= 1 + Weight(f) /\ c < todo[f].from /\ todo[f].from \in Nat
                  /\ Room(todo[f].from, c)
      BY <1>10, <2>1
    <2>5. Weight(f) \in {0, 1}
      BY Weights
    <2>6. CASE b = f
      <3>1. Weight(f) = 1
        BY <2>3, <2>6 DEF Weight
      <3>2. Room(todo[b].from, 2) /\ 2 < todo[b].from
        BY <2>1, <2>4, <2>6, <3>1, RoomLess
      <3>3. RoomNext(todo[b].from, 2)
        BY <1>1, <3>2 DEF Room, RoomNext
      <3> QED
        BY <1>6, <2>1, <3>2, <3>3 DEF TripleNext
    <2>7. CASE f < b
      <3>1. 3 <= todo[b].from
        BY <2>1, <2>4, <2>5, <2>7
      <3>2. ASSUME NoReplay(i, j)' PROVE RoomNext(todo[b].from, 2)
        <4>1. ASSUME NEW k \in Here, w < k, k < b, IsReplay(todo[k]) PROVE FALSE
          <5>1. k > lo /\ Heavy(todo[k]) /\ k \in Nat
            BY <1>4, <2>2, <4>1 DEF Heavy, Here
          <5>2. k + d \in Here' /\ Like(todo'[k + d], todo[k])
            BY <1>5, <4>1, <5>1 DEF Moves
          <5>3. IsReplay(todo'[k + d])
            BY <4>1, <5>2, LikeKinds
          <5>4. i < k + d /\ k + d < j
            BY ONLY <1>5, <2>1, <2>2, <4>1, <5>1
          <5> QED
            BY <3>2, <5>2, <5>3, <5>4 DEF NoReplay
        <4>2. NoReplay(w, b)
          BY <4>1 DEF NoReplay
        <4>3. IsReplay(todo[f])
          BY <2>4 DEF First
        <4>4. w # f /\ ~(w < f)
          BY <2>3, <2>7, <4>1, <4>3, ReplayType
        <4>5. f < w
          BY <2>2, <2>4, <4>4
        <4>6. Room(todo[b].from, 2)
          BY <1>0, <2>1, <2>3, <4>2, <4>3, <4>5 DEF RoomPairs
        <4> QED
          BY <1>1, <4>6 DEF Room, RoomNext
      <3> QED
        BY <1>6, <2>1, <3>1, <3>2 DEF TripleNext
    <2> QED
      BY <2>4, <2>6, <2>7
  <1>13. ASSUME NEW j \in Here', NEW i \in Here', i < j, IsReplay(todo'[i]), Heavy(todo'[j])
         PROVE  j # p /\ j \notin new
    <2>1. i = p \/ i > p
      BY <1>8, <1>13 DEF Heavy
    <2>2. i \in Nat /\ j \in Nat
      BY DEF Here
    <2> QED
      BY ONLY <1>1, <1>3, <1>13, <2>1, <2>2
  <1>14. /\ \A i, j \in Here' : /\ i < j /\ i \notin new /\ j \notin new
                                /\ IsReplay(todo'[i]) /\ IsReplay(todo'[j])
              => PairNext(i, j)
         /\ \A h, i, j \in Here' : /\ h < i /\ i < j /\ h \notin new /\ i \notin new /\ j \notin new
                                   /\ IsReplay(todo'[h]) /\ Weighs(todo'[i]) /\ IsReplay(todo'[j])
              => TripleNext(h, i, j)
    BY <1>0, <1>5, <1>7, PairsOld
  <1>15. ASSUME NEW i \in Here', NEW j \in Here', i < j, IsReplay(todo'[i]), IsReplay(todo'[j])
         PROVE  PairNext(i, j)
    <2>1. j \notin new /\ (i \in new <=> i = p)
      BY <1>3, <1>13, <1>15 DEF Heavy
    <2> QED
      BY <1>11, <1>14, <1>15, <2>1
  <1>16. ASSUME NEW h \in Here', NEW i \in Here', NEW j \in Here', h < i, i < j,
                IsReplay(todo'[h]), Weighs(todo'[i]), IsReplay(todo'[j])
         PROVE  TripleNext(h, i, j)
    <2>1. h < j
      BY <1>16 DEF Here
    <2>2. i \notin new /\ j \notin new /\ (h \in new <=> h = p)
      BY <1>3, <1>13, <1>16, <2>1 DEF Heavy, Weighs
    <2> QED
      BY <1>12, <1>14, <1>16, <2>2
  <1> QED
    BY <1>15, <1>16, PairsNext

\* One is raised, and the replay goes on above it.
LEMMA PairsRaises ==
  ASSUME TypeInv, RoomInv, NEW n, Raises(n)
  PROVE  RoomPairs'
  <1>0. todo \in Seq(Call) /\ RoomPairs
    BY DEF TypeInv, RoomInv
  <1>1. /\ IsReplay(todo[1]) /\ n = todo[1].from /\ n \in Places /\ captured[n] # None
        /\ captured' = [captured EXCEPT ![n] = None]
        /\ todo'[1] = captured[n] /\ todo'[2] = Replay(n + 1) /\ 1 \in Here /\ n \in Nat
    BY Heads DEF Raises, Places
  <1>2. /\ IsReplay(todo'[2]) /\ todo'[2].from = n + 1 /\ ~Weighs(todo'[2])
    BY <1>1 DEF Replay, IsReplay, Weighs, IsEvent, IsEnding, Moving
  <1>3. ~IsReplay(todo'[1])
    <2>1. captured[n] \in {None} \cup PositionEvent({"position"}) \cup KeycodeEvent
      BY <1>1, TypeFacts DEF CapturedType
    <2> QED
      BY <1>1, <2>1 DEF PositionEvent, KeycodeEvent, IsReplay
  <1>4. \A l : FilledBelow(l)
    BY <1>1 DEF FilledBelow
  <1>5. PICK d \in Int : d = 1
    OBVIOUS
  <1>6. PICK new : new = {1, 2}
    OBVIOUS
  <1>7. PICK lo \in {0, 1} : lo = 1
    OBVIOUS
  <1>8. Moves(d, lo, new)
    BY <1>5, <1>6, <1>7 DEF Raises
  <1>9. ASSUME NEW j \in Here', Heavy(todo'[j]), j \notin new
        PROVE  \E i \in Here : j = i + 1 /\ i > 1 /\ i \in Nat /\ Like(todo'[j], todo[i])
    <2>1. j - d \in Here /\ j - d > lo /\ Like(todo'[j], todo[j - d])
      BY <1>8, <1>9 DEF Moves
    <2>2. PICK i : i = j - 1
      OBVIOUS
    <2>3. i \in Here /\ i > 1 /\ Like(todo'[j], todo[i]) /\ i \in Nat
      BY <1>5, <1>7, <2>1, <2>2 DEF Here
    <2>4. j \in Int
      BY DEF Here
    <2>5. j = i + 1
      BY ONLY <2>2, <2>4
    <2> QED
      BY <2>3, <2>5
  <1>10. ASSUME NEW j \in Here', IsReplay(todo'[j]), j \notin new
         PROVE  \E b \in Here : /\ j = b + 1 /\ b > 1 /\ b \in Nat /\ IsReplay(todo[b])
                                /\ todo'[j].from = todo[b].from
                                /\ todo[b].from \in Nat /\ todo[b].from <= MaxCaptured + 1
    <2>1. PICK b \in Here : j = b + 1 /\ b > 1 /\ b \in Nat /\ Like(todo'[j], todo[b])
      BY <1>9, <1>10 DEF Heavy
    <2>2. IsReplay(todo[b]) /\ todo'[j].from = todo[b].from
      BY <1>10, <2>1, LikeKinds
    <2> QED
      BY <2>1, <2>2, ReplayType
  <1>11. ASSUME NEW b \in Here, b > 1, IsReplay(todo[b]), NEW c \in Nat, c >= 1, Room(todo[b].from, c), n < todo[b].from
         PROVE  RoomNext(todo[b].from, c) /\ n + c < todo[b].from
    <2>1. PICK m \in Nat, l \in Nat : m = todo[b].from /\ m <= MaxCaptured + 1 /\ l = 0
      BY <1>11, ReplayType
    <2>2. c < m /\ \A k \in m - c .. m - 1 : captured[k] = None
      BY <1>11, <2>1 DEF Room
    <2>3. n \notin m - c .. m - 1
      BY <1>1, <2>2
    <2>4. n + c < m
      BY <1>1, <1>11, <2>1, <2>2, <2>3
    <2>5. l <= m - c
      BY <2>1, <2>2
    <2>6. RoomNext(m, c)
      BY <1>4, <1>11, <2>1, <2>5, RoomStays
    <2> QED
      BY <2>1, <2>4, <2>6
  <1>12. ASSUME NEW j \in Here', IsReplay(todo'[j]), 2 < j PROVE PairNext(2, j)
    <2>0. j \notin new
      BY <1>6, <1>12
    <2>1. PICK b \in Here : /\ j = b + 1 /\ b > 1 /\ b \in Nat /\ IsReplay(todo[b])
                            /\ todo'[j].from = todo[b].from
                            /\ todo[b].from \in Nat /\ todo[b].from <= MaxCaptured + 1
      BY <1>10, <1>12, <2>0
    <2>2. n < todo[b].from /\ Room(todo[b].from, 1)
      BY <1>0, <1>1, <2>1 DEF RoomPairs
    <2>3. RoomNext(todo[b].from, 1) /\ n + 1 < todo[b].from
      BY <1>11, <2>1, <2>2
    <2> QED
      BY <1>2, <2>1, <2>3 DEF PairNext
  <1>13. ASSUME NEW i \in Here', NEW j \in Here', 2 < i, i < j, Weighs(todo'[i]), IsReplay(todo'[j])
         PROVE  TripleNext(2, i, j)
    <2>0. j \notin new /\ i \notin new /\ i \in Nat /\ j \in Nat
      BY <1>6, <1>13 DEF Here
    <2>1. PICK b \in Here : /\ j = b + 1 /\ b > 1 /\ b \in Nat /\ IsReplay(todo[b])
                            /\ todo'[j].from = todo[b].from
                            /\ todo[b].from \in Nat /\ todo[b].from <= MaxCaptured + 1
      BY <1>10, <1>13, <2>0
    <2>2. PICK w \in Here : i = w + 1 /\ w > 1 /\ w \in Nat /\ Like(todo'[i], todo[w])
      BY <1>9, <1>13, <2>0 DEF Heavy, Weighs
    <2>3. Weighs(todo[w]) /\ w < b
      <3>1. Weighs(todo[w])
        BY <1>13, <2>2, LikeKinds
      <3> QED
        BY ONLY <1>13, <2>1, <2>2, <3>1
    <2>4. PICK g \in Here : w < g /\ g <= b /\ IsReplay(todo[g]) /\ NoReplay(w, g)
      BY <2>1, <2>3, NextReplay
    <2>5. g \in Nat /\ g > 1 /\ todo[g].from \in Nat
      BY <2>2, <2>4, ReplayType
    <2>6. Room(todo[g].from, 2) /\ n + 2 <= todo[g].from
      BY <1>0, <1>1, <2>2, <2>3, <2>4 DEF RoomPairs
    <2>7. n + 2 < todo[g].from
      <3>1. n < todo[g].from
        BY <1>1, <2>5, <2>6
      <3> QED
        BY <1>11, <2>4, <2>5, <2>6, <3>1
    <2>8. todo[g].from <= todo[b].from
      <3>1. CASE g < b
        <4>1. todo[g].from < todo[b].from
          BY <1>0, <2>1, <2>4, <3>1 DEF RoomPairs
        <4> QED
          BY ONLY <2>1, <2>5, <4>1
      <3>2. CASE g = b
        BY <2>1, <3>2
      <3> QED
        BY <2>1, <2>4, <2>5, <3>1, <3>2
    <2>9. n + 3 <= todo[b].from
      BY <1>1, <2>1, <2>5, <2>7, <2>8
    <2>10. ASSUME NoReplay(i, j)' PROVE RoomNext(todo[b].from, 2)
      <3>1. ASSUME NEW k \in Here, w < k, k < b, IsReplay(todo[k]) PROVE FALSE
        <4>1. k > lo /\ Heavy(todo[k]) /\ k \in Nat
          BY <1>7, <2>2, <3>1 DEF Heavy, Here
        <4>2. k + 1 \in Here' /\ Like(todo'[k + 1], todo[k])
          BY <1>5, <1>8, <3>1, <4>1 DEF Moves
        <4>3. IsReplay(todo'[k + 1])
          BY <3>1, <4>2, LikeKinds
        <4>4. i < k + 1 /\ k + 1 < j
          BY ONLY <2>1, <2>2, <3>1, <4>1
        <4> QED
          BY <2>10, <4>2, <4>3, <4>4 DEF NoReplay
      <3>2. NoReplay(w, b)
        BY <3>1 DEF NoReplay
      <3>3. Room(todo[b].from, 2)
        BY <1>0, <1>1, <2>1, <2>2, <2>3, <3>2 DEF RoomPairs
      <3>4. n < todo[b].from
        BY <1>1, <2>1, <2>9
      <3> QED
        BY <1>11, <2>1, <3>3, <3>4
    <2> QED
      <3>1. (n + 1) + 2 <= todo[b].from
        BY <1>1, <2>1, <2>9
      <3> QED
        BY <1>2, <2>1, <2>10, <3>1 DEF TripleNext
  <1>14. /\ \A i, j \in Here' : /\ i < j /\ i \notin new /\ j \notin new
                                /\ IsReplay(todo'[i]) /\ IsReplay(todo'[j])
              => PairNext(i, j)
         /\ \A h, i, j \in Here' : /\ h < i /\ i < j /\ h \notin new /\ i \notin new /\ j \notin new
                                   /\ IsReplay(todo'[h]) /\ Weighs(todo'[i]) /\ IsReplay(todo'[j])
              => TripleNext(h, i, j)
    BY <1>0, <1>8, <1>4, PairsOld
  <1>15. ASSUME NEW i \in Here', NEW j \in Here', i < j, IsReplay(todo'[i])
         PROVE  j \notin new /\ 2 < j /\ i # 1 /\ (i \in new <=> i = 2)
    <2>1. i \in Nat /\ j \in Nat /\ i >= 1
      BY DEF Here
    <2>2. i # 1
      BY <1>3, <1>15
    <2> QED
      BY <1>6, <1>15, <2>1, <2>2
  <1>16. ASSUME NEW i \in Here', NEW j \in Here', i < j, IsReplay(todo'[i]), IsReplay(todo'[j])
         PROVE  PairNext(i, j)
    BY <1>12, <1>14, <1>15, <1>16
  <1>17. ASSUME NEW h \in Here', NEW i \in Here', NEW j \in Here', h < i, i < j,
                IsReplay(todo'[h]), Weighs(todo'[i]), IsReplay(todo'[j])
         PROVE  TripleNext(h, i, j)
    <2>1. h < j
      BY <1>17 DEF Here
    <2>2. i \notin new /\ j \notin new /\ 2 < i /\ (h \in new <=> h = 2)
      BY <1>15, <1>17, <2>1
    <2> QED
      BY <1>13, <1>14, <1>17, <2>2
  <1> QED
    BY <1>16, <1>17, PairsNext

-----------------------------------------------------------------------------
(* What may still be captured below the first replay *)

LEMMA HoldsGone ==
  ASSUME todo \in Seq(Call), Shape, NEW q, Splices(q), ~IsKeycode(todo[1]),
         \A j \in 1 .. Len(q) : ~IsHold(q[j])
  PROVE  HoldWeight = 0 /\ HoldWeight' = 0
  <1>1. 1 \in Here
    BY Splicing
  <1>2. ASSUME NEW j \in Here, IsHold(todo[j]) PROVE FALSE
    <2>1. IsKeycode(todo[j]) /\ j \in Nat /\ j >= 1
      BY <1>2 DEF IsHold, Here
    <2>2. j = 1 \/ 1 < j
      BY <2>1
    <2> QED
      BY <1>1, <2>1, <2>2 DEF Shape
  <1>3. ASSUME NEW j \in Here', IsHold(todo'[j]) PROVE FALSE
    <2>1. j \in Nat /\ j >= 1 /\ Len(q) \in Nat
      BY Splicing DEF Here
    <2>2. CASE j <= Len(q)
      <3>1. j \in 1 .. Len(q)
        BY <2>1, <2>2
      <3> QED
        BY <1>3, <3>1, Splicing
    <2>3. CASE ~(j <= Len(q))
      <3>1. PICK i : i = j - (Len(q) - 1)
        OBVIOUS
      <3>2. i \in Here /\ i > 1 /\ todo'[j] = todo[i]
        BY <2>1, <2>3, <3>1, Splicing
      <3> QED
        BY <1>2, <1>3, <3>2
    <2> QED
      BY <2>2, <2>3
  <1> QED
    BY <1>2, <1>3 DEF HoldWeight

\* The values of the weights after the step.
LEMMA WeightsNext ==
  ASSUME NEW j
  PROVE  Weight(j)' \in {0, 1} /\ HoldWeight' \in {0, 1} /\ RetroWeight' \in {0, 1}
  BY DEF Weight, HoldWeight, RetroWeight

LEMMA RetroFewer ==
  ASSUME WaitingFewer
  PROVE  RetroWeight' <= RetroWeight
  <1>1. CASE Waiting' = {}
    BY <1>1 DEF RetroWeight
  <1>2. CASE Waiting' # {}
    BY <1>2 DEF RetroWeight, WaitingFewer
  <1> QED
    BY <1>1, <1>2

LEMMA SlotsWait ==
  ASSUME setup' = setup, slots' = slots
  PROVE  WaitingFewer /\ RetroWeight' = RetroWeight
  <1>1. WaitingFewer
    BY FewerWait
  <1>2. Waiting' = Waiting
    BY DEF Waiting, InUse, Conf
  <1> QED
    BY <1>1, <1>2 DEF RetroWeight

LEMMA FreesWait ==
  ASSUME TypeInv, NEW d, Frees(d)
  PROVE  WaitingFewer
  <1>1. setup' = setup /\ slots' = [slots EXCEPT ![todo[1].slot] = Free]
    BY DEF Frees
  <1>2. \A s \in Slot : slots'[s].key # None /\ slots'[s].status = "timer" =>
           slots'[s].key = slots[s].key /\ slots[s].status = "timer"
    BY <1>1, TypeFacts DEF Row, Free
  <1> QED
    BY <1>1, <1>2, FewerWait

LEMMA NewSlotWaits ==
  ASSUME TypeInv, NEW i, NEW d, NewSlot(i, d)
  PROVE  WaitingFewer
  <1>1. /\ setup' = setup /\ i \in Slot
        /\ slots' = [slots EXCEPT ![i] = [Free EXCEPT !.key = todo[1].key, !.time = todo[1].time]]
    BY DEF NewSlot, Delivery
  <1>2. PICK r : r = [Free EXCEPT !.key = todo[1].key, !.time = todo[1].time]
    OBVIOUS
  <1>3. r.status = "undecided"
    BY <1>2 DEF Free
  <1>4. slots' = [slots EXCEPT ![i] = r]
    BY <1>1, <1>2
  <1>5. \A s \in Slot : slots'[s].key # None /\ slots'[s].status = "timer" =>
           slots'[s].key = slots[s].key /\ slots[s].status = "timer"
    BY <1>3, <1>4, TypeFacts DEF Row
  <1> QED
    BY <1>1, <1>5, FewerWait

LEMMA CatchingStays ==
  ASSUME TypeInv, SameKeys, undecided' = undecided
  PROVE  Catching' <=> Catching
  <1>1. CASE undecided = 0
    BY <1>1 DEF Catching
  <1>2. CASE undecided # 0
    <2>1. undecided \in InUse
      BY <1>2, Slots DEF TypeInv
    <2>2. slots'[undecided].key = slots[undecided].key /\ setup' = setup
      BY <2>1 DEF SameKeys
    <2> QED
      BY <1>2, <2>2 DEF Catching, Conf
  <1> QED
    BY <1>1, <1>2

\* A key event interrupts: the retro-tap keys but its own do not wait any more.
LEMMA InterruptWaits ==
  ASSUME TypeInv, Interrupt
  PROVE  /\ WaitingFewer
         /\ \A s \in Waiting' : s \in InUse /\ slots[s].key = todo[1].key
  <1>1. /\ todo # <<>> /\ Head(todo) = todo[1] /\ setup' = setup
    BY InterruptCalls, Heads DEF Interrupt, input
  <1>2. /\ slots' = [i \in Slot |-> IF i \in Retro(todo[1].key) THEN [slots[i] EXCEPT !.status = "interrupt"]
                                    ELSE slots[i]]
    BY <1>1 DEF Interrupt
  <1>3. ASSUME NEW s \in Slot, slots'[s].status = "timer" PROVE s \notin Retro(todo[1].key) /\ slots'[s] = slots[s]
    BY <1>2, <1>3, TypeFacts DEF Row
  <1>4. WaitingFewer
    BY <1>1, <1>3, FewerWait
  <1>5. ASSUME NEW s \in Waiting' PROVE s \in InUse /\ slots[s].key = todo[1].key
    <2>1. s \in Waiting
      BY <1>4 DEF WaitingFewer
    <2>2. s \in Slot /\ slots'[s].status = "timer"
      BY DEF Waiting, InUse
    <2>3. s \notin Retro(todo[1].key)
      BY <1>3, <2>2
    <2> QED
      BY <2>1, <2>3 DEF Retro, Waiting
  <1> QED
    BY <1>4, <1>5

\* Until the decision no hold comes but for a retro-tap key that waits no more.
LEMMA WeightsRoll ==
  ASSUME TypeInv, Shape, WaitingInv, SameKeys, undecided # 0, Passing, captured' = captured
  PROVE  HoldWeight' + RetroWeight' <= HoldWeight + RetroWeight
  <1>0. todo \in Seq(Call) /\ undecided' = undecided
    BY DEF TypeInv, Passing, Interrupt, Listen, DecideNothing, StartTimer, Capture, KeycodeRaised, code
  <1>1. /\ HoldWeight \in {0, 1} /\ RetroWeight \in {0, 1}
        /\ HoldWeight' \in {0, 1} /\ RetroWeight' \in {0, 1}
    BY Weights, WeightsNext
  <1>2. ASSUME \/ HoldWeight' <= HoldWeight /\ RetroWeight' <= RetroWeight
               \/ RetroWeight = 1 /\ RetroWeight' = 0
        PROVE  HoldWeight' + RetroWeight' <= HoldWeight + RetroWeight
    <2>1. PICK h \in {0, 1}, r \in {0, 1}, hn \in {0, 1}, rn \in {0, 1} :
            h = HoldWeight /\ r = RetroWeight /\ hn = HoldWeight' /\ rn = RetroWeight'
      BY <1>1
    <2>2. \/ hn <= h /\ rn <= r
          \/ r = 1 /\ rn = 0
      BY <1>2, <2>1
    <2>3. hn + rn <= h + r
      BY ONLY <2>2, h \in {0, 1}, r \in {0, 1}, hn \in {0, 1}, rn \in {0, 1}
    <2> QED
      BY <2>1, <2>3
  <1>3. ASSUME NEW q, Splices(q), ~IsKeycode(todo[1]), \A j \in 1 .. Len(q) : ~IsHold(q[j])
        PROVE  HoldWeight' <= HoldWeight
    BY <1>0, <1>3, HoldsGone
  <1>4. ASSUME IsEvent(todo[1]) \/ IsReplay(todo[1]) \/ IsEnding(todo[1]) PROVE ~IsKeycode(todo[1])
    BY <1>4 DEF IsEvent, IsReplay, IsEnding, IsKeycode, Moving
  <1>5. ASSUME NEW q, Onward(q, q[Len(q)].op), IsEvent(todo[1]), \A j \in 1 .. Len(q) : j < Len(q) => ~IsHold(q[j])
        PROVE  HoldWeight' <= HoldWeight
    <2>1. Splices(q) /\ Len(q) \in Nat /\ Like(q[Len(q)], todo[1])
      BY <1>0, <1>5, Splicing DEF Onward, Carries
    <2>2. ~IsHold(q[Len(q)])
      BY <1>5, <2>1 DEF Like, IsEvent, IsHold, IsKeycode, Moving
    <2>3. \A j \in 1 .. Len(q) : j = Len(q) \/ j < Len(q)
      BY <2>1
    <2> QED
      BY <1>3, <1>4, <1>5, <2>1, <2>2, <2>3
  <1>6. CASE Interrupt
    <2>1. PICK q : /\ Onward(q, "listen") /\ \A j \in 1 .. Len(q) : j < Len(q) => IsHold(q[j])
                   /\ (\A i \in Retro(todo[1].key) : Conf(i).hwu) => Len(q) = 1
      BY <1>6, InterruptCalls
    <2>2. IsEvent(todo[1]) /\ WaitingFewer
      BY <1>6, InterruptCalls, InterruptWaits
    <2>3. Splices(q) /\ Len(q) \in Nat /\ Like(q[Len(q)], todo[1])
      BY <1>0, <2>1, Splicing DEF Onward, Carries
    <2>4. CASE Retro(todo[1].key) = {}
      <3>1. Len(q) = 1
        BY <2>1, <2>4
      <3>2. \A j \in 1 .. Len(q) : j = Len(q)
        BY <3>1
      <3>3. ~IsHold(q[Len(q)])
        BY <2>2, <2>3 DEF Like, IsEvent, IsHold, IsKeycode, Moving
      <3> QED
        BY <1>2, <1>3, <1>4, <2>2, <2>3, <3>2, <3>3, RetroFewer
    <2>5. CASE Retro(todo[1].key) # {}
      <3>1. PICK i \in Retro(todo[1].key) : TRUE
        BY <2>5
      <3>2. i \in Waiting /\ slots[i].key # todo[1].key
        BY <3>1 DEF Retro, Waiting
      <3>3. \A s \in Waiting' : s \in Waiting /\ slots[s].key = todo[1].key
        BY <1>6, <2>2, InterruptWaits DEF WaitingFewer
      <3>4. \A s \in Waiting : s = i
        BY <3>2 DEF WaitingInv
      <3>5. Waiting' = {}
        BY <3>2, <3>3, <3>4
      <3>6. RetroWeight = 1 /\ RetroWeight' = 0
        BY <3>2, <3>5 DEF RetroWeight
      <3> QED
        BY <1>2, <3>6
    <2> QED
      BY <2>4, <2>5
  <1>7. CASE Listen
    <2>1. IsEvent(todo[1]) /\ setup' = setup
      BY <1>7, ListenCalls DEF Listen, input
    <2>2. PICK q, o : /\ Onward(q, o)
                      /\ \/ Len(q) = 1
                         \/ Len(q) = 2 /\ q[1] = Decide(undecided, "timer")
      BY <1>7, ListenCalls
    <2>3. \A j \in 1 .. Len(q) : j < Len(q) => ~IsHold(q[j])
      <3>1. PICK m \in {1, 2} : m = Len(q)
        BY <2>2
      <3>2. m = 2 => ~IsHold(q[1])
        BY <2>2, <3>1 DEF Decide, IsHold, IsKeycode
      <3>3. ASSUME NEW j \in 1 .. m, j < m PROVE m = 2 /\ j = 1
        <4>1. j \in Int /\ m \in Int /\ 1 <= j /\ j < m /\ (m = 1 \/ m = 2)
          BY <3>1, <3>3
        <4> QED
          BY ONLY <4>1
      <3> QED
        BY <3>1, <3>2, <3>3
    <2>4. ~IsHold(q[Len(q)]) /\ Splices(q) /\ Len(q) \in Nat
      <3>1. Splices(q) /\ Len(q) \in Nat /\ Like(q[Len(q)], todo[1])
        BY <1>0, <2>2, Splicing DEF Onward, Carries
      <3> QED
        BY <2>1, <3>1 DEF Like, IsEvent, IsHold, IsKeycode, Moving
    <2>5. \A j \in 1 .. Len(q) : ~IsHold(q[j])
      <3>1. \A j \in 1 .. Len(q) : j = Len(q) \/ j < Len(q)
        BY <2>4
      <3> QED
        BY <2>3, <2>4, <3>1
    <2>6. \A s \in Slot : slots'[s].key = slots[s].key /\ slots'[s].status = slots[s].status
      <3>1. slots' = slots \/ \E f : slots' = [slots EXCEPT ![undecided].first = f]
        BY <1>7 DEF Listen
      <3> QED
        BY <3>1, TypeFacts DEF Row
    <2>7. WaitingFewer
      BY <2>1, <2>6, FewerWait
    <2> QED
      BY <1>2, <1>3, <1>4, <2>1, <2>4, <2>5, <2>7, RetroFewer
  <1>8. ASSUME slots' = slots, setup' = setup, HoldWeight' <= HoldWeight
        PROVE  HoldWeight' + RetroWeight' <= HoldWeight + RetroWeight
    BY <1>2, <1>8, SlotsWait, RetroFewer
  <1>9. CASE Capture
    <2>1. slots' = slots /\ setup' = setup
      BY <1>9 DEF Capture, input
    <2>2. IsEvent(todo[1])
      BY <1>9, CaptureCalls
    <2>3. CASE \E q : Onward(q, "keymap") /\ Len(q) = 1
      <3>1. PICK q : Onward(q, "keymap") /\ Len(q) = 1
        BY <2>3
      <3>2. Splices(q) /\ Like(q[Len(q)], todo[1])
        BY <1>0, <3>1, Splicing DEF Onward, Carries
      <3>3. \A j \in 1 .. Len(q) : ~IsHold(q[j])
        BY <2>2, <3>1, <3>2 DEF Like, IsEvent, IsHold, IsKeycode, Moving
      <3> QED
        BY <1>3, <1>4, <1>8, <2>1, <2>2, <3>2, <3>3
    <2>4. CASE \E q : Splices(q) /\ Len(q) = 1 /\ ~IsKeycode(q[1])
      <3>1. PICK q : Splices(q) /\ Len(q) = 1 /\ ~IsKeycode(q[1])
        BY <2>4
      <3>2. \A j \in 1 .. Len(q) : ~IsHold(q[j])
        BY <3>1 DEF IsHold
      <3> QED
        BY <1>3, <1>4, <1>8, <2>1, <2>2, <3>1, <3>2
    <2> QED
      BY <1>9, <2>3, <2>4, CaptureCalls
  <1>10. CASE DecideNothing
    <2>1. slots' = slots /\ setup' = setup
      BY <1>10 DEF DecideNothing, input, code
    <2>2. ~IsKeycode(todo[1])
      BY <1>10, DecideNothingCalls
    <2>3. CASE \E q : Splices(q) /\ Len(q) = 0
      <3>1. PICK q : Splices(q) /\ Len(q) = 0
        BY <2>3
      <3>2. \A j \in 1 .. Len(q) : ~IsHold(q[j])
        BY <3>1
      <3> QED
        BY <1>3, <1>8, <2>1, <2>2, <3>1, <3>2
    <2>4. CASE Conf(undecided).hwu
      <3>1. ~Catching'
        BY <1>0, <2>4, CatchingStays DEF Catching
      <3>2. HoldWeight' = 0
        BY <3>1 DEF HoldWeight
      <3>3. HoldWeight' <= HoldWeight
        BY <1>1, <3>2
      <3> QED
        BY <1>8, <2>1, <3>3
    <2> QED
      BY <1>10, <2>3, <2>4, DecideNothingCalls
  <1>11. CASE StartTimer
    <2>1. slots' = slots /\ setup' = setup
      BY <1>11 DEF StartTimer, input
    <2>2. PICK q : Splices(q) /\ Len(q) = 0
      BY <1>11, StartTimerCalls
    <2>3. todo[1].op = "schedule"
      BY <1>11, StartTimerCalls
    <2>4. ~IsKeycode(todo[1]) /\ \A j \in 1 .. Len(q) : ~IsHold(q[j])
      BY <2>2, <2>3 DEF IsKeycode
    <2> QED
      BY <1>3, <1>8, <2>1, <2>2, <2>4
  <1>12. CASE KeycodeRaised
    <2>1. slots' = slots /\ setup' = setup
      BY <1>12 DEF KeycodeRaised, input
    <2>2. PICK q : Splices(q) /\ Len(q) = 0
      BY <1>12, KeycodeCalls
    <2>3. ASSUME NEW j \in Here', IsHold(todo'[j]) PROVE \E i \in Here : IsHold(todo[i])
      <3>1. j > Len(q)
        BY <2>2 DEF Here
      <3> QED
        BY <1>0, <2>2, <2>3, <3>1, Splicing
    <2>4. Catching' <=> Catching
      BY <1>0, CatchingStays
    <2>5. HoldWeight' <= HoldWeight
      BY <2>3, <2>4 DEF HoldWeight
    <2> QED
      BY <1>8, <2>1, <2>5
  <1> QED
    BY <1>6, <1>7, <1>9, <1>10, <1>11, <1>12 DEF Passing

LEMMA LoadsNext ==
  ASSUME NEW j
  PROVE  Load(j)' \in 0 .. 3
  <1>1. PICK w \in {0, 1}, h \in {0, 1}, r \in {0, 1} : w = Weight(j)' /\ h = HoldWeight' /\ r = RetroWeight'
    BY WeightsNext
  <1>2. Load(j)' = w + h + r
    BY <1>1 DEF Load
  <1>3. w + h + r \in 0 .. 3
    OBVIOUS
  <1> QED
    BY <1>2, <1>3

\* When the load of a first replay is not greater, or less.
LEMMA Lighter ==
  ASSUME NEW j, NEW b
  PROVE  /\ \/ Weight(j)' <= Weight(b) /\ HoldWeight' + RetroWeight' <= HoldWeight + RetroWeight
            \/ Weight(b) = 1 /\ Weight(j)' = 0 /\ RetroWeight' <= RetroWeight
            \/ Weight(b) = 1 /\ HoldWeight' = 0 /\ RetroWeight' <= RetroWeight
            => Load(j)' <= Load(b)
         /\ \/ Weight(b) = 1 /\ Weight(j)' = 0 /\ HoldWeight' = 0 /\ RetroWeight' <= RetroWeight
            \/ Weight(j)' <= Weight(b) /\ HoldWeight = 1 /\ HoldWeight' = 0 /\ RetroWeight' <= RetroWeight
            => Load(j)' < Load(b)
  <1>1. PICK w \in {0, 1}, h \in {0, 1}, r \in {0, 1} : w = Weight(b) /\ h = HoldWeight /\ r = RetroWeight
    BY Weights
  <1>2. PICK wn \in {0, 1}, hn \in {0, 1}, rn \in {0, 1} :
          wn = Weight(j)' /\ hn = HoldWeight' /\ rn = RetroWeight'
    BY WeightsNext
  <1>3. Load(b) = w + h + r /\ Load(j)' = wn + hn + rn
    BY <1>1, <1>2 DEF Load
  <1>4. /\ \/ wn <= w /\ hn + rn <= h + r
           \/ w = 1 /\ wn = 0 /\ rn <= r
           \/ w = 1 /\ hn = 0 /\ rn <= r
           => wn + hn + rn <= w + h + r
        /\ \/ w = 1 /\ wn = 0 /\ hn = 0 /\ rn <= r
           \/ wn <= w /\ h = 1 /\ hn = 0 /\ rn <= r
           => wn + hn + rn < w + h + r
    OBVIOUS
  <1> QED
    BY <1>1, <1>2, <1>3, <1>4

\* What was the first replay, and what weighs before it.
FirstWas(b, j, d, lo, new) ==
  /\ b \in Nat /\ lo < b /\ j = b + d /\ IsReplay(todo[b]) /\ NoReplay(lo, b)
  /\ todo'[j].from = todo[b].from /\ todo[b].from \in Nat /\ todo[b].from <= MaxCaptured + 1
  /\ \A i \in Here' : i < j /\ Weighs(todo'[i]) /\ i \notin new =>
       \E w \in Here : i = w + d /\ w \in Nat /\ lo < w /\ w < b /\ Weighs(todo[w]) /\ Like(todo'[i], todo[w])

LEMMA FirstMoves ==
  ASSUME TypeInv, NEW d, NEW lo \in {0, 1}, NEW new, Moves(d, lo, new), NEW j \in Here', First(j)', j \notin new
  PROVE  \E b \in Here : FirstWas(b, j, d, lo, new)
  <1>1. todo \in Seq(Call) /\ d \in Int
    BY DEF TypeInv, Moves
  <1>2. IsReplay(todo'[j]) /\ \A k \in Here' : 0 < k /\ k < j => ~IsReplay(todo'[k])
    BY DEF First, NoReplay
  <1>3. Heavy(todo'[j])
    BY <1>2 DEF Heavy
  <1>4. PICK b \in Here : j = b + d /\ b > lo /\ b \in Nat /\ Like(todo'[j], todo[b])
    <2>1. j - d \in Here /\ j - d > lo /\ Like(todo'[j], todo[j - d])
      BY <1>3 DEF Moves
    <2>2. PICK i : i = j - d
      OBVIOUS
    <2>3. i \in Here /\ i > lo /\ Like(todo'[j], todo[i]) /\ i \in Nat /\ j \in Int
      BY <2>1, <2>2 DEF Here
    <2>4. j = i + d
      BY ONLY <1>1, <2>2, <2>3
    <2> QED
      BY <2>3, <2>4
  <1>5. IsReplay(todo[b]) /\ todo'[j].from = todo[b].from
    BY <1>2, <1>4, LikeKinds
  <1>6. todo[b].from \in Nat /\ todo[b].from <= MaxCaptured + 1
    BY <1>5, ReplayType
  <1>7. ASSUME NEW k \in Here, lo < k, k < b, IsReplay(todo[k]) PROVE FALSE
    <2>1. k + d \in Here' /\ Like(todo'[k + d], todo[k])
      BY <1>7 DEF Moves, Heavy
    <2>2. IsReplay(todo'[k + d])
      BY <1>7, <2>1, LikeKinds
    <2>3. k \in Nat /\ 0 < k + d
      BY <2>1 DEF Here
    <2>4. k + d < j
      BY ONLY <1>1, <1>4, <1>7, <2>3
    <2> QED
      BY <1>2, <2>1, <2>2, <2>3, <2>4
  <1>8. ASSUME NEW i \in Here', i < j, Weighs(todo'[i]), i \notin new
        PROVE  \E w \in Here : i = w + d /\ w \in Nat /\ lo < w /\ w < b /\ Weighs(todo[w]) /\ Like(todo'[i], todo[w])
    <2>1. Heavy(todo'[i])
      BY <1>8 DEF Heavy, Weighs
    <2>2. i - d \in Here /\ i - d > lo /\ Like(todo'[i], todo[i - d])
      BY <1>8, <2>1 DEF Moves
    <2>3. PICK w : w = i - d
      OBVIOUS
    <2>4. w \in Here /\ w > lo /\ Like(todo'[i], todo[w]) /\ w \in Nat /\ i \in Int
      BY <2>2, <2>3 DEF Here
    <2>5. i = w + d /\ w < b
      BY ONLY <1>1, <1>4, <1>8, <2>3, <2>4
    <2>6. Weighs(todo[w])
      BY <1>8, <2>4, LikeKinds
    <2> QED
      BY <2>4, <2>5, <2>6
  <1>9. b \in Nat /\ lo < b /\ j = b + d /\ IsReplay(todo[b]) /\ NoReplay(lo, b)
    BY <1>4, <1>5, <1>7 DEF NoReplay
  <1>10. FirstWas(b, j, d, lo, new)
    BY <1>5, <1>6, <1>8, <1>9 DEF FirstWas
  <1> QED
    BY <1>10

LEMMA FirstStill ==
  ASSUME TypeInv, NEW b \in Here, NEW j, NEW d, NEW lo \in {0, 1}, NEW new, FirstWas(b, j, d, lo, new),
         lo = 1 => ~IsReplay(todo[1])
  PROVE  /\ First(b)
         /\ (\E i \in Here' : i < j /\ Weighs(todo'[i]) /\ i \notin new) => Weight(b) = 1
  <1>1. b \in Nat /\ IsReplay(todo[b]) /\ NoReplay(lo, b)
    BY DEF FirstWas
  <1>2. ASSUME NEW k \in Here, 0 < k, k < b, IsReplay(todo[k]) PROVE FALSE
    <2>1. k \in Nat
      BY DEF Here
    <2>2. lo < k \/ (lo = 1 /\ k = 1)
      BY <1>2, <2>1
    <2> QED
      BY <1>1, <1>2, <2>2 DEF NoReplay
  <1>3. ASSUME NEW i \in Here', i < j, Weighs(todo'[i]), i \notin new PROVE Weight(b) = 1
    <2>1. \E w \in Here : w < b /\ Weighs(todo[w])
      BY <1>3 DEF FirstWas
    <2> QED
      BY <2>1 DEF Weight
  <1> QED
    BY <1>1, <1>2, <1>3 DEF First, NoReplay

\* When the first call weighs, nothing else does before the first replay.
LEMMA HeadWeighs ==
  ASSUME TypeInv, Shape, todo # <<>>, Weighs(todo[1]),
         NEW b \in Here, NEW j, NEW d, NEW lo \in {0, 1}, NEW new, FirstWas(b, j, d, lo, new), lo = 1
  PROVE  First(b) /\ Weight(b) = 1 /\ \A i \in Here' : i < j /\ i \notin new => ~Weighs(todo'[i])
  <1>1. 1 \in Here /\ todo[1] \in Call
    BY Heads
  <1>2. ~IsReplay(todo[1])
    BY <1>1, LightOrHeavy DEF Weighs
  <1>3. First(b)
    BY <1>2, FirstStill
  <1>4. b \in Nat /\ 1 < b /\ NoReplay(1, b)
    BY DEF FirstWas
  <1>5. Weight(b) = 1
    BY <1>1, <1>4 DEF Weight
  <1>6. ASSUME NEW i \in Here', i < j, i \notin new, Weighs(todo'[i]) PROVE FALSE
    <2>1. PICK w \in Here : w \in Nat /\ 1 < w /\ w < b /\ Weighs(todo[w])
      BY <1>6 DEF FirstWas
    <2>2. PICK k \in Here : 1 < k /\ k < w /\ IsReplay(todo[k])
      BY <1>1, <2>1 DEF Shape
    <2>3. k < b
      BY <1>4, <2>1, <2>2 DEF Here
    <2> QED
      BY <1>4, <2>2, <2>3 DEF NoReplay
  <1> QED
    BY <1>3, <1>5, <1>6

\* Room enough was there.
LEMMA FirstKept ==
  ASSUME TypeInv, RoomFirst, undecided # 0, captured' = captured,
         NEW b \in Here, First(b), NEW j, todo'[j].from = todo[b].from, Load(j)' <= Load(b)
  PROVE  RoomNext(todo'[j].from, 1 + Load(j)')
  <1>1. PICK m : m = todo[b].from
    OBVIOUS
  <1>2. m \in Nat /\ m <= MaxCaptured + 1
    BY <1>1, ReplayType DEF First
  <1>3. PICK c \in Nat : c = 1 + Load(b)
    BY Loads
  <1>4. PICK a \in Nat : a = 1 + Load(j)'
    BY LoadsNext
  <1>5. a <= c
    BY <1>3, <1>4, Loads, LoadsNext
  <1>6. Room(m, c)
    BY <1>1, <1>3 DEF RoomFirst
  <1>7. Room(m, a)
    BY <1>2, <1>5, <1>6, RoomLess
  <1>8. RoomNext(m, a)
    BY <1>7 DEF Room, RoomNext
  <1> QED
    BY <1>1, <1>4, <1>8

\* One more gap is filled.
LEMMA FirstCaught ==
  ASSUME TypeInv, RoomFirst, NEW e, NEW g, Caught(e, g),
         NEW b \in Here, First(b), NEW j, todo'[j].from = todo[b].from, Load(j)' < Load(b)
  PROVE  RoomNext(todo'[j].from, 1 + Load(j)')
  <1>1. PICK m : m = todo[b].from
    OBVIOUS
  <1>2. m \in Nat /\ m <= MaxCaptured + 1
    BY <1>1, ReplayType DEF First
  <1>3. PICK c \in Nat : c = 1 + Load(b) /\ c >= 1
    BY Loads
  <1>4. PICK a \in Nat : a = 1 + Load(j)'
    BY LoadsNext
  <1>5. a < c
    BY <1>3, <1>4, Loads, LoadsNext
  <1>6. Room(m, c)
    BY <1>1, <1>3 DEF RoomFirst, Caught
  <1>7. g \in Places /\ \A k \in Places : captured[k] = None => g <= k
    BY DEF Caught
  <1>8. g + c <= m /\ g \in Nat
    BY <1>2, <1>3, <1>6, <1>7, GapBelow DEF Places
  <1>9. c < m /\ \A k \in m - c .. m - 1 : captured[k] = None
    BY <1>6 DEF Room
  <1>10. ASSUME NEW k \in m - a .. m - 1 PROVE captured'[k] = None
    <2>1. k \in m - c .. m - 1 /\ k # g
      BY <1>2, <1>5, <1>8
    <2>2. k \in Places
      BY <1>2, <1>9, <2>1, HoldTapAssumption DEF Places
    <2> QED
      BY <1>9, <2>1, <2>2 DEF Caught
  <1>11. a < m
    BY <1>2, <1>5, <1>9
  <1> QED
    BY <1>1, <1>4, <1>10, <1>11 DEF RoomNext

\* Every step leaves room below the first replay.
FirstNext == \A j \in Here' : First(j)' => RoomNext(todo'[j].from, 1 + Load(j)')

LEMMA FirstIs ==
  ASSUME undecided' # 0 => FirstNext
  PROVE  RoomFirst'
  BY DEF FirstNext, RoomFirst, Room, RoomNext

LEMMA FirstRolls ==
  ASSUME TypeInv, Shape, RoomFirst, WaitingInv, Passing, undecided' # 0, NEW d, Rolls(d)
  PROVE  FirstNext
  <1>1. PICK lo \in {0, 1} : lo = 0
    OBVIOUS
  <1>2. /\ Moves(d, lo, {}) /\ SameKeys /\ captured' = captured /\ undecided # 0
    BY <1>1 DEF Rolls, Keeps, SameLine
  <1>3. HoldWeight' + RetroWeight' <= HoldWeight + RetroWeight
    BY <1>2, WeightsRoll
  <1>4. ASSUME NEW j \in Here', First(j)' PROVE RoomNext(todo'[j].from, 1 + Load(j)')
    <2>1. PICK b \in Here : FirstWas(b, j, d, lo, {})
      BY <1>2, <1>4, FirstMoves
    <2>2. First(b) /\ ((\E i \in Here' : i < j /\ Weighs(todo'[i])) => Weight(b) = 1)
      BY <1>1, <2>1, FirstStill
    <2>3. Weight(j)' <= Weight(b)
      <3>1. CASE Weight(j)' = 0
        BY <3>1, Weights
      <3>2. CASE Weight(j)' # 0
        <4>1. \E i \in Here' : i < j /\ Weighs(todo'[i])
          BY <3>2 DEF Weight
        <4> QED
          BY <2>2, <4>1, WeightsNext
      <3> QED
        BY <3>1, <3>2
    <2>4. Load(j)' <= Load(b)
      BY <1>3, <2>3, Lighter
    <2> QED
      BY <1>2, <2>1, <2>2, <2>4, FirstKept DEF FirstWas
  <1> QED
    BY <1>4 DEF FirstNext

\* The first call weighs, and goes.
LEMMA FirstGoes ==
  ASSUME TypeInv, Shape, RoomFirst, undecided # 0, captured' = captured, todo # <<>>, Weighs(todo[1]),
         WaitingFewer, NEW d, Moves(d, 1, {})
  PROVE  FirstNext
  <1>1. PICK lo \in {0, 1} : lo = 1
    OBVIOUS
  <1>2. Moves(d, lo, {})
    BY <1>1
  <1>3. ASSUME NEW j \in Here', First(j)' PROVE RoomNext(todo'[j].from, 1 + Load(j)')
    <2>1. PICK b \in Here : FirstWas(b, j, d, lo, {})
      BY <1>2, <1>3, FirstMoves
    <2>2. First(b) /\ Weight(b) = 1 /\ \A i \in Here' : i < j => ~Weighs(todo'[i])
      BY <1>1, <2>1, HeadWeighs
    <2>3. Weight(j)' = 0
      BY <2>2 DEF Weight
    <2>4. Load(j)' <= Load(b)
      BY <2>2, <2>3, Lighter, RetroFewer
    <2> QED
      BY <2>1, <2>2, <2>4, FirstKept DEF FirstWas
  <1> QED
    BY <1>3 DEF FirstNext

LEMMA FirstFrees ==
  ASSUME TypeInv, Shape, RoomFirst, undecided' # 0, NEW d, Frees(d)
  PROVE  FirstNext
  <1>1. /\ todo # <<>> /\ Weighs(todo[1]) /\ undecided # 0 /\ captured' = captured /\ Moves(d, 1, {})
    BY DEF Frees, Weighs, SameLine, Drops
  <1> QED
    BY <1>1, FreesWait, FirstGoes

LEMMA FirstNothing ==
  ASSUME TypeInv, Shape, RoomFirst, undecided' # 0, NEW d, Nothing(d)
  PROVE  FirstNext
  <1>1. /\ todo # <<>> /\ Weighs(todo[1]) /\ undecided # 0 /\ captured' = captured /\ Moves(d, 1, {})
        /\ slots' = slots /\ setup' = setup
    BY DEF Nothing, Delivery, AtKeymap, Weighs
  <1> QED
    BY <1>1, SlotsWait, FirstGoes

\* No hold comes at the keymap but for the plain keys.
LEMMA EndsHolds ==
  ASSUME TypeInv, Shape, BindingReleased, NEW i, NEW d, Ends(i, d)
  PROVE  HoldWeight' = 0
  <1>0. todo \in Seq(Call)
    BY DEF TypeInv
  <1>1. AtKeymap /\ Found(todo[1].key) # {}
    BY DEF Ends, Delivery
  <1>2. PICK s \in Found(todo[1].key) : \E q :
                 /\ Splices(q) /\ Len(q) \in {2, 3} /\ q[Len(q)] = Ending(s)
                 /\ \A j \in 1 .. Len(q) : j < Len(q) => Light(q[j]) /\ ~IsKeycode(q[j])
    BY <1>1, BindingReleasedCalls
  <1>3. PICK q : /\ Splices(q) /\ Len(q) \in {2, 3} /\ q[Len(q)] = Ending(s)
                 /\ \A j \in 1 .. Len(q) : j < Len(q) => Light(q[j]) /\ ~IsKeycode(q[j])
    BY <1>2
  <1>4. ~IsKeycode(q[Len(q)])
    BY <1>3 DEF Ending, IsKeycode
  <1>5. \A j \in 1 .. Len(q) : j = Len(q) \/ j < Len(q)
    BY <1>3
  <1>6. \A j \in 1 .. Len(q) : ~IsHold(q[j])
    BY <1>3, <1>4, <1>5 DEF IsHold
  <1>7. ~IsKeycode(todo[1])
    BY <1>1 DEF AtKeymap, IsKeycode
  <1> QED
    BY <1>0, <1>3, <1>6, <1>7, HoldsGone

LEMMA NewSlotHolds ==
  ASSUME TypeInv, Shape, BindingPressed, NEW i, NEW d, NewSlot(i, d)
  PROVE  HoldWeight' = 0
  <1>0. todo \in Seq(Call)
    BY DEF TypeInv
  <1>1. AtKeymap /\ undecided = 0 /\ undecided' # undecided
    BY HoldTapAssumption DEF NewSlot, Delivery, Slot
  <1>2. PICK q : Splices(q) /\ \A j \in 1 .. Len(q) : ~IsKeycode(q[j]) /\ ~ByTimer(q[j])
    BY <1>1, BindingPressedCalls
  <1>3. \A j \in 1 .. Len(q) : ~IsHold(q[j])
    BY <1>2 DEF IsHold
  <1>4. ~IsKeycode(todo[1])
    BY <1>1 DEF AtKeymap, IsKeycode
  <1> QED
    BY <1>0, <1>2, <1>3, <1>4, HoldsGone

LEMMA FirstEnds ==
  ASSUME TypeInv, Shape, RoomFirst, BindingReleased, undecided' # 0, NEW s, NEW d, Ends(s, d)
  PROVE  FirstNext
  <1>1. /\ todo # <<>> /\ Weighs(todo[1]) /\ undecided # 0 /\ captured' = captured
        /\ slots' = slots /\ setup' = setup
    BY DEF Ends, Delivery, AtKeymap, Weighs
  <1>2. PICK lo \in {0, 1} : lo = 1
    OBVIOUS
  <1>3. PICK new : new = {d + 1}
    OBVIOUS
  <1>4. Moves(d, lo, new) /\ ~IsReplay(todo'[d + 1])
    BY <1>2, <1>3 DEF Ends, Delivery, Ending, IsReplay
  <1>5. ASSUME NEW j \in Here', First(j)' PROVE RoomNext(todo'[j].from, 1 + Load(j)')
    <2>1. j \notin new
      BY <1>3, <1>4, <1>5 DEF First
    <2>2. PICK b \in Here : FirstWas(b, j, d, lo, new)
      BY <1>4, <1>5, <2>1, FirstMoves
    <2>3. First(b) /\ Weight(b) = 1
      BY <1>1, <1>2, <2>2, HeadWeighs
    <2>4. RetroWeight' <= RetroWeight
      BY <1>1, SlotsWait, RetroFewer
    <2>5. Load(j)' <= Load(b)
      BY <2>3, <2>4, EndsHolds, Lighter
    <2> QED
      BY <1>1, <2>2, <2>3, <2>5, FirstKept DEF FirstWas
  <1> QED
    BY <1>5 DEF FirstNext

LEMMA FirstTaken ==
  ASSUME TypeInv, Shape, RoomFirst, Capture, undecided' # 0, NEW e, NEW g, Taken(e, g)
  PROVE  FirstNext
  <1>0. todo \in Seq(Call)
    BY DEF TypeInv
  <1>1. /\ todo # <<>> /\ Weighs(todo[1]) /\ Caught(e, g) /\ IsEvent(todo[1])
    BY DEF Taken, Caught, Weighs
  <1>2. slots' = slots /\ setup' = setup
    BY DEF Capture, input
  <1>3. PICK lo \in {0, 1} : lo = 1
    OBVIOUS
  <1>4. PICK d \in Int : d = 0
    OBVIOUS
  <1>5. Moves(d, lo, {})
    BY <1>3, <1>4 DEF Taken, Drops
  <1>6. HoldWeight' = 0
    <2>1. ~IsKeycode(todo[1])
      BY <1>1 DEF IsEvent, IsKeycode, Moving
    <2>2. captured' # captured
      <3>1. captured \in [Places -> {None} \cup PositionEvent({"position"}) \cup KeycodeEvent]
        BY TypeFacts DEF CapturedType
      <3> QED
        BY <1>1, <3>1 DEF Caught
    <2>3. PICK q : Splices(q) /\ Len(q) = 1 /\ ~IsKeycode(q[1])
      BY <2>2, CaptureCalls
    <2>4. \A j \in 1 .. Len(q) : ~IsHold(q[j])
      BY <2>3 DEF IsHold
    <2> QED
      BY <1>0, <2>1, <2>3, <2>4, HoldsGone
  <1>7. ASSUME NEW j \in Here', First(j)' PROVE RoomNext(todo'[j].from, 1 + Load(j)')
    <2>1. PICK b \in Here : FirstWas(b, j, d, lo, {})
      BY <1>5, <1>7, FirstMoves
    <2>2. First(b) /\ Weight(b) = 1 /\ \A i \in Here' : i < j => ~Weighs(todo'[i])
      BY <1>1, <1>3, <2>1, HeadWeighs
    <2>3. Weight(j)' = 0
      BY <2>2 DEF Weight
    <2>4. Load(j)' < Load(b)
      BY <1>2, <1>6, <2>2, <2>3, Lighter, RetroFewer, SlotsWait
    <2> QED
      BY <1>1, <2>1, <2>2, <2>4, FirstCaught DEF FirstWas
  <1> QED
    BY <1>7 DEF FirstNext

LEMMA FirstHoldCaught ==
  ASSUME TypeInv, Shape, RoomFirst, HoldOnce, KeycodeRaised, undecided' # 0, NEW e, NEW g, HoldCaught(e, g)
  PROVE  FirstNext
  <1>0. todo \in Seq(Call)
    BY DEF TypeInv
  <1>1. /\ todo # <<>> /\ Caught(e, g) /\ IsHold(todo[1]) /\ Catching /\ 1 \in Here
    BY Heads DEF HoldCaught, Caught
  <1>2. slots' = slots /\ setup' = setup
    BY DEF KeycodeRaised, input
  <1>3. PICK lo \in {0, 1} : lo = 0
    OBVIOUS
  <1>4. PICK d \in Int : d = 0 - 1
    OBVIOUS
  <1>5. Moves(d, lo, {})
    BY <1>3, <1>4 DEF HoldCaught, Keeps
  <1>6. HoldWeight = 1
    BY <1>1 DEF HoldWeight
  <1>7. HoldWeight' = 0
    <2>1. PICK q : Splices(q) /\ Len(q) = 0
      BY KeycodeCalls
    <2>2. ASSUME NEW j \in Here', IsHold(todo'[j]) PROVE FALSE
      <3>1. j > Len(q)
        BY <2>1 DEF Here
      <3>2. PICK i : i = j - (Len(q) - 1)
        OBVIOUS
      <3>3. i \in Here /\ i > 1 /\ todo'[j] = todo[i]
        BY <1>0, <2>1, <3>1, <3>2, Splicing
      <3>4. i = 1
        BY <1>1, <2>2, <3>3 DEF HoldOnce
      <3> QED
        BY <3>3, <3>4
    <2> QED
      BY <2>2 DEF HoldWeight
  <1>8. ASSUME NEW j \in Here', First(j)' PROVE RoomNext(todo'[j].from, 1 + Load(j)')
    <2>1. PICK b \in Here : FirstWas(b, j, d, lo, {})
      BY <1>5, <1>8, FirstMoves
    <2>2. First(b) /\ ((\E i \in Here' : i < j /\ Weighs(todo'[i])) => Weight(b) = 1)
      BY <1>3, <2>1, FirstStill
    <2>3. Weight(j)' <= Weight(b)
      <3>1. CASE Weight(j)' = 0
        BY <3>1, Weights
      <3>2. CASE Weight(j)' # 0
        <4>1. \E i \in Here' : i < j /\ Weighs(todo'[i])
          BY <3>2 DEF Weight
        <4> QED
          BY <2>2, <4>1, WeightsNext
      <3> QED
        BY <3>1, <3>2
    <2>4. Load(j)' < Load(b)
      BY <1>2, <1>6, <1>7, <2>3, Lighter, RetroFewer, SlotsWait
    <2> QED
      BY <1>1, <2>1, <2>2, <2>4, FirstCaught DEF FirstWas
  <1> QED
    BY <1>8 DEF FirstNext

\* With nothing undecided, all below the first replay is empty.
LEMMA EmptyBelow ==
  ASSUME TypeInv, Cover, RoomInv, undecided = 0, NEW b \in Here, First(b), NEW k \in Places, k < todo[b].from
  PROVE  captured[k] = None
  <1>1. SUFFICES ASSUME captured[k] # None PROVE FALSE
    OBVIOUS
  <1>2. PICK j \in Here : IsReplay(todo[j]) /\ todo[j].from <= k
    BY <1>1 DEF Cover
  <1>3. todo[b].from \in Nat /\ todo[j].from \in Nat /\ k \in Nat
    BY <1>2, ReplayType DEF First, Places
  <1>4. todo[b].from <= todo[j].from
    BY <1>2, <1>3, FirstLeast
  <1> QED
    BY ONLY <1>2, <1>3, <1>4, k < todo[b].from

\* A hold-tap is undecided from now on.
LEMMA FirstNewSlot ==
  ASSUME TypeInv, Shape, Cover, RoomInv, BindingPressed, NEW i, NEW d, NewSlot(i, d)
  PROVE  FirstNext
  <1>1. /\ todo # <<>> /\ Weighs(todo[1]) /\ captured' = captured /\ Moves(d, 1, {}) /\ undecided = 0
        /\ IsEvent(todo[1]) /\ todo[1].down /\ Past(todo[1]) /\ 1 \in Here
    BY Heads DEF NewSlot, Delivery, AtKeymap, Weighs, Past
  <1>2. PICK lo \in {0, 1} : lo = 1
    OBVIOUS
  <1>3. Moves(d, lo, {})
    BY <1>1, <1>2
  <1>4. ASSUME NEW j \in Here', First(j)' PROVE RoomNext(todo'[j].from, 1 + Load(j)')
    <2>1. PICK b \in Here : FirstWas(b, j, d, lo, {})
      BY <1>3, <1>4, FirstMoves
    <2>2. First(b) /\ \A l \in Here' : l < j => ~Weighs(todo'[l])
      BY <1>1, <1>2, <2>1, HeadWeighs
    <2>3. Weight(j)' = 0
      BY <2>2 DEF Weight
    <2>4. PICK rn \in {0, 1}, r \in {0, 1} : rn = RetroWeight' /\ r = RetroWeight /\ rn <= r
      BY Weights, WeightsNext, NewSlotWaits, RetroFewer
    <2>5. Load(j)' = rn
      <3>1. Load(j)' = 0 + 0 + rn
        BY <2>3, <2>4, NewSlotHolds DEF Load
      <3> QED
        BY <3>1
    <2>6. PICK m : m = todo[b].from
      OBVIOUS
    <2>7. m \in Nat /\ m <= MaxCaptured + 1 /\ todo'[j].from = m /\ 1 < b
      BY <1>2, <2>1, <2>6 DEF FirstWas
    <2>8. m > 1 /\ (Waiting # {} => m > 2)
      BY <1>1, <2>2, <2>6, <2>7 DEF RoomInv, RoomDown
    <2>9. 1 + rn < m
      <3>1. CASE rn = 0
        BY <2>7, <2>8, <3>1
      <3>2. CASE rn = 1
        <4>1. Waiting # {}
          BY <2>4, <3>2 DEF RetroWeight
        <4> QED
          BY <2>7, <2>8, <3>2, <4>1
      <3> QED
        BY <3>1, <3>2
    <2>10. ASSUME NEW k \in m - (1 + rn) .. m - 1 PROVE captured'[k] = None
      <3>1. k \in Places /\ k < m
        BY <2>7, <2>9, HoldTapAssumption DEF Places
      <3> QED
        BY <1>1, <2>2, <2>6, <3>1, EmptyBelow
    <2> QED
      BY <2>5, <2>7, <2>9, <2>10 DEF RoomNext
  <1> QED
    BY <1>4 DEF FirstNext

\* A replay as the first call: it is the first, with nothing before it.
LEMMA HeadReplay ==
  ASSUME TypeInv, Shape, todo # <<>>, IsReplay(todo[1])
  PROVE  /\ 1 \in Here /\ First(1) /\ Weight(1) = 0 /\ HoldWeight = 0 /\ Load(1) = RetroWeight
         /\ ~IsKeycode(todo[1])
  <1>1. /\ 1 \in Here /\ \A j \in Here : j \in Nat /\ j >= 1
    BY Heads
  <1>2. First(1) /\ Weight(1) = 0
    <2>1. \A k \in Here : ~(k < 1)
      BY <1>1
    <2> QED
      BY <2>1 DEF First, NoReplay, Weight
  <1>3. ~IsKeycode(todo[1])
    BY DEF IsReplay, IsKeycode
  <1>4. ASSUME NEW j \in Here, IsHold(todo[j]) PROVE FALSE
    <2>1. IsKeycode(todo[j]) /\ (j = 1 \/ 1 < j)
      BY <1>1, <1>4 DEF IsHold
    <2> QED
      BY <1>1, <1>3, <2>1 DEF Shape
  <1>5. HoldWeight = 0
    BY <1>4 DEF HoldWeight
  <1>6. Load(1) = RetroWeight
    <2>1. PICK r \in {0, 1} : r = RetroWeight
      BY Weights
    <2>2. Load(1) = 0 + 0 + r
      BY <1>2, <1>5, <2>1 DEF Load
    <2> QED
      BY <2>1, <2>2
  <1> QED
    BY <1>1, <1>2, <1>3, <1>5, <1>6

\* The replay that is next takes the place of one that stops.
LEMMA FirstStops ==
  ASSUME TypeInv, Shape, Cover, RoomInv, ReplayNext, Stops, undecided' # 0
  PROVE  FirstNext
  <1>0. todo \in Seq(Call) /\ RoomPairs /\ RoomFirst
    BY DEF TypeInv, RoomInv
  <1>1. /\ todo # <<>> /\ IsReplay(todo[1]) /\ captured' = captured /\ undecided # 0
        /\ slots' = slots /\ setup' = setup
    BY DEF Stops, SameLine, ReplayNext, input
  <1>2. /\ 1 \in Here /\ First(1) /\ Load(1) = RetroWeight /\ ~IsKeycode(todo[1])
    BY <1>1, HeadReplay
  <1>3. HoldWeight' = 0
    <2>1. CASE \E q : Splices(q) /\ Len(q) = 0
      <3>1. PICK q : Splices(q) /\ Len(q) = 0
        BY <2>1
      <3>2. \A j \in 1 .. Len(q) : ~IsHold(q[j])
        BY <3>1
      <3> QED
        BY <1>0, <1>2, <3>1, <3>2, HoldsGone
    <2>2. CASE /\ ~(todo[1].from = 1 /\ undecided # 0) /\ todo[1].from \in Places
               /\ captured[todo[1].from] # None
      BY <2>2, HoldTapAssumption DEF Stops, Places
    <2> QED
      BY <2>1, <2>2, ReplayCalls
  <1>4. PICK lo \in {0, 1} : lo = 1
    OBVIOUS
  <1>5. PICK d \in Int : d = 0 - 1
    OBVIOUS
  <1>6. Moves(d, lo, {})
    BY <1>4, <1>5 DEF Stops, Drops
  <1>7. PICK r \in {0, 1} : r = RetroWeight /\ r = RetroWeight'
    BY <1>1, SlotsWait, Weights
  <1>8. PICK m \in Nat : m = todo[1].from
    BY <1>1, <1>2, ReplayType
  <1>9. 1 + r < m /\ \A k \in m - (1 + r) .. m - 1 : captured[k] = None
    <2>1. Room(m, 1 + r)
      BY <1>0, <1>1, <1>2, <1>7, <1>8 DEF RoomFirst
    <2> QED
      BY <2>1 DEF Room
  <1>10. ASSUME NEW j \in Here', First(j)' PROVE RoomNext(todo'[j].from, 1 + Load(j)')
    <2>1. PICK b \in Here : FirstWas(b, j, d, lo, {})
      BY <1>6, <1>10, FirstMoves
    <2>2. PICK l : l = todo[b].from
      OBVIOUS
    <2>3. /\ l \in Nat /\ l <= MaxCaptured + 1 /\ todo'[j].from = l /\ 1 < b /\ b \in Nat
          /\ IsReplay(todo[b]) /\ NoReplay(1, b)
      BY <1>4, <2>1, <2>2 DEF FirstWas
    <2>4. m < l
      BY <1>0, <1>1, <1>2, <1>8, <2>2, <2>3 DEF RoomPairs
    <2>5. PICK w \in {0, 1} : w = Weight(j)'
      BY WeightsNext
    <2>6. Load(j)' = w + r
      <3>1. Load(j)' = w + 0 + r
        BY <1>3, <1>7, <2>5 DEF Load
      <3> QED
        BY <3>1
    <2>7. ASSUME w = 1 PROVE m + 2 <= l
      <3>1. \E i \in Here' : i < j /\ Weighs(todo'[i])
        BY <2>5, <2>7 DEF Weight
      <3>2. PICK v \in Here : 1 < v /\ v < b /\ Weighs(todo[v])
        BY <1>4, <2>1, <3>1 DEF FirstWas
      <3> QED
        BY <1>0, <1>1, <1>2, <1>8, <2>2, <2>3, <3>2 DEF RoomPairs
    <2>8. ASSUME NEW k \in Places, m <= k, k < l PROVE captured[k] = None
      <3>1. SUFFICES ASSUME captured[k] # None PROVE FALSE
        OBVIOUS
      <3>2. ~Filled(m, k) /\ ~Filled(1, k)
        BY <1>8, <2>8, StopsAtGap
      <3>3. PICK i \in Here : IsReplay(todo[i]) /\ todo[i].from <= k /\ Filled(todo[i].from, k)
        BY <3>1, <3>2 DEF Cover
      <3>4. i # 1
        BY <1>8, <3>2, <3>3
      <3>5. i \in Nat /\ i >= 1 /\ todo[i].from \in Nat /\ k \in Nat
        BY <3>3, ReplayType DEF Places
      <3>6. 1 < i
        BY ONLY <3>4, <3>5
      <3>7. ~(i < b)
        BY <2>3, <3>3, <3>6 DEF NoReplay
      <3>8. l <= todo[i].from
        <4>1. CASE i = b
          BY <2>2, <2>3, <4>1
        <4>2. CASE b < i
          <5>1. l < todo[i].from
            BY <1>0, <2>2, <2>3, <3>3, <4>2 DEF RoomPairs
          <5> QED
            BY <2>3, <3>5, <5>1
        <4> QED
          BY <2>3, <3>5, <3>7, <4>1, <4>2
      <3> QED
        BY ONLY <2>3, <2>8, <3>3, <3>5, <3>8
    <2>9. PICK a \in Nat : a = 1 + (w + r)
      OBVIOUS
    <2>10. a < l /\ l - a >= m - (1 + r)
      <3>1. CASE w = 0
        BY ONLY <1>9, <2>3, <2>4, <2>9, <3>1, m \in Nat, r \in {0, 1}
      <3>2. CASE w = 1
        <4>1. m + 2 <= l
          BY <2>7, <3>2
        <4> QED
          BY ONLY <1>9, <2>3, <2>9, <3>2, <4>1, m \in Nat, r \in {0, 1}
      <3> QED
        BY <3>1, <3>2
    <2>11. ASSUME NEW k \in l - a .. l - 1 PROVE captured'[k] = None
      <3>1. k \in Int /\ k >= m - (1 + r) /\ k < l /\ k >= 1
        BY ONLY <2>3, <2>10, k \in l - a .. l - 1, a \in Nat, m \in Nat, r \in {0, 1}
      <3>2. k \in Places
        BY <2>3, <3>1, HoldTapAssumption DEF Places
      <3>3. CASE m <= k
        BY <1>1, <2>8, <3>1, <3>2, <3>3
      <3>4. CASE ~(m <= k)
        BY <1>1, <1>9, <3>1, <3>4
      <3> QED
        BY <3>3, <3>4
    <2>12. RoomNext(l, a)
      BY <2>10, <2>11 DEF RoomNext
    <2>13. 1 + Load(j)' = a
      BY <2>6, <2>9
    <2> QED
      BY <2>3, <2>12, <2>13
  <1> QED
    BY <1>10 DEF FirstNext

\* One that is raised leaves its place empty.
LEMMA FirstRaises ==
  ASSUME TypeInv, Shape, RoomInv, ReplayNext, undecided' # 0, NEW n, Raises(n)
  PROVE  FirstNext
  <1>0. todo \in Seq(Call) /\ RoomFirst
    BY DEF TypeInv, RoomInv
  <1>1. /\ todo # <<>> /\ IsReplay(todo[1]) /\ n = todo[1].from /\ n \in Places /\ captured[n] # None
        /\ captured' = [captured EXCEPT ![n] = None] /\ undecided # 0
        /\ todo'[1] = captured[n] /\ 2 \in Here' /\ todo'[2] = Replay(n + 1)
        /\ slots' = slots /\ setup' = setup /\ n \in Nat
    BY DEF Raises, SameLine, ReplayNext, input, Places
  <1>2. /\ 1 \in Here /\ First(1) /\ Load(1) = RetroWeight /\ ~IsKeycode(todo[1])
    BY <1>1, HeadReplay
  <1>3. PICK r \in {0, 1} : r = RetroWeight /\ r = RetroWeight'
    BY <1>1, SlotsWait, Weights
  <1>4. 1 + r < n /\ \A k \in n - (1 + r) .. n - 1 : captured[k] = None
    <2>1. Room(n, 1 + r)
      BY <1>0, <1>1, <1>2, <1>3 DEF RoomFirst
    <2> QED
      BY <2>1 DEF Room
  <1>5. captured[n].op \in {"position", "keycode"}
    <2>1. captured[n] \in {None} \cup PositionEvent({"position"}) \cup KeycodeEvent
      BY <1>1, TypeFacts DEF CapturedType
    <2> QED
      BY <1>1, <2>1 DEF PositionEvent, KeycodeEvent
  <1>6. PICK w \in {0, 1}, h \in {0, 1} : w = Weight(2)' /\ h = HoldWeight'
    BY WeightsNext
  <1>7. w + h <= 1
    <2>1. CASE captured[n].op = "position"
      <3>1. PICK q : /\ Splices(q) /\ Len(q) = 2
                     /\ q[1] = captured[n] /\ q[2] = Replay(n + 1)
        <4>1. ~((todo[1].from = 1 /\ undecided # 0) \/ todo[1].from > MaxCaptured \/ captured[todo[1].from] = None)
          BY <1>1, <1>4, HoldTapAssumption DEF Places
        <4> QED
          BY <1>1, <4>1, ReplayCalls
      <3>2. ~IsHold(q[1]) /\ ~IsHold(q[2]) /\ \A j \in 1 .. Len(q) : j = 1 \/ j = 2
        BY <2>1, <3>1 DEF IsHold, IsKeycode, Replay
      <3>3. HoldWeight' = 0
        BY <1>0, <1>2, <3>1, <3>2, HoldsGone
      <3> QED
        BY <1>6, <3>3
    <2>2. CASE captured[n].op = "keycode"
      <3>1. \A i \in Here' : i < 2 => i = 1
        BY DEF Here
      <3>2. ~Weighs(todo'[1])
        BY <1>1, <2>2 DEF Weighs, IsEvent, IsEnding, Moving
      <3>3. Weight(2)' = 0
        BY <3>1, <3>2 DEF Weight
      <3> QED
        BY <1>6, <3>3
    <2> QED
      BY <1>5, <2>1, <2>2
  <1>8. PICK a \in Nat : a = 1 + Load(2)'
    BY LoadsNext
  <1>9. a <= 2 + r
    <2>1. Load(2)' = w + h + r
      BY <1>3, <1>6 DEF Load
    <2> QED
      BY ONLY <1>7, <1>8, <2>1, w \in {0, 1}, h \in {0, 1}, r \in {0, 1}
  <1>10. RoomNext(n + 1, a)
    <2>1. a < n + 1
      BY <1>1, <1>4, <1>9
    <2>2. ASSUME NEW k \in (n + 1) - a .. (n + 1) - 1 PROVE captured'[k] = None
      <3>0. n \in Nat /\ n <= MaxCaptured /\ MaxCaptured \in Nat
        BY <1>1, HoldTapAssumption DEF Places
      <3>1. k \in Int /\ k >= n - (1 + r) /\ k <= n /\ k >= 1
        BY ONLY <1>9, <2>1, <3>0, k \in (n + 1) - a .. (n + 1) - 1, a \in Nat, r \in {0, 1}
      <3>2. k \in Places
        BY ONLY <3>0, <3>1 DEF Places
      <3>3. captured \in [Places -> {None} \cup PositionEvent({"position"}) \cup KeycodeEvent]
        BY TypeFacts DEF CapturedType
      <3>4. CASE k = n
        BY <1>1, <3>2, <3>3, <3>4
      <3>5. CASE k # n
        <4>1. captured[k] = None
          BY <1>1, <1>4, <3>1, <3>5
        <4> QED
          BY <1>1, <3>2, <3>3, <3>5, <4>1
      <3> QED
        BY <3>4, <3>5
    <2> QED
      BY <2>1, <2>2 DEF RoomNext
  <1>11. ASSUME NEW j \in Here', First(j)' PROVE j = 2
    <2>1. IsReplay(todo'[j]) /\ \A k \in Here' : 0 < k /\ k < j => ~IsReplay(todo'[k])
      BY <1>11 DEF First, NoReplay
    <2>2. IsReplay(todo'[2])
      BY <1>1 DEF Replay, IsReplay
    <2>3. ~IsReplay(todo'[1])
      BY <1>1, <1>5 DEF IsReplay
    <2>4. j # 1 /\ ~(2 < j) /\ j \in Nat /\ j >= 1
      BY <1>1, <2>1, <2>2, <2>3 DEF Here
    <2> QED
      BY <2>4
  <1>12. todo'[2].from = n + 1
    BY <1>1 DEF Replay
  <1> QED
    BY <1>8, <1>10, <1>11, <1>12 DEF FirstNext

\* While nothing is undecided, the place of the first replay is above the gaps that a
\* press which becomes undecided will need.
DownNext ==
  \A i, j \in Here' : First(j)' /\ i < j /\ IsEvent(todo'[i]) /\ todo'[i].down =>
    todo'[j].from > 1 /\ (Past(todo'[i]) /\ Waiting' # {} => todo'[j].from > 2)

LEMMA DownIs ==
  ASSUME undecided' = 0 => DownNext
  PROVE  RoomDown'
  BY DEF DownNext, RoomDown

LEMMA PassingWaits ==
  ASSUME TypeInv, Passing
  PROVE  WaitingFewer
  <1>1. CASE Interrupt
    BY <1>1, InterruptWaits
  <1>2. CASE Listen
    <2>1. setup' = setup
      BY <1>2 DEF Listen, input
    <2>2. \A s \in Slot : slots'[s].key = slots[s].key /\ slots'[s].status = slots[s].status
      <3>1. slots' = slots \/ \E f : slots' = [slots EXCEPT ![undecided].first = f]
        BY <1>2 DEF Listen
      <3> QED
        BY <3>1, TypeFacts DEF Row
    <2> QED
      BY <2>1, <2>2, FewerWait
  <1>3. CASE Capture \/ DecideNothing \/ StartTimer \/ KeycodeRaised
    <2>1. setup' = setup /\ slots' = slots
      BY <1>3 DEF Capture, DecideNothing, StartTimer, KeycodeRaised, input, code
    <2> QED
      BY <2>1, SlotsWait
  <1> QED
    BY <1>1, <1>2, <1>3 DEF Passing

LEMMA DownRolls ==
  ASSUME TypeInv, Shape, OwedInv, LineInv, EndingInv, SlotsInv, RoomDown, Passing, undecided' = 0,
         NEW d, Rolls(d)
  PROVE  DownNext
  <1>1. PICK lo \in {0, 1} : lo = 0
    OBVIOUS
  <1>2. Moves(d, lo, {}) /\ undecided = 0
    BY <1>1 DEF Rolls, Keeps, SameLine
  <1>3. ASSUME NEW i \in Here', NEW j \in Here', First(j)', i < j, IsEvent(todo'[i]), todo'[i].down
        PROVE  todo'[j].from > 1 /\ (Past(todo'[i]) /\ Waiting' # {} => todo'[j].from > 2)
    <2>1. PICK b \in Here : FirstWas(b, j, d, lo, {})
      BY <1>2, <1>3, FirstMoves
    <2>2. First(b) /\ todo'[j].from = todo[b].from
      BY <1>1, <2>1, FirstStill DEF FirstWas
    <2>3. PICK w \in Here : w \in Nat /\ w < b /\ Like(todo'[i], todo[w])
      BY <1>3, <2>1 DEF FirstWas, Weighs
    <2>4. IsEvent(todo[w]) /\ todo[w].down
      BY <1>3, <2>3, LikeKinds
    <2>5. todo[b].from > 1 /\ (Past(todo[w]) /\ Waiting # {} => todo[b].from > 2)
      BY <1>2, <2>2, <2>3, <2>4 DEF RoomDown
    <2>6. ASSUME Past(todo'[i]), Waiting' # {} PROVE Past(todo[w]) /\ Waiting # {}
      <3>1. Waiting # {}
        BY <2>6, PassingWaits DEF WaitingFewer
      <3>2. ASSUME ~Past(todo[w]) PROVE FALSE
        <4>1. todo[w].op = "position"
          BY <2>4, <3>2 DEF IsEvent, Past, Moving
        <4>2. w = 1 /\ IsEvent(todo[1]) /\ todo[1].down /\ todo[1].op = "position"
          BY <2>4, <4>1 DEF Shape
        <4>3. todo # <<>> /\ Head(todo) = todo[1]
          <5>1. todo \in Seq(Call) /\ todo # <<>>
            BY DEF Passing, Interrupt, Listen, Capture, DecideNothing, StartTimer, KeycodeRaised, Quiet, TypeInv
          <5> QED
            BY <5>1, Heads
        <4>4. Interrupt
          BY <4>2, <4>3 DEF Passing, Listen, Capture, DecideNothing, StartTimer, KeycodeRaised
        <4>5. PICK s \in Waiting' : s \in InUse /\ slots[s].key = todo[1].key
          BY <2>6, <4>4, InterruptWaits
        <4> QED
          BY <4>2, <4>3, <4>5, NoSlot
      <3> QED
        BY <3>1, <3>2
    <2> QED
      BY <2>2, <2>5, <2>6
  <1> QED
    BY <1>3 DEF DownNext

\* The first call weighs, and goes: there is no event before the first replay.
LEMMA DownGoes ==
  ASSUME TypeInv, Shape, todo # <<>>, Weighs(todo[1]), NEW d, NEW new, Moves(d, 1, new),
         \A i \in new : ~IsReplay(todo'[i]) /\ ~IsEvent(todo'[i])
  PROVE  DownNext
  <1>1. PICK lo \in {0, 1} : lo = 1
    OBVIOUS
  <1>2. Moves(d, lo, new)
    BY <1>1
  <1>3. ASSUME NEW i \in Here', NEW j \in Here', First(j)', i < j, IsEvent(todo'[i]) PROVE FALSE
    <2>1. j \notin new /\ i \notin new
      BY <1>3 DEF First
    <2>2. PICK b \in Here : FirstWas(b, j, d, lo, new)
      BY <1>2, <1>3, <2>1, FirstMoves
    <2>3. ~Weighs(todo'[i])
      BY <1>1, <1>3, <2>1, <2>2, HeadWeighs
    <2> QED
      BY <1>3, <2>3 DEF Weighs
  <1> QED
    BY <1>3 DEF DownNext

LEMMA DownSteps ==
  ASSUME TypeInv, Shape
  PROVE  /\ \A d : Frees(d) => DownNext
         /\ \A d : Nothing(d) => DownNext
         /\ \A i, d : Ends(i, d) => DownNext
  <1>1. ASSUME NEW d, Frees(d) PROVE DownNext
    <2>1. /\ todo # <<>> /\ Weighs(todo[1]) /\ Moves(d, 1, {})
      BY <1>1 DEF Frees, Weighs, Drops
    <2> QED
      BY <2>1, DownGoes
  <1>2. ASSUME NEW d, Nothing(d) PROVE DownNext
    <2>1. /\ todo # <<>> /\ Weighs(todo[1]) /\ Moves(d, 1, {})
      BY <1>2 DEF Nothing, Delivery, AtKeymap, Weighs
    <2> QED
      BY <2>1, DownGoes
  <1>3. ASSUME NEW i, NEW d, Ends(i, d) PROVE DownNext
    <2>1. PICK new : new = {d + 1}
      OBVIOUS
    <2>2. /\ todo # <<>> /\ Weighs(todo[1]) /\ Moves(d, 1, new)
      BY <1>3, <2>1 DEF Ends, Delivery, AtKeymap, Weighs
    <2>3. ~IsReplay(todo'[d + 1]) /\ ~IsEvent(todo'[d + 1])
      BY <1>3 DEF Ends, Ending, IsReplay, IsEvent, Moving
    <2> QED
      BY <2>1, <2>2, <2>3, DownGoes
  <1> QED
    BY <1>1, <1>2, <1>3

LEMMA DownStops ==
  ASSUME TypeInv, RoomPairs, Stops
  PROVE  DownNext
  <1>1. PICK lo \in {0, 1} : lo = 1
    OBVIOUS
  <1>2. PICK d \in Int : d = 0 - 1
    OBVIOUS
  <1>3. Moves(d, lo, {}) /\ IsReplay(todo[1]) /\ 1 \in Here
    BY <1>1, <1>2, Heads DEF Stops, Drops
  <1>4. ASSUME NEW i \in Here', NEW j \in Here', First(j)', i < j, IsEvent(todo'[i])
        PROVE  todo'[j].from > 2
    <2>1. PICK b \in Here : FirstWas(b, j, d, lo, {})
      BY <1>3, <1>4, FirstMoves
    <2>2. PICK w \in Here : 1 < w /\ w < b /\ Weighs(todo[w])
      BY <1>1, <1>4, <2>1 DEF FirstWas, Weighs
    <2>3. /\ IsReplay(todo[b]) /\ todo'[j].from = todo[b].from /\ todo[b].from \in Nat
          /\ todo[1].from \in Nat /\ todo[1].from >= 1
      BY <1>3, <2>1, ReplayType DEF FirstWas
    <2>4. todo[1].from + 2 <= todo[b].from
      BY <1>3, <2>2, <2>3 DEF RoomPairs
    <2> QED
      BY <2>3, <2>4
  <1>5. ASSUME NEW i \in Here', NEW j \in Here', First(j)', i < j, IsEvent(todo'[i])
        PROVE  todo'[j].from > 1
    <2>1. IsReplay(todo'[j]) /\ todo'[j].from > 2
      BY <1>4, <1>5 DEF First
    <2>2. PICK b \in Here : FirstWas(b, j, d, lo, {})
      BY <1>3, <1>5, FirstMoves
    <2>3. todo'[j].from \in Nat
      BY <2>2 DEF FirstWas
    <2> QED
      BY <2>1, <2>3
  <1> QED
    BY <1>4, <1>5 DEF DownNext

LEMMA DownRaises ==
  ASSUME TypeInv, NEW n, Raises(n)
  PROVE  DownNext
  <1>1. /\ n \in Nat /\ n >= 1 /\ n \in Places /\ captured[n] # None
        /\ todo'[1] = captured[n] /\ 1 \in Here' /\ 2 \in Here' /\ todo'[2] = Replay(n + 1)
    BY DEF Raises, Places
  <1>2. captured[n].op \in {"position", "keycode"}
    <2>1. captured[n] \in {None} \cup PositionEvent({"position"}) \cup KeycodeEvent
      BY <1>1, TypeFacts DEF CapturedType
    <2> QED
      BY <1>1, <2>1 DEF PositionEvent, KeycodeEvent
  <1>3. ASSUME NEW j \in Here', First(j)' PROVE j = 2
    <2>1. IsReplay(todo'[j]) /\ \A k \in Here' : 0 < k /\ k < j => ~IsReplay(todo'[k])
      BY <1>3 DEF First, NoReplay
    <2>2. IsReplay(todo'[2])
      BY <1>1 DEF Replay, IsReplay
    <2>3. ~IsReplay(todo'[1])
      BY <1>1, <1>2 DEF IsReplay
    <2>4. j # 1 /\ ~(2 < j) /\ j \in Nat /\ j >= 1
      BY <1>1, <2>1, <2>2, <2>3 DEF Here
    <2> QED
      BY <2>4
  <1>4. todo'[2].from = n + 1 /\ n + 1 > 1
    BY <1>1 DEF Replay
  <1>5. \A i \in Here' : i < 2 => ~Past(todo'[i])
    <2>1. \A i \in Here' : i < 2 => i = 1
      BY DEF Here
    <2> QED
      BY <1>1, <1>2, <2>1 DEF Past
  <1> QED
    BY <1>3, <1>4, <1>5 DEF DownNext

LEMMA DownDecided ==
  ASSUME TypeInv, NEW p, Decided(p)
  PROVE  DownNext
  <1>1. p \in Nat /\ p >= 1 /\ p \in Here' /\ todo'[p] = Replay(1)
    BY DEF Decided, Here
  <1>2. IsReplay(todo'[p]) /\ ~IsEvent(todo'[p])
    BY <1>1 DEF Replay, IsReplay, IsEvent, Moving
  <1>3. ASSUME NEW i \in Here', NEW j \in Here', First(j)', i < j, IsEvent(todo'[i]) PROVE FALSE
    <2>1. i # p /\ Heavy(todo'[i]) /\ i \in Nat /\ j \in Nat
      BY <1>2, <1>3 DEF Heavy, Here
    <2>2. i - (p - 1) \in Here
      BY <2>1 DEF Decided, Moves
    <2>3. i - (p - 1) >= 1
      BY <2>2 DEF Here
    <2>4. p < i /\ p < j /\ 0 < p
      BY ONLY <1>1, <1>3, <2>1, <2>3
    <2> QED
      BY <1>1, <1>2, <1>3, <2>4 DEF First, NoReplay
  <1> QED
    BY <1>3 DEF DownNext
-----------------------------------------------------------------------------
(* Every step keeps the invariant *)

\* The calls stay calls.
LEMMA HandleType ==
  ASSUME TypeInv, EndingInv, KeyUpInv, Unlingering, Handle
  PROVE  todo' \in Seq(Call)
  <1>0. todo \in Seq(Call)
    BY DEF TypeInv
  <1>1. ASSUME NEW q, Splices(q) PROVE todo' \in Seq(Call)
    BY <1>0, <1>1, Splicing
  <1>2. ASSUME NEW q, NEW o, Onward(q, o) PROVE todo' \in Seq(Call)
    BY <1>1, <1>2 DEF Onward
  <1>3. CASE Interrupt
    BY <1>2, <1>3, InterruptCalls
  <1>4. CASE Listen
    BY <1>2, <1>4, ListenCalls
  <1>5. CASE Capture
    BY <1>1, <1>2, <1>5, CaptureCalls
  <1>6. CASE DecideNothing
    BY <1>1, <1>6, DecideNothingCalls
  <1>7. CASE DecideFinally
    BY <1>1, <1>7, DecideFinallyCalls
  <1>8. CASE ReplayNext
    BY <1>1, <1>8, ReplayCalls
  <1>9. CASE PlainKey
    BY <1>1, <1>9, PlainKeyCalls
  <1>10. CASE BindingPressed
    BY <1>1, <1>10, BindingPressedCalls
  <1>11. CASE StartTimer
    BY <1>1, <1>11, StartTimerCalls
  <1>12. CASE BindingReleased
    BY <1>1, <1>12, BindingReleasedCalls
  <1>13. CASE Release
    BY <1>1, <1>13, ReleaseHead, ReleaseCalls
  <1>14. CASE KeycodeRaised
    BY <1>1, <1>14, KeycodeCalls
  <1> QED
    BY <1>3, <1>4, <1>5, <1>6, <1>7, <1>8, <1>9, <1>10, <1>11, <1>12, <1>13, <1>14 DEF Handle

\* The part of the invariant that goes by the kind of the step.
Ordered ==
  Cover /\ OwedInv /\ LineInv /\ TurnsInv /\ RoomInv /\ EndingInv /\ SlotsInv

LEMMA RoomWhole ==
  ASSUME RoomPairs', undecided' # 0 => FirstNext, undecided' = 0 => DownNext
  PROVE  RoomInv'
  BY FirstIs, DownIs DEF RoomInv

LEMMA CalmThree ==
  ASSUME Good, todo' \in Seq(Call), NEW d, Calm(d)
  PROVE  OwedInv' /\ LineInv' /\ TurnsInv'
  <1>1. todo \in Seq(Call) /\ OwedInv /\ LineInv /\ TurnsInv
    BY DEF Good, TypeInv
  <1> QED
    BY <1>1, CalmOwed, CalmLine, CalmTurns

LEMMA GoodParts ==
  ASSUME Good
  PROVE  /\ TypeInv /\ Shape /\ Cover /\ OwedInv /\ LineInv /\ TurnsInv /\ RoomInv /\ HoldOnce
         /\ EndingInv /\ KeyUpInv /\ SlotsInv /\ KeymapInv /\ WaitingInv
         /\ RoomPairs /\ RoomFirst /\ RoomDown
  BY DEF Good, RoomInv

LEMMA OrderedPassing ==
  ASSUME Good, Passing, ~Lost', todo' \in Seq(Call)
  PROVE  Ordered'
  <1>1. PICK d : Rolls(d)
    BY GoodParts, PassingRolls
  <1>2. Moves(d, 0, {}) /\ captured' = captured /\ undecided' = undecided
    BY <1>1 DEF Rolls, Keeps, SameLine
  <1>3. Cover'
    <2>1. ReplaysStay
      BY <1>2, Staying
    <2> QED
      BY <1>2, <2>1, GoodParts, CoverStays
  <1>4. OwedInv' /\ LineInv' /\ TurnsInv'
    <2>1. Calm(d)
      BY <1>1, GoodParts, CalmSteps
    <2> QED
      BY <2>1, CalmThree
  <1>5. RoomInv'
    <2>1. RoomPairs'
      BY <1>1, GoodParts, PairsSteps
    <2>2. undecided' # 0 => FirstNext
      BY <1>1, GoodParts, FirstRolls
    <2>3. undecided' = 0 => DownNext
      BY <1>1, GoodParts, DownRolls
    <2> QED
      BY <2>1, <2>2, <2>3, RoomWhole
  <1>6. EndingInv'
    BY <1>1, GoodParts, EndingSteps
  <1>7. SlotsInv'
    BY <1>1, GoodParts, SlotsSteps
  <1> QED
    BY <1>3, <1>4, <1>5, <1>6, <1>7 DEF Ordered

LEMMA OrderedTaken ==
  ASSUME Good, Capture, ~(UNCHANGED captured), ~Lost', todo' \in Seq(Call)
  PROVE  Ordered'
  <1>1. PICK e, g : Taken(e, g)
    BY GoodParts, CaptureTakes
  <1>2. Moves(0, 1, {}) /\ IsEvent(todo[1]) /\ Caught(e, g) /\ undecided' # 0
    BY <1>1 DEF Taken, Drops, Caught, SameLine
  <1>3. Cover'
    <2>1. ~IsReplay(todo[1])
      BY <1>2 DEF IsReplay, IsEvent, Moving
    <2>2. ReplaysStay
      BY <1>2, <2>1, Staying
    <2> QED
      BY <1>2, <2>2, GoodParts, CoverCaught
  <1>4. OwedInv'
    BY <1>1, GoodParts, TakenOwed
  <1>5. LineInv'
    BY <1>1, GoodParts, TakenLine
  <1>6. TurnsInv'
    <2>1. owed' = owed /\ down' = down
      BY <1>2 DEF Caught, SameLine
    <2> QED
      BY <2>1, GoodParts DEF TurnsInv
  <1>7. RoomInv'
    <2>1. RoomPairs'
      BY <1>1, GoodParts, PairsSteps
    <2>2. FirstNext
      BY <1>1, <1>2, GoodParts, FirstTaken
    <2> QED
      BY <1>2, <2>1, <2>2, RoomWhole
  <1>8. EndingInv'
    BY <1>1, GoodParts, EndingSteps
  <1>9. SlotsInv'
    BY <1>1, GoodParts, SlotsSteps
  <1> QED
    BY <1>3, <1>4, <1>5, <1>6, <1>7, <1>8, <1>9 DEF Ordered

LEMMA OrderedHold ==
  ASSUME Good, KeycodeRaised, ~(UNCHANGED captured), ~Lost', todo' \in Seq(Call)
  PROVE  Ordered'
  <1>1. PICK e, g : HoldCaught(e, g)
    BY GoodParts, KeycodeCaught
  <1>2. Moves(0 - 1, 0, {}) /\ Caught(e, g) /\ undecided' # 0
    BY <1>1 DEF HoldCaught, Keeps, Caught, SameLine
  <1>3. Cover'
    <2>1. ReplaysStay
      BY <1>2, Staying
    <2> QED
      BY <1>2, <2>1, GoodParts, CoverCaught
  <1>4. OwedInv' /\ LineInv' /\ TurnsInv'
    <2>1. PICK d : d = 0 - 1
      OBVIOUS
    <2>2. Calm(d)
      BY <1>1, <2>1, GoodParts, CalmSteps
    <2> QED
      BY <2>2, CalmThree
  <1>5. RoomInv'
    <2>1. RoomPairs'
      BY <1>1, GoodParts, PairsSteps
    <2>2. FirstNext
      BY <1>1, <1>2, GoodParts, FirstHoldCaught
    <2> QED
      BY <1>2, <2>1, <2>2, RoomWhole
  <1>6. EndingInv'
    BY <1>1, GoodParts, EndingSteps
  <1>7. SlotsInv'
    BY <1>1, GoodParts, SlotsSteps
  <1> QED
    BY <1>3, <1>4, <1>5, <1>6, <1>7 DEF Ordered

LEMMA OrderedDecided ==
  ASSUME Good, DecideFinally, todo' \in Seq(Call)
  PROVE  Ordered'
  <1>1. PICK p : Decided(p)
    BY GoodParts, DecideFinallyIs
  <1>2. undecided' = 0
    BY <1>1 DEF Decided
  <1>3. Cover'
    BY <1>1, GoodParts, CoverDecided
  <1>4. OwedInv' /\ LineInv' /\ TurnsInv'
    <2>1. PICK d : d = p - 1
      OBVIOUS
    <2>2. Calm(d)
      BY <1>1, <2>1, GoodParts, CalmSteps
    <2> QED
      BY <2>2, CalmThree
  <1>5. RoomInv'
    <2>1. RoomPairs' /\ DownNext
      BY <1>1, GoodParts, PairsDecided, DownDecided
    <2> QED
      BY <1>2, <2>1, RoomWhole
  <1>6. EndingInv'
    BY <1>1, GoodParts, EndingSteps
  <1>7. SlotsInv'
    BY <1>1, GoodParts, SlotsSteps
  <1> QED
    BY <1>3, <1>4, <1>5, <1>6, <1>7 DEF Ordered

LEMMA OrderedStops ==
  ASSUME Good, ReplayNext, Stops, todo' \in Seq(Call)
  PROVE  Ordered'
  <1>1. Cover'
    BY GoodParts, CoverStops
  <1>2. OwedInv' /\ LineInv' /\ TurnsInv'
    <2>1. PICK d : d = 0 - 1
      OBVIOUS
    <2>2. Calm(d)
      BY <2>1, GoodParts, CalmSteps
    <2> QED
      BY <2>2, CalmThree
  <1>3. RoomInv'
    <2>1. RoomPairs'
      BY GoodParts, PairsSteps
    <2>2. undecided' # 0 => FirstNext
      BY GoodParts, FirstStops
    <2>3. DownNext
      BY GoodParts, DownStops
    <2> QED
      BY <2>1, <2>2, <2>3, RoomWhole
  <1>4. EndingInv'
    BY GoodParts, EndingSteps
  <1>5. SlotsInv'
    BY GoodParts, SlotsSteps
  <1> QED
    BY <1>1, <1>2, <1>3, <1>4, <1>5 DEF Ordered

LEMMA OrderedRaises ==
  ASSUME Good, ReplayNext, NEW n, Raises(n), todo' \in Seq(Call)
  PROVE  Ordered'
  <1>1. Cover'
    BY GoodParts, CoverRaises
  <1>2. OwedInv' /\ LineInv' /\ TurnsInv'
    <2>1. CASE IsCaptured(n)
      <3>1. OwedInv'
        BY <2>1, GoodParts, RaisedOwed
      <3>2. LineInv'
        BY <2>1, GoodParts, RaisedLine
      <3>3. owed' = owed /\ down' = down
        BY DEF Raises, SameLine
      <3>4. TurnsInv'
        BY <3>3, GoodParts DEF TurnsInv
      <3> QED
        BY <3>1, <3>2, <3>4
    <2>2. CASE ~IsCaptured(n)
      <3>1. PICK d : d = 1
        OBVIOUS
      <3>2. Calm(d)
        BY <2>2, <3>1, GoodParts, CalmSteps
      <3> QED
        BY <3>2, CalmThree
    <2> QED
      BY <2>1, <2>2
  <1>3. RoomInv'
    <2>1. RoomPairs'
      BY GoodParts, PairsRaises
    <2>2. undecided' # 0 => FirstNext
      BY GoodParts, FirstRaises
    <2>3. DownNext
      BY GoodParts, DownRaises
    <2> QED
      BY <2>1, <2>2, <2>3, RoomWhole
  <1>4. EndingInv'
    BY GoodParts, EndingRaises
  <1>5. SlotsInv'
    BY GoodParts, SlotsSteps
  <1> QED
    BY <1>1, <1>2, <1>3, <1>4, <1>5 DEF Ordered

LEMMA OrderedFrees ==
  ASSUME Good, Release, Unlingering, todo' \in Seq(Call)
  PROVE  Ordered'
  <1>1. PICK d : Frees(d)
    BY GoodParts, ReleaseIs
  <1>2. Moves(d, 1, {}) /\ captured' = captured /\ undecided' = undecided /\ IsEnding(todo[1])
    BY <1>1 DEF Frees, Drops, SameLine
  <1>3. Cover'
    <2>1. ~IsReplay(todo[1])
      BY <1>2 DEF IsReplay, IsEnding
    <2>2. ReplaysStay
      BY <1>2, <2>1, Staying
    <2> QED
      BY <1>2, <2>2, GoodParts, CoverStays
  <1>4. OwedInv' /\ LineInv' /\ TurnsInv'
    <2>1. Calm(d)
      BY <1>1, GoodParts, CalmSteps
    <2> QED
      BY <2>1, CalmThree
  <1>5. RoomInv'
    <2>1. RoomPairs'
      BY <1>1, GoodParts, PairsSteps
    <2>2. undecided' # 0 => FirstNext
      BY <1>1, GoodParts, FirstFrees
    <2>3. DownNext
      BY <1>1, GoodParts, DownSteps
    <2> QED
      BY <2>1, <2>2, <2>3, RoomWhole
  <1>6. EndingInv'
    BY <1>1, GoodParts, EndingSteps
  <1>7. SlotsInv'
    BY <1>1, GoodParts, SlotsSteps
  <1> QED
    BY <1>3, <1>4, <1>5, <1>6, <1>7 DEF Ordered

\* What a delivery keeps whatever the slots do.
LEMMA OrderedDelivery ==
  ASSUME Good, todo' \in Seq(Call), NEW d, NEW new, Fewer(d, new), Delivery(d, new),
         undecided # 0 => undecided' # 0
  PROVE  Cover' /\ OwedInv' /\ LineInv' /\ TurnsInv'
  <1>1. Moves(d, 1, new) /\ captured' = captured /\ IsEvent(todo[1])
    BY DEF Fewer, Delivery
  <1>2. ReplaysStay
    <2>1. ~IsReplay(todo[1])
      BY <1>1 DEF IsReplay, IsEvent, Moving
    <2> QED
      BY <1>1, <2>1, Staying
  <1>3. Cover'
    BY <1>1, <1>2, GoodParts, CoverStays
  <1>4. OwedInv'
    BY GoodParts, DeliveryOwed
  <1>5. LineInv'
    BY <1>1, GoodParts, DeliveryLine
  <1>6. TurnsInv'
    BY GoodParts, DeliveryTurns
  <1> QED
    BY <1>3, <1>4, <1>5, <1>6

LEMMA OrderedNothing ==
  ASSUME Good, todo' \in Seq(Call), NEW d, Nothing(d), \A i \in InUse : slots[i].key # todo[1].key
  PROVE  Ordered'
  <1>1. Fewer(d, {}) /\ Delivery(d, {}) /\ undecided' = undecided
    BY GoodParts, Fewers DEF Nothing
  <1>2. Cover' /\ OwedInv' /\ LineInv' /\ TurnsInv'
    BY <1>1, OrderedDelivery
  <1>3. RoomInv'
    <2>1. RoomPairs'
      BY GoodParts, PairsSteps
    <2>2. undecided' # 0 => FirstNext
      BY GoodParts, FirstNothing
    <2>3. DownNext
      BY GoodParts, DownSteps
    <2> QED
      BY <2>1, <2>2, <2>3, RoomWhole
  <1>4. EndingInv'
    BY GoodParts, EndingSteps
  <1>5. SlotsInv'
    BY GoodParts, SlotsNothing
  <1> QED
    BY <1>2, <1>3, <1>4, <1>5 DEF Ordered

LEMMA OrderedNewSlot ==
  ASSUME Good, todo' \in Seq(Call), BindingPressed, NEW i, NEW d, NewSlot(i, d)
  PROVE  Ordered'
  <1>1. Fewer(d, {}) /\ Delivery(d, {}) /\ undecided = 0 /\ undecided' \in Slot
    BY GoodParts, Fewers DEF NewSlot
  <1>2. Cover' /\ OwedInv' /\ LineInv' /\ TurnsInv'
    BY <1>1, OrderedDelivery
  <1>3. RoomInv'
    <2>1. RoomPairs'
      BY GoodParts, PairsSteps
    <2>2. FirstNext
      BY GoodParts, FirstNewSlot
    <2>3. undecided' # 0
      BY <1>1, HoldTapAssumption DEF Slot
    <2> QED
      BY <2>1, <2>2, <2>3, RoomWhole
  <1>4. EndingInv'
    BY GoodParts, EndingSteps
  <1>5. SlotsInv'
    BY GoodParts, SlotsTaken
  <1> QED
    BY <1>2, <1>3, <1>4, <1>5 DEF Ordered

LEMMA OrderedEnds ==
  ASSUME Good, todo' \in Seq(Call), BindingReleased, NEW i, NEW d, Ends(i, d)
  PROVE  Ordered'
  <1>1. PICK new : new = {d + 1}
    OBVIOUS
  <1>2. Fewer(d, new) /\ Delivery(d, new) /\ undecided' = undecided
    BY <1>1, GoodParts, Fewers DEF Ends
  <1>3. Cover' /\ OwedInv' /\ LineInv' /\ TurnsInv'
    BY <1>2, OrderedDelivery
  <1>4. RoomInv'
    <2>1. RoomPairs'
      BY GoodParts, PairsSteps
    <2>2. undecided' # 0 => FirstNext
      BY GoodParts, FirstEnds
    <2>3. DownNext
      BY GoodParts, DownSteps
    <2> QED
      BY <2>1, <2>2, <2>3, RoomWhole
  <1>5. EndingInv'
    BY GoodParts, EndingEnds
  <1>6. SlotsInv'
    BY GoodParts, SlotsEnds
  <1> QED
    BY <1>3, <1>4, <1>5, <1>6 DEF Ordered

\* The three actions of the keymap, by what they are.
LEMMA OrderedKeymap ==
  ASSUME Good, todo' \in Seq(Call), PlainKey \/ BindingPressed \/ BindingReleased
  PROVE  Ordered'
  <1>1. AtKeymap
    BY GoodParts, PlainKeyCalls, BindingPressedCalls, BindingReleasedCalls
  <1>2. todo # <<>> /\ IsEvent(todo[1])
    BY <1>1 DEF AtKeymap
  <1>3. CASE PlainKey /\ \E d : Nothing(d)
    <2>1. todo[1].key \notin HoldTap /\ todo[1].key # None
      <3>1. todo[1].key \notin HoldTap
        BY <1>3, GoodParts, PlainKeyCalls
      <3>2. todo[1] \in PositionEvent(Moving)
        BY <1>2, GoodParts, Heads, CallKinds
      <3>3. todo[1].key \in Key
        BY <3>2 DEF PositionEvent
      <3> QED
        BY <3>1, <3>3, HoldTapAssumption
    <2>2. \A i \in InUse : slots[i].key # todo[1].key
      BY <2>1, GoodParts, TypeFacts DEF InUse, Row
    <2> QED
      BY <1>3, <2>2, OrderedNothing
  <1>4. CASE todo[1].down /\ todo[1].key \in HoldTap /\ \E d : Nothing(d)
    <2>1. \A i \in InUse : slots[i].key # todo[1].key
      BY <1>2, <1>4, GoodParts, NoSlot
    <2> QED
      BY <1>4, <2>1, OrderedNothing
  <1>5. CASE ~todo[1].down /\ Found(todo[1].key) = {} /\ \E d : Nothing(d)
    <2>1. \A i \in InUse : slots[i].key # todo[1].key
      BY <1>5 DEF Found
    <2> QED
      BY <1>5, <2>1, OrderedNothing
  <1>6. ASSUME NEW i, NEW d, NewSlot(i, d) PROVE Ordered'
    <2>1. todo[1].down /\ todo[1].key \in HoldTap
      BY <1>6 DEF NewSlot
    <2>2. BindingPressed
      BY <2>1, GoodParts, PlainKeyCalls, BindingReleasedCalls
    <2> QED
      BY <1>6, <2>2, OrderedNewSlot
  <1>7. ASSUME NEW i, NEW d, Ends(i, d) PROVE Ordered'
    <2>1. ~todo[1].down /\ Found(todo[1].key) # {}
      BY <1>7 DEF Ends
    <2>2. ~BindingPressed
      BY <2>1, GoodParts, BindingPressedCalls
    <2>3. ~PlainKey
      <3>1. PICK s \in InUse : slots[s].key = todo[1].key
        BY <2>1 DEF Found
      <3>2. todo[1].key \in HoldTap
        BY <3>1, GoodParts, TypeFacts DEF InUse, Row
      <3> QED
        BY <3>2, GoodParts, PlainKeyCalls
    <2> QED
      BY <1>7, <2>2, <2>3, OrderedEnds
  <1> QED
    BY <1>3, <1>4, <1>5, <1>6, <1>7, GoodParts, KeymapIs

LEMMA OrderedHandle ==
  ASSUME Good, Unlingering, Handle, ~Lost', todo' \in Seq(Call)
  PROVE  Ordered'
  <1>1. CASE Passing
    BY <1>1, OrderedPassing
  <1>2. CASE Capture /\ ~(UNCHANGED captured)
    BY <1>2, OrderedTaken
  <1>3. CASE KeycodeRaised /\ ~(UNCHANGED captured)
    BY <1>3, OrderedHold
  <1>4. CASE DecideFinally
    BY <1>4, OrderedDecided
  <1>5. CASE ReplayNext
    BY <1>5, GoodParts, ReplayNextIs, OrderedStops, OrderedRaises
  <1>6. CASE PlainKey \/ BindingPressed \/ BindingReleased
    BY <1>6, OrderedKeymap
  <1>7. CASE Release
    BY <1>7, OrderedFrees
  <1> QED
    BY <1>1, <1>2, <1>3, <1>4, <1>5, <1>6, <1>7 DEF Handle, Passing

LEMMA HandleGood ==
  ASSUME Good, Unlingering, Handle, ~Lost'
  PROVE  Good'
  <1>1. todo' \in Seq(Call)
    BY GoodParts, HandleType
  <1>2. Ordered'
    BY <1>1, OrderedHandle
  <1>3. TypeInv'
    BY <1>1, GoodParts, TypeListener, TypeDecision, TypeKeymap DEF Handle
  <1>4. Shape'
    BY GoodParts, ShapeListener, ShapeDecision, ShapeKeymap DEF Handle
  <1>5. HoldOnce' /\ KeyUpInv' /\ KeymapInv'
    <2>1. HoldOnce'
      BY <1>1, GoodParts, HoldSteps
    <2>2. KeyUpInv'
      BY <1>1, GoodParts, KeyUpSteps
    <2>3. KeymapInv'
      BY <1>1, GoodParts, KeymapSteps
    <2> QED
      BY <2>1, <2>2, <2>3
  <1>6. WaitingInv'
    BY <1>1, GoodParts, WaitingListener, WaitingDecided, WaitingOthers, WaitingKeymap DEF Handle
  <1> QED
    BY <1>2, <1>3, <1>4, <1>5, <1>6 DEF Good, Ordered

-----------------------------------------------------------------------------
(* The invariant holds, and with it the order *)

\* The faults that are recorded stay.
LEMMA FaultsStay ==
  ASSUME Next
  PROVE  faults \subseteq faults'
  <1>1. ASSUME NEW e, Capturing(e) PROVE faults \subseteq faults'
    BY <1>1 DEF Capturing
  <1>2. ASSUME NEW e, Delivered(e) PROVE faults \subseteq faults'
    BY <1>2 DEF Delivered
  <1>3. CASE Interrupt \/ Listen \/ DecideNothing \/ ReplayNext \/ StartTimer \/ Release
    <2>1. UNCHANGED history
      <3>1. CASE Interrupt
        BY ONLY <3>1, Interrupt, Zenon DEF Interrupt, history
      <3>2. CASE Release
        BY ONLY <3>2, Release, Zenon DEF Release, history
      <3>3. CASE Listen \/ DecideNothing \/ ReplayNext \/ StartTimer
        BY <3>3 DEF Listen, DecideNothing, ReplayNext, StartTimer
      <3> QED
        BY <1>3, <3>1, <3>2, <3>3
    <2> QED
      BY <2>1 DEF history
  <1>4. CASE Capture
    BY <1>1, <1>4 DEF Capture
  <1>5. CASE DecideFinally
    BY <1>5 DEF DecideFinally
  <1>6. CASE PlainKey \/ BindingPressed \/ BindingReleased
    BY <1>2, <1>6 DEF PlainKey, BindingPressed, BindingReleased
  <1>7. CASE KeycodeRaised
    BY <1>1, <1>7 DEF KeycodeRaised
  <1>8. CASE ~Handle
    BY <1>8 DEF Next, KeyDown, KeyUp, KeyEvent, Tick, Timer, history
  <1> QED
    BY <1>3, <1>4, <1>5, <1>6, <1>7, <1>8 DEF Handle

\* Only the keymap sees an event out of its turn.
LEMMA OrderFaults ==
  ASSUME Good, Handle, Fault("order") = {}
  PROVE  Fault("order")' = {}
  <1>1. ASSUME NEW kind, kind # "order", NEW p, faults' \subseteq faults \cup {<<kind, p>>}
        PROVE  Fault("order")' = {}
    <2>1. <<kind, p>>[1] = kind
      OBVIOUS
    <2> QED
      BY <1>1, <2>1 DEF Fault
  <1>2. ASSUME NEW e, Capturing(e) PROVE Fault("order")' = {}
    <2>1. faults' \subseteq faults \cup {<<"lost", e.key>>}
      BY <1>2 DEF Capturing
    <2> QED
      BY <1>1, <2>1
  <1>3. CASE faults' = faults
    BY <1>3 DEF Fault
  <1>4. CASE Interrupt \/ Listen \/ DecideNothing \/ ReplayNext \/ StartTimer \/ Release
    <2>1. UNCHANGED history
      <3>1. CASE Interrupt
        BY ONLY <3>1, Interrupt, Zenon DEF Interrupt, history
      <3>2. CASE Release
        BY ONLY <3>2, Release, Zenon DEF Release, history
      <3>3. CASE Listen \/ DecideNothing \/ ReplayNext \/ StartTimer
        BY <3>3 DEF Listen, DecideNothing, ReplayNext, StartTimer
      <3> QED
        BY <1>4, <3>1, <3>2, <3>3
    <2> QED
      BY <1>3, <2>1 DEF history
  <1>5. CASE Capture
    BY <1>2, <1>3, <1>5 DEF Capture
  <1>6. CASE DecideFinally
    <2>1. \E p : faults' \subseteq faults \cup {<<"decision", p>>}
      BY <1>6 DEF DecideFinally
    <2> QED
      BY <1>1, <2>1
  <1>7. CASE PlainKey \/ BindingPressed \/ BindingReleased
    <2>1. AtKeymap /\ Delivered(todo[1])
      BY <1>7, GoodParts, PlainKeyCalls, BindingPressedCalls, BindingReleasedCalls
    <2> QED
      BY <2>1, GoodParts, InTurn
  <1>8. CASE KeycodeRaised
    <2>1. \/ \E e : Capturing(e)
          \/ \E p : faults' \subseteq faults \cup {<<"pair", p>>}
      BY <1>8 DEF KeycodeRaised
    <2> QED
      BY <1>1, <1>2, <2>1
  <1> QED
    BY <1>4, <1>5, <1>6, <1>7, <1>8 DEF Handle

\* Nothing has happened yet.
LEMMA InitGood ==
  ASSUME Init
  PROVE  Good /\ Fault("order") = {}
  <1>1. /\ todo = <<>> /\ owed = {} /\ undecided = 0 /\ down = {} /\ faults = {}
        /\ slots = [i \in Slot |-> Free] /\ captured = [n \in Places |-> None] /\ setup \in Setups
        /\ now = 0 /\ events = 0 /\ timers = {} /\ on = {}
        /\ last = [key |-> None, time |-> 0 - 2 * MaxTime]
    BY DEF Init, Places
  <1>2. Here = {} /\ InUse = {}
    BY <1>1 DEF Here, InUse, Free
  <1>3. Waiting = {} /\ \A k \in Places : captured[k] = None
    BY <1>1, <1>2 DEF Waiting
  <1>4. TypeInv
    <2>1. Free \in Row
      BY HoldTapAssumption DEF Free, Row
    <2>2. slots \in [Slot -> Row] /\ CapturedType /\ UndecidedType
      BY <1>1, <1>3, <2>1 DEF CapturedType, UndecidedType, Places
    <2>3. last.key \in HoldTap \cup {None} /\ last.time \in Int
      BY <1>1, HoldTapAssumption
    <2>4. now \in 0 .. MaxTime /\ events \in 0 .. MaxEvents
      BY <1>1, HoldTapAssumption
    <2>5. TypeOK
      BY <1>1, <2>2, <2>3, <2>4, TypeParts
    <2> QED
      BY <1>1, <2>5 DEF TypeInv
  <1>5. Shape /\ Cover /\ OwedInv /\ LineInv /\ TurnsInv
    BY <1>1, <1>2, <1>3 DEF Shape, Cover, OwedInv, LineInv, TurnsInv, IsCaptured
  <1>6. RoomInv /\ HoldOnce /\ EndingInv /\ KeyUpInv /\ SlotsInv /\ KeymapInv
    BY <1>2 DEF RoomInv, RoomPairs, RoomFirst, RoomDown, HoldOnce, EndingInv, KeyUpInv, SlotsInv, KeymapInv
  <1>7. WaitingInv
    BY <1>1, <1>2, <1>3 DEF WaitingInv, Quiet
  <1> QED
    BY <1>1, <1>4, <1>5, <1>6, <1>7 DEF Good, Fault

LEMMA IInvStep ==
  ASSUME Unlingering, IInv, Next
  PROVE  IInv'
  <1> SUFFICES ASSUME ~Lost' PROVE Good' /\ Fault("order")' = {}
    BY DEF IInv
  <1>1. ~Lost
    BY FaultsStay DEF Lost, Fault
  <1>2. Good /\ Fault("order") = {}
    BY <1>1 DEF IInv
  <1>3. CASE Handle
    BY <1>2, <1>3, HandleGood, OrderFaults
  <1>4. CASE ~Handle
    <2>1. Good'
      <3>1. CASE Tick
        BY <1>2, <3>1, TickGood
      <3>2. CASE \E p \in Key : KeyDown(p) \/ KeyUp(p)
        BY <1>2, <3>2, KeyEventGood
      <3>3. CASE \E i \in Slot : Timer(i)
        BY <1>2, <3>3, TimerGood
      <3> QED
        BY <1>4, <3>1, <3>2, <3>3 DEF Next
    <2>2. faults' = faults
      BY <1>4 DEF Next, KeyDown, KeyUp, KeyEvent, Tick, Timer, history
    <2> QED
      BY <1>2, <2>1, <2>2 DEF Fault
  <1> QED
    BY <1>3, <1>4

LEMMA IInvStutters ==
  ASSUME IInv, UNCHANGED vars
  PROVE  IInv'
  <1>1. /\ setup' = setup /\ now' = now /\ events' = events /\ down' = down /\ slots' = slots
        /\ undecided' = undecided /\ captured' = captured /\ timers' = timers /\ last' = last
        /\ todo' = todo /\ on' = on /\ owed' = owed /\ faults' = faults
    BY DEF vars
  <1>2. Fault("lost")' = Fault("lost") /\ Fault("order")' = Fault("order") /\ (Lost' <=> Lost)
    BY <1>1 DEF Fault, Lost
  <1>3. Here' = Here /\ Places' = Places /\ InUse' = InUse /\ HoldTap' = HoldTap
    BY <1>1 DEF Here, Places, InUse, HoldTap
  <1>4. /\ \A m, k : Filled(m, k)' <=> Filled(m, k)
        /\ \A k : IsCaptured(k)' <=> IsCaptured(k)
        /\ \A j, k : After(j, k)' <=> After(j, k)
    BY <1>1, <1>3 DEF Filled, IsCaptured, After
  <1>5. /\ \A k : Behind(k)' <=> Behind(k)
        /\ \A i : HasEnding(i)' <=> HasEnding(i)
    BY <1>1, <1>3, <1>4 DEF Behind, HasEnding
  <1>6. Good => TypeInv' /\ Shape' /\ Cover' /\ OwedInv' /\ LineInv' /\ TurnsInv'
    BY <1>1, <1>3, <1>4 DEF Good, TypeInv, TypeOK, Shape, Cover, OwedInv, LineInv, TurnsInv
  <1>7. Good => EndingInv' /\ KeyUpInv' /\ SlotsInv' /\ KeymapInv'
    BY <1>1, <1>3, <1>4, <1>5 DEF Good, EndingInv, KeyUpInv, SlotsInv, KeymapInv
  <1>8. Waiting' = Waiting /\ (Catching' <=> Catching)
    BY <1>1, <1>3 DEF Waiting, Catching, Conf
  <1>9. Good => HoldOnce' /\ WaitingInv'
    BY <1>1, <1>3, <1>8 DEF Good, HoldOnce, WaitingInv, Quiet, Alone, Leaving
  <1>10. Good => RoomInv'
    <2>1. /\ \A m, c : Room(m, c)' <=> Room(m, c)
          /\ \A i, j : NoReplay(i, j)' <=> NoReplay(i, j)
      BY <1>1, <1>3 DEF Room, NoReplay
    <2>2. \A j : (First(j)' <=> First(j)) /\ Load(j)' = Load(j)
      BY <1>1, <1>3, <1>8, <2>1 DEF First, Load, Weight, HoldWeight, RetroWeight
    <2> QED
      BY <1>1, <1>3, <1>8, <2>1, <2>2 DEF Good, RoomInv, RoomPairs, RoomFirst, RoomDown
  <1> QED
    BY <1>2, <1>6, <1>7, <1>9, <1>10 DEF IInv, Good

\* When no call is left and nothing is undecided, nothing is captured, and what is
\* not on its way is not owed.
LEMMA GoodDrained ==
  ASSUME Good
  PROVE  Drained
  <1> SUFFICES ASSUME Quiet, undecided = 0
               PROVE  owed = {} /\ \A n \in DOMAIN captured : captured[n] = None
    BY DEF Drained
  <1>1. Here = {}
    BY DEF Quiet, Here
  <1>2. \A k \in Places : captured[k] = None
    BY <1>1, GoodParts DEF Cover
  <1>3. owed = {}
    BY <1>1, <1>2, GoodParts DEF OwedInv, IsCaptured
  <1>4. DOMAIN captured = Places
    BY GoodParts, TypeFacts DEF CapturedType, Places
  <1> QED
    BY <1>2, <1>3, <1>4

\* The invariant: what the listeners, the decision, the replay, the keymap and the two
\* handlers of the binding do keeps it, as long as no event is lost.
THEOREM InvariantHolds ==
  ASSUME Unlingering
  PROVE  Spec => []IInv
  <1>1. Init => IInv
    BY InitGood DEF IInv
  <1>2. IInv /\ [Next]_vars => IInv'
    BY IInvStep, IInvStutters
  <1> QED
    BY <1>1, <1>2, PTL DEF Spec

\* The types of what behavior_hold_tap.c keeps: the hold-tap that is undecided has a
\* slot of active_hold_taps, and what captured_events holds is an event it may raise.
THEOREM TypesHold ==
  ASSUME Unlingering
  PROVE  Spec => [](Fault("lost") = {} => TypeOK)
  <1>1. IInv => (Fault("lost") = {} => TypeOK)
    BY DEF IInv, Lost, Good, TypeInv
  <1> QED
    BY <1>1, InvariantHolds, PTL

\* capture_event and release_captured_events keep the order, replays inside replays
\* included: unless one is lost for want of room, key events reach the keymap in the
\* order they happened, and with nothing undecided none is left behind.
THEOREM InOrderHolds ==
  ASSUME Unlingering
  PROVE  Spec => []InOrder
  <1>1. IInv => InOrder
    BY GoodDrained DEF IInv, Lost, InOrder
  <1> QED
    BY <1>1, InvariantHolds, PTL
=============================================================================
