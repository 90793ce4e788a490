---------------------------- MODULE Kscan_proofs ----------------------------
(***************************************************************************)
(* The switches, for every number of them and every counter width, all     *)
(* debounce times and every scan timing: chatter never gets through and no *)
(* change is missed (DebounceSwitch); nothing is lost between the matrix   *)
(* and the keymap but what a full queue refuses, and the counts are exact  *)
(* (KscanMatrix); the direct driver allows deep sleep only with nothing    *)
(* half debounced (KscanDirect).                                           *)
(***************************************************************************)
EXTENDS DebounceSwitch, KscanDirect, KscanMatrix, FiniteSetTheorems, SequenceTheorems,
        TLAPS

-----------------------------------------------------------------------------
(* One update of a debouncer *)

\* It stays well-typed.
LEMMA UpdateType ==
  ASSUME NEW s \in Switch, NEW closes \in BOOLEAN, NEW e \in Nat, NEW c \in Config
  PROVE  Update(s, closes, e, c) \in Switch
  BY CounterAssumption DEF Update, Increment, Decrement, Switch

\* It flips only when the counter has reached the threshold, and then the
\* counter starts again (debounce.c).
LEMMA UpdateFlips ==
  ASSUME NEW s \in Switch, NEW closes \in BOOLEAN, NEW e \in Nat, NEW c \in Config
  PROVE  /\ Update(s, closes, e, c).pressed # s.pressed
             => /\ closes # s.pressed
                /\ Threshold(s, c) <= s.counter
                /\ Update(s, closes, e, c).counter = 0
         /\ closes # s.pressed /\ Threshold(s, c) <= s.counter
             => Update(s, closes, e, c).pressed = ~s.pressed
  <1>1. Threshold(s, c) \in Nat
    BY CounterAssumption DEF Threshold, Config
  <1>2. CASE closes = s.pressed
    BY <1>2 DEF Update, Switch
  <1>3. CASE closes # s.pressed /\ s.counter < Threshold(s, c)
    BY <1>1, <1>3 DEF Update, Switch
  <1>4. CASE closes # s.pressed /\ ~(s.counter < Threshold(s, c))
    BY <1>1, <1>4 DEF Update, Switch
  <1> QED
    BY <1>2, <1>3, <1>4

\* How far one update moves the counter when the state stays as it is.
LEMMA UpdateCounts ==
  ASSUME NEW s \in Switch, NEW closes \in BOOLEAN, NEW e \in Nat, NEW c \in Config,
         Update(s, closes, e, c).pressed = s.pressed
  PROVE  /\ Update(s, closes, e, c).counter <= s.counter + e
         /\ closes # s.pressed
             => \/ Update(s, closes, e, c).counter = s.counter + e
                \/ Update(s, closes, e, c).counter = CounterMax
  BY CounterAssumption DEF Update, Increment, Decrement, Switch

-----------------------------------------------------------------------------
(* One switch *)

\* The counter never counts more time than has passed since the last change,
\* and never less than the switch has been steady, unless it is saturated.
CounterBounds ==
  /\ switch.counter <= dwell \/ dwell = Horizon
  /\ steady <= switch.counter \/ switch.counter = CounterMax

BounceInv == SwitchTypeOK /\ CounterBounds

LEMMA BounceTypes ==
  ASSUME SwitchTypeOK
  PROVE  /\ switch \in Switch /\ cfg \in Config /\ cfg \in Times /\ Elapsed \subseteq Nat
         /\ dwell \in 0 .. Horizon /\ steady \in Nat /\ Horizon \in Nat
         /\ CounterMax \in Nat /\ CounterMax <= Horizon
         /\ switch.counter \in 0 .. CounterMax /\ switch.pressed \in BOOLEAN
         /\ Threshold(switch, cfg) \in 0 .. CounterMax
  <1>1. /\ switch \in Switch /\ cfg \in Config /\ cfg \in Times /\ Elapsed \subseteq Nat
        /\ dwell \in 0 .. Horizon /\ steady \in Nat /\ Horizon \in Nat
        /\ CounterMax \in Nat /\ CounterMax <= Horizon
    BY CounterAssumption, SwitchAssumption DEF SwitchTypeOK
  <1> QED
    BY <1>1 DEF Switch, Config, Threshold

\* Type correctness and the two bounds of the counter are an invariant.
THEOREM Bounds == SwitchSpec => []BounceInv
  <1>1. SwitchInit => BounceInv
    BY CounterAssumption, SwitchAssumption
    DEF SwitchInit, BounceInv, SwitchTypeOK, CounterBounds,
        Open, Switch
  <1>2. BounceInv /\ [SwitchNext]_switchVars => BounceInv'
    <2> SUFFICES ASSUME BounceInv, [SwitchNext]_switchVars PROVE BounceInv'
      OBVIOUS
    <2> USE DEF BounceInv
    <2>1. ASSUME NEW closes \in BOOLEAN, NEW e \in Elapsed, SwitchRead(closes, e)
          PROVE  BounceInv'
      <3> DEFINE new == Update(switch, closes, e, cfg)
      <3>1. /\ switch \in Switch /\ cfg \in Config /\ e \in Nat /\ CounterMax \in Nat
            /\ dwell \in 0 .. Horizon /\ steady \in Nat /\ Horizon \in Nat
            /\ CounterMax <= Horizon /\ cfg \in Times
        BY BounceTypes
      <3>2. /\ switch' = new
            /\ dwell' = IF new.pressed # switch.pressed THEN 0 ELSE Later(dwell, e)
            /\ steady' = IF closes = switch.pressed \/ new.pressed # switch.pressed
                         THEN 0 ELSE steady + e
            /\ cfg' = cfg
        BY <2>1 DEF SwitchRead
      <3>3. new \in Switch
        BY <3>1, UpdateType
      <3>4. SwitchTypeOK'
        BY <3>1, <3>2, <3>3 DEF SwitchTypeOK, Later
      <3>5. CASE new.pressed # switch.pressed
        <4>1. new.counter = 0
          BY <3>1, <3>5, UpdateFlips
        <4> QED
          BY <3>1, <3>2, <3>4, <3>5, <4>1 DEF CounterBounds
      <3>6. CASE new.pressed = switch.pressed
        <4>1. new.counter <= switch.counter + e
          BY <3>1, <3>6, UpdateCounts
        <4>2. closes # switch.pressed
                => new.counter = switch.counter + e \/ new.counter = CounterMax
          BY <3>1, <3>6, UpdateCounts
        <4>3. new.counter \in 0 .. CounterMax /\ switch.counter \in 0 .. CounterMax
          BY <3>1, <3>3 DEF Switch
        <4>4. new.counter <= Later(dwell, e) \/ Later(dwell, e) = Horizon
          BY <3>1, <4>1, <4>3 DEF Later, CounterBounds
        <4>5. steady' <= new.counter \/ new.counter = CounterMax
          BY <3>1, <3>2, <3>6, <4>2, <4>3 DEF CounterBounds
        <4> QED
          BY <3>2, <3>4, <3>6, <4>4, <4>5 DEF CounterBounds
      <3> QED
        BY <3>5, <3>6
    <2>2. ASSUME NEW c \in Times, SetDebounce(c) PROVE BounceInv'
      BY <2>2 DEF SetDebounce, SwitchTypeOK, CounterBounds
    <2>3. CASE UNCHANGED switchVars
      BY <2>3 DEF switchVars, SwitchTypeOK, CounterBounds
    <2> QED
      BY <2>1, <2>2, <2>3 DEF SwitchNext
  <1> QED
    BY <1>1, <1>2, PTL DEF SwitchSpec

\* Type correctness, for every parameter.
THEOREM TypeCorrect == SwitchSpec => []SwitchTypeOK
  <1>1. BounceInv => SwitchTypeOK
    BY DEF BounceInv
  <1> QED
    BY <1>1, Bounds, PTL

\* Two changes of a switch are at least a debounce time of reads apart.
THEOREM NoChatter == SwitchSpec => MinDwell
  <1> DEFINE A == switch'.pressed # switch.pressed => dwell >= Threshold(switch, cfg)
  <1>1. BounceInv /\ [SwitchNext]_switchVars => [A]_switchVars
    <2> SUFFICES ASSUME BounceInv, SwitchNext, switch'.pressed # switch.pressed
                 PROVE  dwell >= Threshold(switch, cfg)
      BY DEF switchVars
    <2>1. PICK closes \in BOOLEAN, e \in Elapsed : SwitchRead(closes, e)
      BY DEF SwitchNext, SetDebounce
    <2>2. Threshold(switch, cfg) <= switch.counter
      BY <2>1, BounceTypes, UpdateFlips DEF SwitchRead, BounceInv
    <2> QED
      BY <2>2, BounceTypes DEF BounceInv, CounterBounds
  <1> QED
    BY <1>1, Bounds, PTL DEF SwitchSpec, MinDwell

\* A switch that stays in its new position for the debounce time is reported.
THEOREM NoMiss == SwitchSpec => StableDecides
  <1> DEFINE A == \A e \in Elapsed :
                    SwitchRead(~switch.pressed, e) /\ steady >= Threshold(switch, cfg)
                      => switch'.pressed = ~switch.pressed
  <1>1. BounceInv /\ [SwitchNext]_switchVars => [A]_switchVars
    <2> SUFFICES ASSUME BounceInv, NEW e \in Elapsed, SwitchRead(~switch.pressed, e),
                        steady >= Threshold(switch, cfg)
                 PROVE  switch'.pressed = ~switch.pressed
      BY DEF A
    <2>2. Threshold(switch, cfg) <= switch.counter
      BY BounceTypes DEF BounceInv, CounterBounds
    <2> DEFINE new == ~switch.pressed
    <2>4. new \in BOOLEAN /\ new # switch.pressed
      BY BounceTypes DEF BounceInv
    <2> HIDE DEF new
    <2>5. Update(switch, new, e, cfg).pressed = ~switch.pressed
      BY <2>2, <2>4, BounceTypes, UpdateFlips DEF BounceInv
    <2> QED
      BY <2>5 DEF SwitchRead, new
  <1> QED
    BY <1>1, Bounds, PTL DEF SwitchSpec, StableDecides, A

-----------------------------------------------------------------------------
(* The direct driver *)

\* Between reads the callback knows every debounced state; once a read has
\* allowed deep sleep no counter runs until the next read, and while a counter
\* runs it is not allowed.
ReadOut ==
  /\ reported = {p \in Pin : pinState[p].pressed}
  /\ phase = "delay" => ~dlps
  /\ dlps => \A p \in Pin : pinState[p].counter = 0

DirectInv == DirectTypeOK /\ ReadOut

\* The invariant of the direct driver is kept by each of its steps.
THEOREM DirectBookkeeping == DirectSpec => []DirectInv
  <1> USE DEF Switch, Config
  <1>1. DirectInit => DirectInv
    <2> SUFFICES ASSUME DirectInit PROVE DirectInv
      OBVIOUS
    <2> DEFINE start == [p \in Pin |-> [pressed |-> FALSE, counter |-> 0]]
    <2>1. start \in [Pin -> [pressed : BOOLEAN, counter : 0 .. CounterMax]]
      BY CounterAssumption
    <2>2. \A p \in Pin : start[p].pressed = FALSE /\ start[p].counter = 0
      OBVIOUS
    <2>3. /\ closedPins = {} /\ pinState = start /\ phase = "wait" /\ wakeOn = Pin
          /\ dlps = FALSE /\ reported = {}
      BY DEF DirectInit, Open
    <2> HIDE DEF start
    <2> QED
      BY <2>1, <2>2, <2>3 DEF DirectInv, DirectTypeOK, ReadOut
  <1>2. DirectInv /\ [DirectNext]_directVars => DirectInv'
    <2> SUFFICES ASSUME DirectInv, [DirectNext]_directVars PROVE DirectInv'
      OBVIOUS
    <2> USE DEF DirectInv
    <2>1. ASSUME NEW p \in Pin, DirectMove(p) PROVE DirectInv'
      BY <2>1 DEF DirectMove, DirectTypeOK, ReadOut
    <2>2. CASE DirectRead
      <3> DEFINE Read(p) == Update(pinState[p], p \in closedPins, DirectScanMs, DirectConfig)
                 new == [p \in Pin |-> Read(p)]
      <3>1. \A p \in Pin : Read(p) \in Switch
        <4>1. DirectScanMs \in Nat /\ DirectConfig \in Config
          BY DirectAssumption
        <4>2. ASSUME NEW p \in Pin
              PROVE  Read(p) \in Switch
          <5>1. pinState[p] \in Switch /\ (p \in closedPins) \in BOOLEAN
            BY DEF DirectTypeOK
          <5> QED
            BY <4>1, <5>1, UpdateType
        <4> QED
          BY <4>2
      <3>3. new \in [Pin -> Switch]
        BY <3>1
      <3>4. /\ pinState' = new /\ closedPins' = closedPins /\ wakeOn' = wakeOn
            /\ reported' = (reported \ {p \in Pin : pinState[p].pressed /\ ~new[p].pressed})
                             \cup {p \in Pin : ~pinState[p].pressed /\ new[p].pressed}
            /\ phase' = IF \E p \in Pin : new[p].counter > 0 THEN "delay" ELSE "arm"
            /\ dlps' = ~\E p \in Pin : new[p].counter > 0
        BY <2>2 DEF DirectRead, GoesOn
      <3> HIDE DEF new
      <3>5. \A p \in Pin : new[p].counter \in 0 .. CounterMax /\ new[p].pressed \in BOOLEAN
        BY <3>3
      <3>6. DirectTypeOK'
        BY <3>3, <3>4 DEF DirectTypeOK
      <3>7. reported' = {p \in Pin : new[p].pressed}
        BY <3>4, <3>5 DEF ReadOut
      <3>8. ASSUME dlps', NEW p \in Pin PROVE new[p].counter = 0
        <4>1. ~(new[p].counter > 0)
          BY <3>4, <3>8
        <4>2. PICK n \in 0 .. CounterMax : n = new[p].counter
          BY <3>5
        <4> QED
          BY <4>1, <4>2, CounterAssumption
      <3> QED
        BY <3>4, <3>6, <3>7, <3>8 DEF ReadOut
    <2>3. CASE Arm
      BY <2>3 DEF Arm, Opposite, DirectTypeOK, ReadOut
    <2>4. CASE DirectTimeout
      BY <2>4 DEF DirectTimeout, DirectTypeOK, ReadOut
    <2>5. CASE DirectIrq
      BY <2>5 DEF DirectIrq, DirectTypeOK, ReadOut
    <2>6. CASE UNCHANGED directVars
      BY <2>6 DEF directVars, DirectTypeOK, ReadOut
    <2> QED
      BY <2>1, <2>2, <2>3, <2>4, <2>5, <2>6 DEF DirectNext
  <1> QED
    BY <1>1, <1>2, PTL DEF DirectSpec

\* The types of the direct driver, and that it allows deep sleep only when no
\* debounce runs and everything debounced is reported.
THEOREM SleepSafe == DirectSpec => []DirectSound
  <1>1. DirectInv => DirectSound
    BY DEF DirectInv, ReadOut, DirectSound, DirectTypeOK, SleepIsSafe
  <1> QED
    BY <1>1, DirectBookkeeping, PTL

-----------------------------------------------------------------------------
(* The matrix driver: its invariant *)

\* The scan is put behind the processing, never before it: the processing is
\* asked for while the scan runs.
InLine(w) ==
  \A i \in 1 .. Len(w) : (w[i] = "process" => i = 1) /\ (w[i] = "scan" => i = Len(w))

WorkInv ==
  /\ InLine(work)
  /\ ~scanning => unsaid = {}
  /\ OneCause
  /\ queue # <<>> => Queued("process")

\* Every message is from the last scan: there is one of a key at most, and it
\* still says what the debouncer does.
QueueInv ==
  /\ \A i, j \in 1 .. Len(queue) : queue[i].key = queue[j].key => i = j
  /\ \A i \in 1 .. Len(queue) : /\ queue[i].key \notin unsaid
                                /\ queue[i].pressed = deb[queue[i].key].pressed

\* A key without a message is known to the keymap as the callback was told.
SeenInv ==
  \A k \in Mapped \ lost : About(k) = {} => (k \in seen <=> k \in Told)

IInv == TypeOK /\ WorkInv /\ ArmedWhenIdle /\ CountExact /\ QueueInv /\ SeenInv

\* Only the keys before the last row count.
Low == {k \in Key : k[1] < LastRow}
CountedDown == {k \in Told : k[1] < LastRow}

LEMMA RowType ==
  ASSUME NEW k \in Key
  PROVE  k[1] \in 0 .. LastRow /\ LastRow \in Nat
  BY KscanAssumption

LEMMA CountedFinite ==
  /\ CountedDown \subseteq Key /\ IsFiniteSet(CountedDown)
  /\ Cardinality(CountedDown) \in Nat
  BY KscanAssumption, FS_Subset, FS_CardinalityType DEF CountedDown, Told

-----------------------------------------------------------------------------
(* The work queue *)

\* An item is put in line, and one leaves it.
LEMMA PutInLine ==
  ASSUME NEW w \in Seq({"scan", "process"}), InLine(w), Len(w) <= 2,
         NEW item \in {"scan", "process"},
         ~\E i \in 1 .. Len(w) : w[i] = item,
         item = "process" => ~\E i \in 1 .. Len(w) : w[i] = "scan"
  PROVE  /\ Append(w, item) \in Seq({"scan", "process"})
         /\ InLine(Append(w, item)) /\ Len(Append(w, item)) <= 2
         /\ \A x : (\E i \in 1 .. Len(Append(w, item)) : Append(w, item)[i] = x)
                     <=> (x = item \/ \E i \in 1 .. Len(w) : w[i] = x)
  <1> DEFINE v == Append(w, item)
  <1>1. /\ v \in Seq({"scan", "process"}) /\ Len(v) = Len(w) + 1 /\ Len(w) \in Nat
        /\ v[Len(v)] = item /\ \A i \in 1 .. Len(w) : v[i] = w[i]
        /\ \A i \in 1 .. Len(w) : w[i] \in {"scan", "process"}
    OBVIOUS
  <1> HIDE DEF v
  <1>2. Len(w) <= 1
    BY <1>1 DEF InLine
  <1>3. InLine(v)
    BY <1>1, <1>2 DEF InLine
  <1>4. \A x : (\E i \in 1 .. Len(v) : v[i] = x)
                  <=> (x = item \/ \E i \in 1 .. Len(w) : w[i] = x)
    BY <1>1
  <1> QED
    BY <1>1, <1>2, <1>3, <1>4 DEF v

LEMMA OutOfLine ==
  ASSUME NEW w \in Seq({"scan", "process"}), InLine(w), Len(w) <= 2, w # <<>>
  PROVE  /\ Tail(w) \in Seq({"scan", "process"})
         /\ InLine(Tail(w)) /\ Len(Tail(w)) <= 2
         /\ \A x : (\E i \in 1 .. Len(Tail(w)) : Tail(w)[i] = x)
                     <=> (x # Head(w) /\ \E i \in 1 .. Len(w) : w[i] = x)
         /\ Head(w) = "scan" => ~\E i \in 1 .. Len(w) : w[i] = "process"
         /\ \E i \in 1 .. Len(w) : w[i] = Head(w)
  <1> DEFINE v == Tail(w)
  <1>1. /\ v \in Seq({"scan", "process"}) /\ Len(v) = Len(w) - 1 /\ Len(w) \in Nat
        /\ Len(w) > 0 /\ Head(w) = w[1] /\ \A i \in 1 .. Len(v) : v[i] = w[i + 1]
        /\ \A i \in 1 .. Len(w) : w[i] \in {"scan", "process"}
    OBVIOUS
  <1> HIDE DEF v
  <1>2. InLine(v)
    BY <1>1 DEF InLine
  <1>3. ASSUME NEW x, NEW i \in 1 .. Len(v), v[i] = x
        PROVE  x # Head(w) /\ \E j \in 1 .. Len(w) : w[j] = x
    BY <1>1, <1>3 DEF InLine
  <1>4. ASSUME NEW x, x # Head(w), NEW i \in 1 .. Len(w), w[i] = x
        PROVE  \E j \in 1 .. Len(v) : v[j] = x
    <2>1. i # 1 /\ i - 1 \in 1 .. Len(v) /\ v[i - 1] = w[(i - 1) + 1]
      BY <1>1, <1>4
    <2> QED
      BY <1>4, <2>1
  <1>5. /\ Head(w) = "scan" => ~\E i \in 1 .. Len(w) : w[i] = "process"
        /\ \E i \in 1 .. Len(w) : w[i] = Head(w)
    BY <1>1 DEF InLine
  <1> QED
    BY <1>1, <1>2, <1>3, <1>4, <1>5 DEF v

\* k_work_submit: the item is in the queue afterwards, and nothing else changes.
LEMMA Submitted ==
  ASSUME TypeOK, InLine(work), NEW item \in {"scan", "process"}, Submit(item),
         item = "process" => ~Queued("scan")
  PROVE  /\ work' \in Seq({"scan", "process"}) /\ Len(work') <= 2 /\ InLine(work')
         /\ \A x : (\E i \in 1 .. Len(work') : work'[i] = x) <=> (x = item \/ Queued(x))
  <1>1. work \in Seq({"scan", "process"}) /\ Len(work) <= 2
    BY DEF TypeOK
  <1>2. CASE Queued(item)
    BY <1>1, <1>2 DEF Submit, Queued
  <1>3. CASE ~Queued(item)
    BY <1>1, <1>3, PutInLine DEF Submit, Queued
  <1> QED
    BY <1>2, <1>3

\* The item at the front is done.
LEMMA Served ==
  ASSUME TypeOK, InLine(work), NEW item, Serves(item), work' = Tail(work)
  PROVE  /\ work' \in Seq({"scan", "process"}) /\ Len(work') <= 2 /\ InLine(work')
         /\ \A x : (\E i \in 1 .. Len(work') : work'[i] = x) <=> (x # item /\ Queued(x))
         /\ Queued(item)
         /\ item = "scan" => ~Queued("process")
  BY OutOfLine DEF TypeOK, Serves, Queued

-----------------------------------------------------------------------------
(* The handshake *)

\* The causes of a scan take turns; a message never waits alone.
LEMMA WorkStep ==
  ASSUME IInv, Next
  PROVE  WorkInv'
  <1> USE DEF IInv
  <1>0. work \in Seq({"scan", "process"}) /\ Len(work) <= 2 /\ InLine(work)
    BY DEF TypeOK, WorkInv
  <1>1. ASSUME NEW k \in Key, Move(k) PROVE WorkInv'
    BY <1>1 DEF Move, WorkInv, OneCause, Queued, InLine, handshake, callback
  <1>2. CASE Irq \/ Timeout
    <2>1. Submit("scan") /\ UNCHANGED <<scanning, unsaid, queue>> /\ ~armed' /\ ~timer'
      BY <1>2 DEF Irq, Timeout, callback, WorkInv, OneCause
    <2>2. InLine(work') /\ \A x : Queued(x)' <=> (x = "scan" \/ Queued(x))
      BY <2>1, <1>0, Submitted DEF Queued
    <2>3. ~scanning
      BY <1>2 DEF Irq, Timeout, WorkInv, OneCause
    <2> QED
      BY <2>1, <2>2, <2>3 DEF WorkInv, OneCause, InLine
  <1>3. CASE Scan
    <2>1. Serves("scan") /\ work' = Tail(work) /\ scanning' /\ UNCHANGED <<armed, timer, queue>>
      BY <1>3 DEF Scan, callback
    <2>2. /\ InLine(work') /\ \A x : Queued(x)' <=> (x # "scan" /\ Queued(x))
          /\ Queued("scan") /\ ~Queued("process")
      BY <2>1, <1>0, Served DEF Queued
    <2> QED
      BY <2>1, <2>2 DEF WorkInv, OneCause, InLine
  <1>4. CASE ScanEnd
    BY <1>4 DEF ScanEnd, WorkInv, OneCause, Queued, InLine, callback
  <1>5. CASE Process
    BY <1>5 DEF Process, Serves, WorkInv, OneCause, Queued, InLine, handshake
  <1>6. CASE ProcessEnd
    <2>1. Serves("process") /\ work' = Tail(work) /\ UNCHANGED <<handshake, unsaid, queue>>
          /\ queue = <<>>
      BY <1>6 DEF ProcessEnd, callback
    <2>2. InLine(work') /\ \A x : Queued(x)' <=> (x # "process" /\ Queued(x))
      BY <2>1, <1>0, Served DEF Queued
    <2> QED
      BY <2>1, <2>2 DEF WorkInv, OneCause, InLine, handshake
  <1>7. ASSUME NEW k \in Key, Report(k) PROVE WorkInv'
    <2>1. scanning /\ Submit("process") /\ UNCHANGED handshake
      BY <1>7 DEF Report, Callback
    <2>2. ~Queued("scan")
      BY <2>1 DEF WorkInv, OneCause
    <2>3. InLine(work') /\ \A x : Queued(x)' <=> (x = "process" \/ Queued(x))
      BY <2>1, <2>2, <1>0, Submitted DEF Queued
    <2> QED
      BY <2>1, <2>2, <2>3 DEF WorkInv, OneCause, InLine, handshake
  <1> QED
    BY <1>1, <1>2, <1>3, <1>4, <1>5, <1>6, <1>7 DEF Next, Work

\* Interrupts are enabled at the end of a scan that has found no key active.
LEMMA ArmedStep ==
  ASSUME IInv, Next
  PROVE  ArmedWhenIdle'
  <1> SUFFICES ASSUME armed', NEW k \in Key PROVE deb'[k] = Open
    BY DEF ArmedWhenIdle
  <1>1. CASE Scan
    BY <1>1 DEF Scan, Serves, IInv, WorkInv, OneCause, Queued, InLine, TypeOK
  <1>2. CASE ScanEnd
    <2>1. ~IsActive(deb[k]) /\ deb[k] \in Switch /\ UNCHANGED deb
      BY <1>2 DEF ScanEnd, IInv, TypeOK
    <2>2. deb[k].pressed = FALSE /\ deb[k].counter = 0
      BY <2>1, CounterAssumption DEF IsActive, Switch
    <2>3. \A d \in Switch : d.pressed = FALSE /\ d.counter = 0 => d = Open
      BY DEF Switch, Open
    <2> QED
      BY <2>1, <2>2, <2>3
  <1>3. CASE ~Scan /\ ~ScanEnd
    <2>1. armed /\ UNCHANGED deb
      BY <1>3 DEF Next, Work, Move, Irq, Timeout, Report, Process, ProcessEnd, handshake
    <2> QED
      BY <2>1 DEF IInv, ArmedWhenIdle
  <1> QED
    BY <1>1, <1>2, <1>3

-----------------------------------------------------------------------------
(* The messages *)

\* What a callback does to the queue: the message is put behind the others, or
\* nothing is.
LEMMA Reported ==
  ASSUME TypeOK, NEW k \in Key, NEW usb \in BOOLEAN, Callback(k, usb)
  PROVE  /\ deb[k].pressed \in BOOLEAN
         /\ queue' \in Seq(Message) /\ Len(queue') <= QueueSize
         /\ \A i \in 1 .. Len(queue) : queue'[i] = queue[i]
         /\ \/ /\ Len(queue') = Len(queue) + 1 /\ lost' = lost \ {k}
               /\ queue'[Len(queue')] = [key |-> k, pressed |-> deb[k].pressed]
            \/ queue' = queue /\ lost' = lost \cup {k}
  <1> DEFINE m == [key |-> k, pressed |-> deb[k].pressed]
  <1>1. /\ queue \in Seq(Message) /\ Len(queue) <= QueueSize /\ QueueSize \in Nat
        /\ deb[k] \in Switch
    BY KscanAssumption DEF TypeOK
  <1>2. deb[k].pressed \in BOOLEAN /\ m \in Message
    BY <1>1 DEF Switch, Message
  <1>3. /\ queue' = IF Len(queue) < QueueSize THEN Append(queue, m) ELSE queue
        /\ lost' = IF Len(queue) < QueueSize THEN lost \ {k} ELSE lost \cup {k}
    BY DEF Callback, Put
  <1> HIDE DEF m
  <1>4. CASE Len(queue) < QueueSize
    BY <1>1, <1>2, <1>3, <1>4 DEF m
  <1>5. CASE ~(Len(queue) < QueueSize)
    BY <1>1, <1>2, <1>3, <1>5
  <1> QED
    BY <1>4, <1>5

\* What the processing does to it: its first message is gone.
LEMMA Processed ==
  ASSUME TypeOK, Process
  PROVE  /\ Head(queue) = queue[1] /\ queue[1] \in Message /\ Len(queue) \in Nat \ {0}
         /\ queue' \in Seq(Message) /\ Len(queue') = Len(queue) - 1
         /\ \A i \in 1 .. Len(queue') : i + 1 \in 1 .. Len(queue) /\ queue'[i] = queue[i + 1]
         /\ \A i \in 2 .. Len(queue) : i - 1 \in 1 .. Len(queue') /\ queue'[i - 1] = queue[i]
  <1>1. queue \in Seq(Message) /\ queue # <<>> /\ queue' = Tail(queue)
    BY DEF TypeOK, Process
  <1> QED
    BY <1>1

LEMMA QueueStep ==
  ASSUME IInv, Next
  PROVE  QueueInv'
  <1> USE DEF IInv
  <1>1. CASE Scan
    <2>1. queue = <<>> /\ UNCHANGED queue
      <3>1. ~Queued("process")
        BY <1>1, OutOfLine DEF Scan, Serves, TypeOK, WorkInv, Queued
      <3> QED
        BY <1>1, <3>1 DEF Scan, callback, WorkInv
    <2> QED
      BY <2>1 DEF QueueInv
  <1>2. ASSUME NEW k \in Key, Report(k) PROVE QueueInv'
    <2>1. PICK usb \in BOOLEAN : Callback(k, usb)
      BY <1>2 DEF Report
    <2>2. k \in unsaid /\ unsaid' = unsaid \ {k} /\ UNCHANGED deb
      BY <1>2 DEF Report
    <2>3. Len(queue) \in Nat /\ \A i \in 1 .. Len(queue) : queue[i].key # k
      BY <2>2 DEF QueueInv, TypeOK
    <2> DEFINE n == Len(queue)
               d == deb[k].pressed
    <2>4. /\ \A i \in 1 .. n : queue'[i] = queue[i]
          /\ \/ Len(queue') = n + 1 /\ queue'[Len(queue')] = [key |-> k, pressed |-> d]
             \/ queue' = queue
      BY <2>1, Reported
    <2>5. CASE queue' = queue
      BY <2>2, <2>5 DEF QueueInv
    <2>6. CASE Len(queue') = n + 1 /\ queue'[Len(queue')] = [key |-> k, pressed |-> d]
      <3>1. queue'[n + 1].key = k /\ queue'[n + 1].pressed = d
        BY <2>6
      <3>2. ASSUME NEW i \in 1 .. Len(queue')
            PROVE  /\ queue'[i].key \notin unsaid'
                   /\ queue'[i].pressed = deb'[queue'[i].key].pressed
        <4>1. CASE i = n + 1
          BY <2>2, <3>1, <4>1
        <4>2. CASE i # n + 1
          <5>1. i \in 1 .. n
            BY <2>3, <2>6, <4>2
          <5> QED
            BY <5>1, <2>2, <2>4 DEF QueueInv
        <4> QED
          BY <4>1, <4>2
      <3>3. ASSUME NEW i \in 1 .. Len(queue'), NEW j \in 1 .. Len(queue'),
                   queue'[i].key = queue'[j].key
            PROVE  i = j
        <4>1. (i = n + 1 \/ i \in 1 .. n) /\ (j = n + 1 \/ j \in 1 .. n)
          BY <2>3, <2>6
        <4>2. CASE i \in 1 .. n /\ j \in 1 .. n
          BY <2>4, <3>3, <4>2 DEF QueueInv
        <4>3. CASE i = n + 1 /\ j \in 1 .. n
          BY <2>3, <2>4, <3>1, <3>3, <4>3
        <4>4. CASE i \in 1 .. n /\ j = n + 1
          BY <2>3, <2>4, <3>1, <3>3, <4>4
        <4> QED
          BY <4>1, <4>2, <4>3, <4>4
      <3> QED
        BY <3>2, <3>3 DEF QueueInv
    <2> QED
      BY <2>4, <2>5, <2>6
  <1>3. CASE Process
    <2>1. UNCHANGED <<deb, unsaid>>
      BY <1>3 DEF Process
    <2>2. ASSUME NEW i \in 1 .. Len(queue')
          PROVE  /\ queue'[i].key \notin unsaid'
                 /\ queue'[i].pressed = deb'[queue'[i].key].pressed
      <3>1. i + 1 \in 1 .. Len(queue) /\ queue'[i] = queue[i + 1]
        BY <1>3, Processed
      <3>2. PICK j \in 1 .. Len(queue) : j = i + 1
        BY <3>1
      <3>3. queue'[i] = queue[j]
        BY <3>1, <3>2
      <3> QED
        BY <2>1, <3>3 DEF QueueInv
    <2>3. ASSUME NEW i \in 1 .. Len(queue'), NEW j \in 1 .. Len(queue'),
                 queue'[i].key = queue'[j].key
          PROVE  i = j
      <3>1. /\ i + 1 \in 1 .. Len(queue) /\ j + 1 \in 1 .. Len(queue)
            /\ queue[i + 1].key = queue[j + 1].key
            /\ Len(queue') \in Nat
        BY <1>3, <2>3, Processed
      <3>2. i + 1 = j + 1
        BY <3>1 DEF QueueInv
      <3> QED
        BY <3>1, <3>2
    <2> QED
      BY <2>2, <2>3 DEF QueueInv
  <1>4. CASE UNCHANGED <<queue, unsaid, deb>>
    BY <1>4 DEF QueueInv
  <1> QED
    BY <1>1, <1>2, <1>3, <1>4
    DEF Next, Work, Move, Irq, Timeout, ScanEnd, ProcessEnd, callback

-----------------------------------------------------------------------------
(* What the keymap knows *)

LEMMA UpdatedType ==
  ASSUME IInv, Scan
  PROVE  deb' \in [Key -> Switch] /\ \A k \in Key : deb[k] \in Switch /\ deb'[k] \in Switch
  <1>1. /\ deb' = [k \in Key |-> Update(deb[k], k \in closed, ScanMs, Config0)]
        /\ deb \in [Key -> Switch] /\ ScanMs \in Nat /\ Config0 \in Config
    BY KscanAssumption DEF IInv, TypeOK, Scan
  <1>2. ASSUME NEW k \in Key
        PROVE  Update(deb[k], k \in closed, ScanMs, Config0) \in Switch
    <2> DEFINE active == k \in closed
    <2>1. active \in BOOLEAN /\ deb[k] \in Switch
      BY <1>1
    <2> HIDE DEF active
    <2>2. Update(deb[k], active, ScanMs, Config0) \in Switch
      BY <1>1, <2>1, UpdateType
    <2> QED
      BY <2>2 DEF active
  <1> QED
    BY <1>1, <1>2

\* A read moves no key into or out of what the callback was told; a report, only
\* the key that is reported.
LEMMA ToldByScan ==
  ASSUME IInv, Scan
  PROVE  Told' = Told
  <1>1. unsaid = {}
    BY DEF IInv, WorkInv, Scan, Serves
  <1>2. ASSUME NEW k \in Key
        PROVE  /\ deb'[k].pressed \in BOOLEAN /\ deb[k].pressed \in BOOLEAN
               /\ k \in unsaid' <=> deb'[k].pressed # deb[k].pressed
    <2>1. deb[k] \in Switch /\ deb'[k] \in Switch
      BY UpdatedType
    <2>2. k \in unsaid' <=> deb'[k].pressed # deb[k].pressed
      BY DEF Scan
    <2> QED
      BY <2>1, <2>2 DEF Switch
  <1>3. ASSUME NEW k \in Key PROVE k \in Told' <=> k \in Told
    BY <1>1, <1>2 DEF Told
  <1> QED
    BY <1>3 DEF Told

LEMMA ToldByReport ==
  ASSUME IInv, NEW k \in Key, Report(k)
  PROVE  /\ deb[k].pressed \in BOOLEAN
         /\ (k \in Told) = ~deb[k].pressed
         /\ Told' = IF deb[k].pressed THEN Told \cup {k} ELSE Told \ {k}
  <1>1. deb[k] \in Switch
    BY DEF IInv, TypeOK
  <1>2. k \in unsaid /\ unsaid' = unsaid \ {k} /\ UNCHANGED deb
    BY DEF Report
  <1>3. deb[k].pressed \in BOOLEAN
    BY <1>1 DEF Switch
  <1>4. \A j \in Key \ {k} : j \in Told' <=> j \in Told
    BY <1>2 DEF Told
  <1>5. (k \in Told) = ~deb[k].pressed /\ (k \in Told') = deb[k].pressed
    BY <1>2, <1>3 DEF Told
  <1>6. Told \subseteq Key /\ Told' \subseteq Key
    BY DEF Told
  <1> QED
    BY <1>3, <1>4, <1>5, <1>6

LEMMA SeenStep ==
  ASSUME IInv, Next
  PROVE  SeenInv'
  <1> SUFFICES ASSUME NEW j \in Mapped, j \notin lost', About(j)' = {}
               PROVE  j \in seen' <=> j \in Told'
    BY DEF SeenInv
  <1>0. j \in Key
    BY KscanAssumption
  <1>1. CASE Scan
    BY <1>1, ToldByScan DEF Scan, callback, IInv, SeenInv, About
  <1>2. ASSUME NEW k \in Key, Report(k) PROVE j \in seen' <=> j \in Told'
    <2>1. PICK usb \in BOOLEAN : Callback(k, usb)
      BY <1>2 DEF Report
    <2>2. Len(queue) \in Nat /\ UNCHANGED seen
      BY <1>2 DEF IInv, TypeOK, Report
    <2> DEFINE n == Len(queue)
               d == deb[k].pressed
    <2>3. /\ \A i \in 1 .. n : queue'[i] = queue[i]
          /\ \/ /\ Len(queue') = n + 1 /\ lost' = lost \ {k}
                /\ queue'[Len(queue')] = [key |-> k, pressed |-> d]
             \/ queue' = queue /\ lost' = lost \cup {k}
      BY <2>1, Reported DEF IInv
    <2>4. j # k
      BY <2>2, <2>3 DEF About
    <2>5. j \notin lost /\ About(j) = {}
      BY <2>2, <2>3, <2>4 DEF About
    <2>6. j \in Told' <=> j \in Told
      BY <1>2, <2>4, ToldByReport
    <2> QED
      BY <2>2, <2>5, <2>6 DEF IInv, SeenInv
  <1>3. CASE Process
    <2> DEFINE m == queue[1]
    <2>1. /\ m = Head(queue) /\ m \in Message /\ Len(queue) \in Nat \ {0}
          /\ \A i \in 2 .. Len(queue) : i - 1 \in 1 .. Len(queue') /\ queue'[i - 1] = queue[i]
      BY <1>3, Processed DEF IInv
    <2>2. UNCHANGED <<deb, unsaid, lost>> /\ Told' = Told
      BY <1>3 DEF Process, Told
    <2>3. CASE j = m.key
      <3>1. j \notin unsaid /\ m.pressed = deb[j].pressed
        BY <2>1, <2>3 DEF IInv, QueueInv
      <3>2. m.pressed \in BOOLEAN
        BY <2>1 DEF Message
      <3>3. (j \in seen') <=> m.pressed
        BY <1>3, <2>1, <2>3, <3>2 DEF Process, HasPosition
      <3>4. (j \in Told) <=> m.pressed
        BY <1>0, <3>1, <3>2 DEF Told
      <3> QED
        BY <2>2, <3>3, <3>4
    <2>4. CASE j # m.key
      <3>1. About(j) = {}
        <4> SUFFICES ASSUME NEW i \in 1 .. Len(queue), queue[i].key = j PROVE FALSE
          BY DEF About
        <4>1. i \in 2 .. Len(queue)
          BY <2>1, <2>4
        <4>2. i - 1 \in 1 .. Len(queue') /\ queue'[i - 1].key = j
          BY <2>1, <4>1
        <4> QED
          BY <4>2 DEF About
      <3>2. (j \in seen') <=> (j \in seen)
        BY <1>3, <2>1, <2>4 DEF Process, HasPosition
      <3> QED
        BY <2>2, <3>1, <3>2 DEF IInv, SeenInv
    <2> QED
      BY <2>3, <2>4
  <1>4. CASE UNCHANGED <<deb, unsaid, queue, lost, seen>>
    BY <1>4 DEF IInv, SeenInv, About, Told
  <1> QED
    BY <1>1, <1>2, <1>3, <1>4
    DEF Next, Work, Move, Irq, Timeout, ScanEnd, ProcessEnd, callback

-----------------------------------------------------------------------------
(* The count *)

LEMMA CountStep ==
  ASSUME IInv, Next
  PROVE  CountExact'
  <1>0. count = Cardinality(CountedDown) /\ (noCheck => count > 0) /\ noCheck \in BOOLEAN
    BY DEF IInv, CountExact, CountedDown, TypeOK
  <1> SUFFICES count' = Cardinality(CountedDown') /\ (noCheck' => count' > 0)
    BY DEF CountExact, CountedDown
  <1>1. CASE UNCHANGED <<count, noCheck>> /\ Told' = Told
    BY <1>0, <1>1 DEF CountedDown
  <1>2. ASSUME NEW k \in Key, Report(k)
        PROVE  count' = Cardinality(CountedDown') /\ (noCheck' => count' > 0)
    <2>1. PICK usb \in BOOLEAN : Callback(k, usb)
      BY <1>2 DEF Report
    <2> DEFINE d == deb[k].pressed
               m == [key |-> k, pressed |-> d]
    <2>2. m.key = k /\ m.pressed = d
      OBVIOUS
    <2>3. /\ count' = CountKey(count, m) /\ noCheck' = CheckKey(noCheck, count, m, usb)
      BY <2>1 DEF Callback
    <2>4. /\ d \in BOOLEAN /\ (k \in Told) = ~d
          /\ Told' = IF d THEN Told \cup {k} ELSE Told \ {k}
      BY <1>2, ToldByReport
    <2>5. IsFiniteSet(CountedDown) /\ Cardinality(CountedDown) \in Nat
      BY CountedFinite
    <2>6. k[1] \in 0 .. LastRow /\ LastRow \in Nat
      BY RowType
    <2> HIDE DEF d, m
    <2>7. CASE k[1] = LastRow
      <3>1. CountedDown' = CountedDown
        BY <2>4, <2>6, <2>7 DEF CountedDown
      <3> QED
        BY <1>0, <2>2, <2>3, <2>7, <3>1 DEF CountKey, CheckKey
    <2>8. CASE k[1] # LastRow /\ d
      <3>1. CountedDown' = CountedDown \cup {k} /\ k \notin CountedDown
        BY <2>4, <2>6, <2>8 DEF CountedDown
      <3>2. Cardinality(CountedDown') = Cardinality(CountedDown) + 1
        BY <2>5, <3>1, FS_AddElement
      <3>3. count' = count + 1
        BY <2>2, <2>3, <2>8 DEF CountKey
      <3> QED
        BY <1>0, <2>5, <3>2, <3>3
    <2>9. CASE k[1] # LastRow /\ ~d
      <3>1. CountedDown' = CountedDown \ {k} /\ k \in CountedDown
        BY <2>4, <2>6, <2>9 DEF CountedDown
      <3>2. Cardinality(CountedDown') = Cardinality(CountedDown) - 1
        BY <2>5, <3>1, FS_RemoveElement
      <3>3. Cardinality(CountedDown') \in Nat
        BY <2>5, <3>1, FS_RemoveElement, FS_CardinalityType
      <3>4. count' = count - 1 /\ count > 0
        BY <1>0, <2>2, <2>3, <2>5, <2>9, <3>2, <3>3 DEF CountKey
      <3>5. noCheck' => CountKey(count, m) > 0
        BY <2>2, <2>3, <2>9 DEF CheckKey
      <3> QED
        BY <1>0, <2>3, <3>2, <3>4, <3>5
    <2> QED
      BY <2>4, <2>7, <2>8, <2>9
  <1>3. Scan => UNCHANGED <<count, noCheck>> /\ Told' = Told
    BY ToldByScan DEF Scan, callback
  <1>4. UNCHANGED <<deb, unsaid>> => Told' = Told
    BY DEF Told
  <1> QED
    BY <1>1, <1>2, <1>3, <1>4
    DEF Next, Work, Move, Irq, Timeout, ScanEnd, Process, ProcessEnd, callback

-----------------------------------------------------------------------------
LEMMA TypeStep ==
  ASSUME IInv, Next
  PROVE  TypeOK'
  <1> USE DEF IInv
  <1>0. TypeOK /\ InLine(work) /\ Mapped \subseteq Key
    BY KscanAssumption DEF WorkInv
  <1>1. ASSUME NEW k \in Key, Move(k) PROVE TypeOK'
    BY <1>0, <1>1 DEF Move, TypeOK, handshake, callback
  <1>2. CASE Irq \/ Timeout
    <2>1. /\ Submit("scan") /\ UNCHANGED <<closed, deb, scanning, unsaid, callback, seen>>
          /\ {armed', timer'} \subseteq BOOLEAN
      BY <1>0, <1>2 DEF Irq, Timeout, TypeOK
    <2>2. work' \in Seq({"scan", "process"}) /\ Len(work') <= 2
      BY <1>0, <2>1, Submitted
    <2> QED
      BY <1>0, <2>1, <2>2 DEF TypeOK, callback
  <1>3. CASE Scan
    <2>1. work' \in Seq({"scan", "process"}) /\ Len(work') <= 2
      BY <1>0, <1>3, Served DEF Scan
    <2>2. deb' \in [Key -> Switch]
      BY <1>3, UpdatedType
    <2>3. scanning' \in BOOLEAN /\ unsaid' \subseteq Key
      BY <1>3 DEF Scan
    <2> QED
      BY <1>0, <1>3, <2>1, <2>2, <2>3 DEF Scan, TypeOK, callback
  <1>4. CASE ScanEnd
    BY <1>0, <1>4 DEF ScanEnd, TypeOK, callback
  <1>5. CASE Process
    <2>1. queue' \in Seq(Message) /\ Len(queue') <= QueueSize
      BY <1>0, <1>5, Processed, KscanAssumption DEF TypeOK
    <2>2. seen' \subseteq Mapped
      BY <1>0, <1>5 DEF Process, HasPosition, TypeOK
    <2> QED
      BY <1>0, <1>5, <2>1, <2>2 DEF Process, TypeOK, handshake
  <1>6. CASE ProcessEnd
    <2>1. work' \in Seq({"scan", "process"}) /\ Len(work') <= 2
      BY <1>0, <1>6, Served DEF ProcessEnd
    <2> QED
      BY <1>0, <1>6, <2>1 DEF ProcessEnd, TypeOK, handshake, callback
  <1>7. ASSUME NEW k \in Key, Report(k) PROVE TypeOK'
    <2>1. PICK usb \in BOOLEAN : Callback(k, usb)
      BY <1>7 DEF Report
    <2>2. queue' \in Seq(Message) /\ Len(queue') <= QueueSize /\ lost' \subseteq Key
      BY <1>0, <2>1, Reported DEF TypeOK
    <2>3. ~Queued("scan")
      BY <1>7 DEF Report, WorkInv, OneCause
    <2>4. work' \in Seq({"scan", "process"}) /\ Len(work') <= 2
      BY <1>0, <2>1, <2>3, Submitted DEF Callback
    <2>5. count' \in Nat
      BY <1>0, <2>1 DEF Callback, CountKey, TypeOK
    <2>6. noCheck' \in BOOLEAN
      BY <1>0, <2>1 DEF Callback, CheckKey, TypeOK
    <2> QED
      BY <1>0, <1>7, <2>2, <2>4, <2>5, <2>6 DEF Report, TypeOK, handshake
  <1> QED
    BY <1>1, <1>2, <1>3, <1>4, <1>5, <1>6, <1>7 DEF Next, Work

LEMMA IInvInit ==
  ASSUME Init
  PROVE  IInv
  <1>1. Open \in Switch
    BY CounterAssumption DEF Open, Switch
  <1>2. Len(work) = 0 /\ Len(queue) = 0
    BY DEF Init
  <1>3. work \in Seq({"scan", "process"}) /\ queue \in Seq(Message) /\ QueueSize \in Nat
    BY KscanAssumption DEF Init
  <1>8. TypeOK
    <2>1. deb \in [Key -> Switch]
      BY <1>1 DEF Init
    <2>2. {armed, timer, scanning, noCheck} \subseteq BOOLEAN /\ count \in Nat
      BY DEF Init
    <2>3. closed \subseteq Key /\ unsaid \subseteq Key /\ seen \subseteq Mapped /\ lost \subseteq Key
      BY DEF Init
    <2> QED
      BY <1>2, <1>3, <2>1, <2>2, <2>3 DEF TypeOK
  <1>4. WorkInv /\ QueueInv
    BY <1>2 DEF Init, WorkInv, OneCause, Queued, InLine, QueueInv
  <1>5. Told = {}
    <2>1. \A k \in Key : deb[k].pressed = FALSE
      BY DEF Init, Open
    <2>2. \A k \in Key : (k \in unsaid) = FALSE
      BY DEF Init
    <2>3. \A k \in Key : ~(deb[k].pressed # (k \in unsaid))
      BY <2>1, <2>2
    <2> QED
      BY <2>3 DEF Told
  <1>6. CountExact
    BY <1>5, FS_EmptySet DEF Init, CountExact
  <1>7. SeenInv /\ ArmedWhenIdle
    BY <1>5 DEF Init, SeenInv, ArmedWhenIdle
  <1> QED
    BY <1>4, <1>6, <1>7, <1>8 DEF IInv

\* The invariant that carries the rest: the causes of a scan take turns, every
\* message is from the last scan, and what has no message is known.
THEOREM Bookkeeping == Spec => []IInv
  <1>1. IInv /\ [Next]_vars => IInv'
    <2>1. CASE Next
      BY <2>1, TypeStep, WorkStep, ArmedStep, CountStep, QueueStep, SeenStep DEF IInv
    <2>2. CASE UNCHANGED vars
      BY <2>2 DEF vars, IInv, TypeOK, WorkInv, OneCause, Queued, InLine, ArmedWhenIdle,
                  CountExact, Told, QueueInv, SeenInv, About
    <2> QED
      BY <2>1, <2>2
  <1> QED
    BY IInvInit, <1>1, PTL DEF Spec

\* A scan finds the message queue empty, counts are exact, one cause at a time
\* runs the scan, and an armed matrix is at rest (kscan_gpio_matrix.c, kscan.c).
THEOREM MatrixSound == Spec => []KscanSound
  <1>1. IInv => KscanSound
    <2> SUFFICES ASSUME IInv PROVE DrainedBeforeScan
      BY DEF IInv, WorkInv, KscanSound
    <2>1. Serves("scan") => ~Queued("process")
      BY OutOfLine DEF Serves, IInv, TypeOK, WorkInv, Queued
    <2> QED
      BY <2>1 DEF DrainedBeforeScan, IInv, WorkInv
  <1> QED
    BY <1>1, Bookkeeping, PTL

\* Once drained, the queue has told the keymap what the scan has found, but for
\* keys whose last report it refused (kscan.c:103-106).
THEOREM KeymapKnows == Spec => []NothingElseLost
  <1>1. IInv => NothingElseLost
    <2> SUFFICES ASSUME IInv, NEW k \in Mapped \ lost PROVE Believed(k) <=> k \in Told
      BY DEF NothingElseLost
    <2>0. k \in Key
      BY KscanAssumption
    <2>1. CASE About(k) = {}
      BY <2>1 DEF Believed, IInv, SeenInv
    <2>2. ASSUME NEW i \in About(k) PROVE Believed(k) <=> k \in Told
      <3>1. i \in 1 .. Len(queue) /\ queue[i].key = k /\ Len(queue) \in Nat
        BY <2>2 DEF About, IInv, TypeOK
      <3>2. \A j \in About(k) : j = i
        BY <3>1 DEF About, IInv, QueueInv
      <3>3. k \notin unsaid /\ queue[i].pressed = deb[k].pressed
        BY <3>1 DEF IInv, QueueInv
      <3>4. deb[k] \in Switch
        BY <2>0 DEF IInv, TypeOK
      <3>5. deb[k].pressed \in BOOLEAN
        BY <3>4 DEF Switch
      <3>6. Believed(k) <=> deb[k].pressed
        BY <2>2, <3>1, <3>2, <3>3 DEF Believed
      <3>7. (k \in Told) <=> deb[k].pressed
        BY <2>0, <3>3, <3>5 DEF Told
      <3> QED
        BY <3>6, <3>7
    <2> QED
      BY <2>1, <2>2
  <1> QED
    BY <1>1, Bookkeeping, PTL

=============================================================================
