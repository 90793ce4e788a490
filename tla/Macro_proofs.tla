----------------------------- MODULE Macro_proofs ---------------------------
(***************************************************************************)
(* The behavior queue, for all macros, every size of the queue and every   *)
(* interleaving of the thread, the counter and the timer: the chip is awake *)
(* while a wait counts, a launcher macro leaves the output as it was, and  *)
(* the steps of a macro run in order, each once.                           *)
(*                                                                         *)
(* First what the macros queue and how a step changes the calls that are   *)
(* still to be made, then the types and the three invariants.              *)
(***************************************************************************)
EXTENDS Macro, SequenceTheorems, WellFoundedInduction, TLAPS

-----------------------------------------------------------------------------
(* Numbers *)

LEMMA LeastOne ==
  ASSUME NEW T \in SUBSET Nat, T # {}
  PROVE  \E n \in T : \A k \in T : n <= k
  <1> DEFINE R == OpToRel(<, Nat)
  <1>1. IsWellFoundedOn(R, Nat)
    BY NatLessThanWellFounded, Zenon
  <1>2. \A n, k \in Nat : n < k => <<n, k>> \in R
    BY DEF OpToRel
  <1> HIDE DEF R
  <1>3. PICK n \in T : \A k \in T : ~(<<k, n>> \in R)
    BY <1>1, WFMin
  <1>4. ASSUME NEW k \in T PROVE n <= k
    <2>1. n \in Nat /\ k \in Nat /\ ~(<<k, n>> \in R)
      BY <1>3
    <2>2. ~(k < n)
      BY <1>2, <2>1
    <2> QED
      BY <2>1, <2>2
  <1> QED
    BY <1>4

-----------------------------------------------------------------------------
(* What a macro queues (behavior_macro.c) *)

Queued == [bind : STRING, press : BOOLEAN, wait : {0, 1}]
Triggers == [mode : Mode, tap : {0, 1}, wait : {0, 1}, items : Seq(Queued)]

LEMMA Pair ==
  ASSUME NEW S, NEW a \in S, NEW b \in S
  PROVE  <<a, b>> \in Seq(S)
  OBVIOUS

LEMMA AddBindingType ==
  ASSUME NEW t \in Triggers, NEW b \in Binding
  PROVE  AddBinding(t, b) \in Triggers
  <1>1. CASE b.kind \in Mode
    BY <1>1 DEF AddBinding, Triggers, Binding
  <1>2. CASE b.kind \in {"tap-time", "wait-time", "pause"}
    BY <1>2 DEF AddBinding, Triggers, Binding, Mode
  <1>3. CASE b.kind = "key"
    <2> DEFINE item(press, wait) == [bind |-> b.key, press |-> press, wait |-> wait]
               more == CASE t.mode = "tap" -> <<item(TRUE, t.tap), item(FALSE, t.wait)>>
                         [] t.mode = "press" -> <<item(TRUE, t.wait)>>
                         [] t.mode = "release" -> <<item(FALSE, t.wait)>>
    <2>1. more \in Seq(Queued)
      <3>1. \A p \in BOOLEAN, w \in {0, 1} : item(p, w) \in Queued
        BY DEF Queued, Binding
      <3>2. t.tap \in {0, 1} /\ t.wait \in {0, 1} /\ t.mode \in {"tap", "press", "release"}
        BY DEF Triggers, Mode
      <3> HIDE DEF item
      <3>3. <<item(TRUE, t.tap), item(FALSE, t.wait)>> \in Seq(Queued)
        BY <3>1, <3>2, Pair
      <3>4. \A p \in BOOLEAN : <<item(p, t.wait)>> \in Seq(Queued)
        BY <3>1, <3>2
      <3>5. CASE t.mode = "tap"
        BY <3>3, <3>5
      <3>6. CASE t.mode = "press"
        BY <3>4, <3>6
      <3>7. CASE t.mode = "release"
        BY <3>4, <3>7
      <3> QED
        BY <3>2, <3>5, <3>6, <3>7
    <2> HIDE DEF more
    <2>2. t.items \o more \in Seq(Queued)
      BY <2>1 DEF Triggers
    <2>3. AddBinding(t, b) = [t EXCEPT !.items = t.items \o more]
      BY <1>3 DEF AddBinding, Mode, more, Triggers
    <2> QED
      BY <2>2, <2>3 DEF Triggers
  <1> QED
    BY <1>1, <1>2, <1>3 DEF Binding, Kind

\* The triggers that a macro's bindings, from the first to the n-th, lead to.
Leads(f, t, s, m) == f = [n \in 0 .. m |-> IF n = 0 THEN t ELSE AddBinding(f[n - 1], s[n])]

LEMMA LeadsExists ==
  ASSUME NEW t, NEW s, NEW top \in Nat
  PROVE  \E f : Leads(f, t, s, top)
  <1> DEFINE T == {m \in Nat : ~ \E f : Leads(f, t, s, m)}
  <1> SUFFICES ASSUME T # {} PROVE FALSE
    OBVIOUS
  <1>1. PICK m \in T : \A k \in T : m <= k
    <2>1. T \in SUBSET Nat
      OBVIOUS
    <2> HIDE DEF T
    <2> QED
      BY <2>1, LeastOne
  <1>2. m # 0
    <2>1. [n \in 0 .. 0 |-> t] = [n \in 0 .. 0 |-> IF n = 0 THEN t
                                    ELSE AddBinding([k \in 0 .. 0 |-> t][n - 1], s[n])]
      OBVIOUS
    <2>2. Leads([n \in 0 .. 0 |-> t], t, s, 0)
      BY <2>1 DEF Leads
    <2> QED
      BY <1>1, <2>2
  <1>3. m - 1 \in Nat /\ m - 1 \notin T
    BY <1>1, <1>2
  <1>4. PICK f : Leads(f, t, s, m - 1)
    BY <1>3
  <1> DEFINE g == [n \in 0 .. m |-> IF n = m THEN AddBinding(f[m - 1], s[m]) ELSE f[n]]
             h == [n \in 0 .. m |-> IF n = 0 THEN t ELSE AddBinding(g[n - 1], s[n])]
  <1>5. ASSUME NEW n \in 0 .. m PROVE g[n] = h[n]
    <2>1. n # 0 => n - 1 \in 0 .. m /\ n - 1 # m
      BY <1>1
    <2>2. CASE n = m
      BY <1>2, <2>1, <2>2
    <2>3. CASE n # m
      <3>1. n \in 0 .. m - 1 /\ (n # 0 => g[n - 1] = f[n - 1]) /\ g[n] = f[n]
        BY <1>3, <2>1, <2>3
      <3>2. f[n] = IF n = 0 THEN t ELSE AddBinding(f[n - 1], s[n])
        BY <1>4, <3>1 DEF Leads
      <3> QED
        BY <3>1, <3>2
    <2> QED
      BY <2>2, <2>3
  <1>6. g = h
    <2>1. g = [n \in 0 .. m |-> g[n]] /\ h = [n \in 0 .. m |-> h[n]]
      OBVIOUS
    <2> QED
      BY ONLY <1>5, <2>1
  <1> HIDE DEF g
  <1>7. Leads(g, t, s, m)
    BY <1>6 DEF Leads
  <1> QED
    BY <1>1, <1>7

LEMMA ThroughType ==
  ASSUME NEW t \in Triggers, NEW s \in Seq(Binding)
  PROVE  Through(t, s) \in Triggers
  <1> DEFINE f == CHOOSE f : Leads(f, t, s, Len(s))
  <1>1. Leads(f, t, s, Len(s))
    BY LeadsExists
  <1>2. Through(t, s) = f[Len(s)]
    BY DEF Through, Leads
  <1> HIDE DEF f
  <1> DEFINE T == {n \in 0 .. Len(s) : f[n] \notin Triggers}
  <1>3. T = {}
    <2> SUFFICES ASSUME T # {} PROVE FALSE
      OBVIOUS
    <2>1. PICK n \in T : \A k \in T : n <= k
      <3>1. T \in SUBSET Nat
        OBVIOUS
      <3> HIDE DEF T
      <3> QED
        BY <3>1, LeastOne
    <2>2. f[n] = IF n = 0 THEN t ELSE AddBinding(f[n - 1], s[n])
      BY <1>1, <2>1 DEF Leads
    <2>3. n # 0 /\ n - 1 \in 0 .. Len(s) /\ ~(n <= n - 1) /\ s[n] \in Binding
      BY <2>1, <2>2
    <2>4. f[n - 1] \in Triggers
      BY <2>1, <2>3
    <2> QED
      BY <2>1, <2>2, <2>3, <2>4, AddBindingType
  <1> QED
    BY <1>2, <1>3

LEMMA PauseType ==
  ASSUME NEW s \in Seq(Binding)
  PROVE  BeforePause(s) \in Seq(Binding) /\ AfterPause(s) \in Seq(Binding)
  <1>1. PauseAt(s) \in 1 .. Len(s) + 1
    <2> DEFINE I == {i \in 1 .. Len(s) : s[i].kind = "pause"}
    <2>1. CASE I = {}
      BY <2>1 DEF PauseAt, SelectInSeq
    <2>2. CASE I # {}
      <3>1. I \in SUBSET Nat
        OBVIOUS
      <3>2. Min(I) \in I
        <4> HIDE DEF I
        <4> QED
          BY <2>2, <3>1, LeastOne DEF Min
      <3> QED
        BY <2>2, <3>2 DEF PauseAt, SelectInSeq
    <2> QED
      BY <2>1, <2>2
  <1>2. SubSeq(s, 1, PauseAt(s) - 1) \in Seq(Binding)
    <2>1. \A i \in 1 .. PauseAt(s) - 1 : s[i] \in Binding
      BY <1>1
    <2> QED
      BY <1>1, <2>1
  <1>3. SubSeq(s, PauseAt(s) + 1, Len(s)) \in Seq(Binding)
    <2>1. \A i \in PauseAt(s) + 1 .. Len(s) : s[i] \in Binding
      BY <1>1
    <2> QED
      BY <1>1, <2>1
  <1> QED
    BY <1>2, <1>3 DEF BeforePause, AfterPause

LEMMA HalfType ==
  ASSUME setup \in Setups, NEW m \in DOMAIN setup.dts, NEW press \in BOOLEAN
  PROVE  Half(m, press) \in Seq(Queued)
  <1>0. setup.dts[m] \in [bindings : Seq(Binding), tap : {0, 1}, wait : {0, 1}]
    BY MacroAssumption
  <1> DEFINE d == setup.dts[m]
             atPause == Through(Trigger("tap", 0, 0), BeforePause(d.bindings))
  <1>1. d.bindings \in Seq(Binding) /\ d.tap \in {0, 1} /\ d.wait \in {0, 1}
    BY <1>0
  <1> HIDE DEF d
  <1>2. Trigger("tap", d.tap, d.wait) \in Triggers /\ Trigger("tap", 0, 0) \in Triggers
    BY <1>1 DEF Trigger, Triggers, Mode
  <1>3. BeforePause(d.bindings) \in Seq(Binding) /\ AfterPause(d.bindings) \in Seq(Binding)
    BY <1>1, PauseType
  <1>4. PressItems(d) \in Seq(Queued)
    <2>1. Through(Trigger("tap", d.tap, d.wait), BeforePause(d.bindings)) \in Triggers
      BY <1>2, <1>3, ThroughType
    <2> QED
      BY <2>1 DEF PressItems, Triggers
  <1>5. ReleaseItems(d) \in Seq(Queued)
    <2>1. atPause \in Triggers
      BY <1>2, <1>3, ThroughType
    <2>2. [atPause EXCEPT !.items = <<>>] \in Triggers
      <3> HIDE DEF atPause
      <3>1. /\ <<>> \in Seq(Queued)
            /\ DOMAIN atPause = {"mode", "tap", "wait", "items"}
        BY <2>1 DEF Triggers
      <3>2. [atPause EXCEPT !.items = <<>>]
              = [mode |-> atPause.mode, tap |-> atPause.tap, wait |-> atPause.wait, items |-> <<>>]
        BY <2>1 DEF Triggers
      <3>3. atPause.mode \in Mode /\ atPause.tap \in {0, 1} /\ atPause.wait \in {0, 1}
        BY <2>1 DEF Triggers
      <3> QED
        BY ONLY <3>1, <3>2, <3>3 DEF Triggers
    <2>3. Through([atPause EXCEPT !.items = <<>>], AfterPause(d.bindings)) \in Triggers
      <3> HIDE DEF atPause
      <3> QED
        BY <1>3, <2>2, ThroughType
    <2> QED
      BY <2>3 DEF ReleaseItems, Triggers
  <1> QED
    BY <1>4, <1>5 DEF Half, d

-----------------------------------------------------------------------------
(* Calls that are still to be made *)

Calls ==
  [op : {"add", "invoke"}, item : Item]
    \cup [op : {"check", "process", "started", "flags", "end-work", "end-interrupt", "exec",
                "send-end", "done"}]
    \cup [op : {"wait"}, wait : {0, 1}]
    \cup [op : {"exec-step"}, count : Nat]
    \cup [op : {"feed"}, step : Step]

\* What the next steps of a call are put in the place of: its head.
Spliced(new, calls, old) ==
  /\ Len(new) = Len(calls) + Len(old) - 1
  /\ \A i \in 1 .. Len(calls) : i \in 1 .. Len(new) /\ new[i] = calls[i]
  /\ \A i \in 1 .. Len(new) : i > Len(calls) =>
       i - Len(calls) + 1 \in 2 .. Len(old) /\ new[i] = old[i - Len(calls) + 1]
  /\ \A i \in 2 .. Len(old) :
       i + Len(calls) - 1 \in 1 .. Len(new) /\ new[i + Len(calls) - 1] = old[i]

LEMMA Splices ==
  ASSUME NEW S, NEW old \in Seq(S), old # <<>>, NEW calls \in Seq(S)
  PROVE  calls \o Tail(old) \in Seq(S) /\ Spliced(calls \o Tail(old), calls, old)
  <1> DEFINE t == Tail(old)
             new == calls \o t
  <1>1. /\ Len(old) \in Nat \ {0} /\ t \in Seq(S) /\ Len(t) = Len(old) - 1
        /\ \A i \in 1 .. Len(t) : t[i] = old[i + 1]
    OBVIOUS
  <1>2. Len(calls) \in Nat
    OBVIOUS
  <1> HIDE DEF t
  <1>3. /\ new \in Seq(S) /\ Len(new) = Len(calls) + Len(t)
        /\ \A i \in 1 .. Len(new) :
             new[i] = IF i <= Len(calls) THEN calls[i] ELSE t[i - Len(calls)]
    <2>1. /\ new \in Seq(S) /\ Len(new) = Len(calls) + Len(t)
          /\ \A i \in 1 .. Len(calls) + Len(t) :
               new[i] = IF i <= Len(calls) THEN calls[i] ELSE t[i - Len(calls)]
      <3>1. t \in Seq(S)
        BY <1>1
      <3> QED
        BY ONLY <3>1, ConcatProperties
    <2> HIDE DEF new
    <2> QED
      BY <2>1
  <1> HIDE DEF new
  <1>4. ASSUME NEW i \in 1 .. Len(new), i > Len(calls)
        PROVE  i - Len(calls) + 1 \in 2 .. Len(old) /\ new[i] = old[i - Len(calls) + 1]
    <2>1. i - Len(calls) \in 1 .. Len(t) /\ ~(i <= Len(calls))
      BY <1>1, <1>2, <1>3, <1>4
    <2>2. new[i] = t[i - Len(calls)]
      BY <1>3, <2>1
    <2>4. (i - Len(calls)) + 1 \in 2 .. Len(old)
      BY <1>1, <1>2, <2>1
    <2>3. t[i - Len(calls)] = old[(i - Len(calls)) + 1]
      BY <1>1, <2>1
    <2> QED
      BY ONLY <2>2, <2>3, <2>4
  <1>5. ASSUME NEW i \in 2 .. Len(old)
        PROVE  i + Len(calls) - 1 \in 1 .. Len(new) /\ new[i + Len(calls) - 1] = old[i]
    <2>1. /\ i + Len(calls) - 1 \in 1 .. Len(new) /\ ~(i + Len(calls) - 1 <= Len(calls))
          /\ (i + Len(calls) - 1) - Len(calls) = i - 1 /\ i - 1 \in 1 .. Len(t)
          /\ (i - 1) + 1 = i
      BY <1>1, <1>2, <1>3
    <2> QED
      BY <1>1, <1>3, <2>1
  <1>6. \A i \in 1 .. Len(calls) : i \in 1 .. Len(new) /\ new[i] = calls[i]
    BY <1>1, <1>2, <1>3
  <1>7. new \in Seq(S) /\ Spliced(new, calls, old)
    BY <1>1, <1>2, <1>3, <1>4, <1>5, <1>6 DEF Spliced
  <1> QED
    BY <1>7 DEF new, t

-----------------------------------------------------------------------------
(* The types, and that there is one launcher macro at a time *)

Has(ops) == \E i \in DOMAIN todo : todo[i].op \in ops

\* The calls that a launcher macro goes on with.
Controls == {"exec", "exec-step", "done"}
Launching == Controls \cup {"feed", "send-end"}

Types ==
  /\ TypeOK
  /\ todo \in Seq(Calls)
  /\ at # None => at \in [macro : DOMAIN setup.launcher, next : Nat, run : Nat \ {0}, step : Nat]

\* A launcher macro goes on with one call, or when the timer expires.
ControlInv ==
  /\ \A i, j \in DOMAIN todo : todo[i].op \in Controls /\ todo[j].op \in Controls => i = j
  /\ Has(Controls) => ~timer /\ at # None
  /\ timer => at # None
  /\ \A i \in DOMAIN todo : todo[i].op = "feed" =>
       i = 1 /\ Len(todo) > 1 /\ todo[2].op = "exec-step"
  /\ \A i \in DOMAIN todo : todo[i].op = "send-end" =>
       i = 1 /\ Len(todo) > 1 /\ todo[2].op = "done"

Sound == Types /\ ControlInv

LEMMA CallKinds ==
  ASSUME NEW c \in Calls
  PROVE  /\ c.op \in {"add", "invoke"} => c.item \in Item
         /\ c.op = "wait" => c.wait \in {0, 1}
         /\ c.op = "exec-step" => c.count \in Nat
         /\ c.op = "feed" => c.step \in Step
  <1>1. CASE c \in [op : {"add", "invoke"}, item : Item]
    BY <1>1
  <1>2. CASE c \in [op : {"check", "process", "started", "flags", "end-work", "end-interrupt",
                          "exec", "send-end", "done"}]
    BY <1>2
  <1>3. CASE c \in [op : {"wait"}, wait : {0, 1}]
    BY <1>3
  <1>4. CASE c \in [op : {"exec-step"}, count : Nat]
    BY <1>4
  <1>5. CASE c \in [op : {"feed"}, step : Step]
    BY <1>5
  <1> QED
    BY <1>1, <1>2, <1>3, <1>4, <1>5 DEF Calls

LEMMA CallsMade ==
  /\ Check \in Calls /\ Process \in Calls /\ Started \in Calls /\ Flags \in Calls
  /\ EndWork \in Calls /\ EndInterrupt \in Calls /\ Exec \in Calls /\ SendEnd \in Calls
  /\ Done \in Calls
  /\ \A x \in Item : Add(x) \in Calls /\ Invoke(x) \in Calls
  /\ \A w \in {0, 1} : Wait(w) \in Calls
  /\ \A n \in Nat : ExecStep(n) \in Calls
  /\ \A s \in Step : Feed(s) \in Calls
  BY DEF Calls, Check, Process, Started, Flags, EndWork, EndInterrupt, Exec, SendEnd, Done, Add,
         Invoke, Wait, ExecStep, Feed

\* The call that is made next.
LEMMA HeadCall ==
  ASSUME todo \in Seq(Calls), todo # <<>>
  PROVE  /\ Len(todo) \in Nat \ {0} /\ 1 \in DOMAIN todo /\ DOMAIN todo = 1 .. Len(todo)
         /\ Head(todo) = todo[1] /\ todo[1] \in Calls
  OBVIOUS

LEMMA ThenType ==
  ASSUME todo \in Seq(Calls), todo # <<>>, NEW c \in Seq(Calls), Then(c)
  PROVE  /\ todo' \in Seq(Calls) /\ Spliced(todo', c, todo)
         /\ Len(todo') \in Nat /\ DOMAIN todo' = 1 .. Len(todo')
  BY Splices DEF Then

\* What that is when the call makes none, one, two or three others.
LEMMA Popped ==
  ASSUME todo \in Seq(Calls), todo # <<>>, Then(<<>>)
  PROVE  /\ todo' \in Seq(Calls) /\ Len(todo') \in Nat /\ DOMAIN todo' = 1 .. Len(todo')
         /\ Len(todo') = Len(todo) - 1
         /\ \A i \in DOMAIN todo' :
              i \in Nat \ {0} /\ i + 1 \in DOMAIN todo /\ i + 1 # 1 /\ todo'[i] = todo[i + 1]
         /\ \A i \in DOMAIN todo : i # 1 => i - 1 \in DOMAIN todo' /\ todo'[i - 1] = todo[i]
  <1>1. todo' = Tail(todo)
    BY DEF Then
  <1> QED
    BY <1>1

LEMMA ReplacedByOne ==
  ASSUME todo \in Seq(Calls), todo # <<>>, NEW a \in Calls, Then(<<a>>)
  PROVE  /\ todo' \in Seq(Calls) /\ Len(todo') \in Nat /\ DOMAIN todo' = 1 .. Len(todo')
         /\ Len(todo') = Len(todo) /\ DOMAIN todo' = DOMAIN todo
         /\ 1 \in DOMAIN todo' /\ todo'[1] = a
         /\ \A i \in DOMAIN todo' : i # 1 => todo'[i] = todo[i]
  <1>1. <<a>> \in Seq(Calls) /\ Len(<<a>>) = 1 /\ <<a>>[1] = a
    OBVIOUS
  <1>2. /\ todo' \in Seq(Calls) /\ Spliced(todo', <<a>>, todo)
        /\ Len(todo') \in Nat /\ DOMAIN todo' = 1 .. Len(todo')
    BY <1>1, ThenType
  <1>3. Len(todo) \in Nat \ {0} /\ DOMAIN todo = 1 .. Len(todo)
    OBVIOUS
  <1> QED
    BY <1>1, <1>2, <1>3 DEF Spliced

LEMMA ReplacedByTwo ==
  ASSUME todo \in Seq(Calls), todo # <<>>, NEW a \in Calls, NEW b \in Calls, Then(<<a, b>>)
  PROVE  /\ todo' \in Seq(Calls) /\ Len(todo') \in Nat /\ DOMAIN todo' = 1 .. Len(todo')
         /\ Len(todo') = Len(todo) + 1
         /\ 1 \in DOMAIN todo' /\ todo'[1] = a /\ 2 \in DOMAIN todo' /\ todo'[2] = b
         /\ \A i \in DOMAIN todo' : i # 1 /\ i # 2 =>
              i \in Nat /\ i - 1 \in DOMAIN todo /\ i - 1 # 1 /\ todo'[i] = todo[i - 1]
         /\ \A i \in DOMAIN todo : i # 1 => i + 1 \in DOMAIN todo' /\ todo'[i + 1] = todo[i]
  <1>1. <<a, b>> \in Seq(Calls) /\ Len(<<a, b>>) = 2 /\ <<a, b>>[1] = a /\ <<a, b>>[2] = b
    BY Pair
  <1>2. /\ todo' \in Seq(Calls) /\ Spliced(todo', <<a, b>>, todo)
        /\ Len(todo') \in Nat /\ DOMAIN todo' = 1 .. Len(todo')
    BY <1>1, ThenType
  <1>3. Len(todo) \in Nat \ {0} /\ DOMAIN todo = 1 .. Len(todo)
    OBVIOUS
  <1> QED
    BY <1>1, <1>2, <1>3 DEF Spliced

LEMMA ReplacedByThree ==
  ASSUME todo \in Seq(Calls), todo # <<>>, NEW a \in Calls, NEW b \in Calls, NEW d \in Calls,
         Then(<<a, b, d>>)
  PROVE  /\ todo' \in Seq(Calls) /\ Len(todo') \in Nat /\ DOMAIN todo' = 1 .. Len(todo')
         /\ Len(todo') = Len(todo) + 2
         /\ 1 \in DOMAIN todo' /\ todo'[1] = a /\ 2 \in DOMAIN todo' /\ todo'[2] = b
         /\ 3 \in DOMAIN todo' /\ todo'[3] = d
         /\ \A i \in DOMAIN todo' : i # 1 /\ i # 2 /\ i # 3 =>
              i \in Nat /\ i - 2 \in DOMAIN todo /\ i - 2 # 1 /\ todo'[i] = todo[i - 2]
         /\ \A i \in DOMAIN todo : i # 1 => i + 2 \in DOMAIN todo' /\ todo'[i + 2] = todo[i]
  <1>1. /\ <<a, b, d>> \in Seq(Calls) /\ Len(<<a, b, d>>) = 3
        /\ <<a, b, d>>[1] = a /\ <<a, b, d>>[2] = b /\ <<a, b, d>>[3] = d
    OBVIOUS
  <1>2. /\ todo' \in Seq(Calls) /\ Spliced(todo', <<a, b, d>>, todo)
        /\ Len(todo') \in Nat /\ DOMAIN todo' = 1 .. Len(todo')
    BY <1>1, ThenType
  <1>3. Len(todo) \in Nat \ {0} /\ DOMAIN todo = 1 .. Len(todo)
    OBVIOUS
  <1> QED
    BY <1>1, <1>2, <1>3 DEF Spliced

\* What it is when an interrupt puts two calls in front of those of the thread.
Interposed(a, b) ==
  /\ todo' \in Seq(Calls) /\ Len(todo') \in Nat /\ DOMAIN todo' = 1 .. Len(todo')
  /\ Len(todo') = Len(todo) + 2
  /\ 1 \in DOMAIN todo' /\ todo'[1] = a /\ 2 \in DOMAIN todo' /\ todo'[2] = b
  /\ \A i \in DOMAIN todo' : i # 1 /\ i # 2 =>
       i \in Nat /\ i - 2 \in DOMAIN todo /\ todo'[i] = todo[i - 2]
  /\ \A i \in DOMAIN todo : i + 2 \in DOMAIN todo' /\ todo'[i + 2] = todo[i]

LEMMA Interposes ==
  ASSUME todo \in Seq(Calls), NEW a \in Calls, NEW b \in Calls, todo' = <<a, b>> \o todo
  PROVE  Interposed(a, b)
  <1>1. <<a, b>> \in Seq(Calls) /\ Len(<<a, b>>) = 2 /\ <<a, b>>[1] = a /\ <<a, b>>[2] = b
    BY Pair
  <1>2. Len(todo) \in Nat /\ DOMAIN todo = 1 .. Len(todo)
    OBVIOUS
  <1>3. /\ todo' \in Seq(Calls) /\ Len(todo') = 2 + Len(todo)
        /\ \A i \in 1 .. 2 + Len(todo) :
             todo'[i] = IF i <= 2 THEN <<a, b>>[i] ELSE todo[i - 2]
    BY <1>1, ConcatProperties
  <1> QED
    BY <1>1, <1>2, <1>3 DEF Interposed

\* The calls that put the steps of one half of a macro into the queue.
LEMMA AddsType ==
  ASSUME setup \in Setups, ran \in Seq(Nat), NEW m \in DOMAIN setup.dts, NEW press \in BOOLEAN
  PROVE  /\ Adds(Half(m, press)) \in Seq(Calls)
         /\ DOMAIN Adds(Half(m, press)) = 1 .. Len(Adds(Half(m, press)))
         /\ \A i \in 1 .. Len(Adds(Half(m, press))) :
              /\ Adds(Half(m, press))[i].op = "add"
              /\ Adds(Half(m, press))[i].item.run = Len(ran) + 1
              /\ Adds(Half(m, press))[i].item.step = i
  <1> DEFINE h == Half(m, press)
  <1>1. h \in Seq(Queued) /\ Len(h) \in Nat /\ DOMAIN h = 1 .. Len(h)
    BY HalfType
  <1> HIDE DEF h
  <1>2. ASSUME NEW i \in 1 .. Len(h)
        PROVE  /\ Adds(h)[i] \in Calls /\ Adds(h)[i].op = "add"
               /\ Adds(h)[i].item.run = Len(ran) + 1 /\ Adds(h)[i].item.step = i
    <2> DEFINE x == [bind |-> h[i].bind, press |-> h[i].press, wait |-> h[i].wait,
                     run |-> Len(ran) + 1, step |-> i]
    <2>1. x \in Item
      <3>1. h[i] \in Queued /\ Len(ran) + 1 \in Nat \ {0} /\ i \in Nat \ {0}
        BY <1>1
      <3>2. h[i].bind \in STRING /\ h[i].press \in BOOLEAN /\ h[i].wait \in {0, 1}
        BY <3>1 DEF Queued
      <3> QED
        BY ONLY <3>1, <3>2 DEF Item
    <2>2. Adds(h)[i] = Add(x)
      BY <1>1 DEF Adds
    <2>3. x.run = Len(ran) + 1 /\ x.step = i
      OBVIOUS
    <2> HIDE DEF x
    <2> QED
      BY <2>1, <2>2, <2>3, CallsMade DEF Add
  <1>3. Adds(h) \in Seq(Calls) /\ Len(Adds(h)) = Len(h)
    <2>1. Adds(h) = [i \in 1 .. Len(h) |-> Adds(h)[i]]
      BY <1>1 DEF Adds
    <2> DEFINE a == Adds(h)
    <2> HIDE DEF a
    <2>2. a = [i \in 1 .. Len(h) |-> a[i]]
      BY <2>1 DEF a
    <2>3. a \in [1 .. Len(h) -> Calls]
      BY <1>2, <2>2 DEF a
    <2>4. a \in Seq(Calls) /\ Len(a) = Len(h)
      BY <1>1, <2>3
    <2> QED
      BY <2>4 DEF a
  <1> QED
    BY <1>1, <1>2, <1>3 DEF h

\* The calls that queue the items of a step of a launcher macro.
LEMMA ItemsOfType ==
  ASSUME at \in [macro : DOMAIN setup.launcher, next : Nat, run : Nat \ {0}, step : Nat],
         setup.wait \in {0, 1}, NEW s \in Step, NEW wait \in {0, 1}
  PROVE  /\ ItemsOf(s, wait) \in Seq(Calls)
         /\ Len(ItemsOf(s, wait)) \in 0 .. 2
         /\ \A i \in 1 .. Len(ItemsOf(s, wait)) :
              /\ ItemsOf(s, wait)[i].op = "add"
              /\ ItemsOf(s, wait)[i].item.run = at.run
              /\ ItemsOf(s, wait)[i].item.step = at.step + i
         /\ s.code \in {"tap", "down", "up"} => Len(ItemsOf(s, wait)) > 0
  <1> DEFINE x(press, w, n) == [bind |-> s.key, press |-> press, wait |-> w, run |-> at.run,
                                step |-> at.step + n]
             c(press, w, n) == Add(x(press, w, n))
  <1>1. ASSUME NEW press \in BOOLEAN, NEW w \in {0, 1}, NEW n \in {1, 2}
        PROVE  /\ c(press, w, n) \in Calls /\ c(press, w, n).op = "add"
               /\ c(press, w, n).item.run = at.run /\ c(press, w, n).item.step = at.step + n
    <2>1. at.run \in Nat \ {0} /\ at.step + n \in Nat \ {0} /\ s.key \in STRING
      BY DEF Step
    <2>2. x(press, w, n) \in Item
      BY ONLY <2>1, <1>1, press \in BOOLEAN, w \in {0, 1} DEF Item
    <2>3. x(press, w, n).run = at.run /\ x(press, w, n).step = at.step + n
      OBVIOUS
    <2> HIDE DEF x
    <2> QED
      BY <2>2, <2>3, CallsMade DEF Add
  <1>2. s.code \in {"tap", "down", "up", "delay", "bad"}
    BY DEF Step, Code
  <1>3. CASE s.code = "tap"
    <2>1. ItemsOf(s, wait) = <<c(TRUE, setup.wait, 1), c(FALSE, wait, 2)>>
      BY <1>3 DEF ItemsOf
    <2> HIDE DEF c
    <2>2. PICK a, b : a = c(TRUE, setup.wait, 1) /\ b = c(FALSE, wait, 2)
      OBVIOUS
    <2>3. a \in Calls /\ b \in Calls
      BY <1>1, <2>2
    <2>4. <<a, b>> \in Seq(Calls)
      BY <2>3, Pair
    <2>5. /\ a.op = "add" /\ a.item.run = at.run /\ a.item.step = at.step + 1
          /\ b.op = "add" /\ b.item.run = at.run /\ b.item.step = at.step + 2
      BY <1>1, <2>2
    <2>6. ItemsOf(s, wait) = <<a, b>>
      BY <2>1, <2>2
    <2>7. Len(<<a, b>>) = 2 /\ <<a, b>>[1] = a /\ <<a, b>>[2] = b
      OBVIOUS
    <2>8. \A i \in 1 .. 2 : i = 1 \/ i = 2
      OBVIOUS
    <2> QED
      BY <1>3, <2>4, <2>5, <2>6, <2>7, <2>8
  <1>4. ASSUME NEW press \in BOOLEAN, ItemsOf(s, wait) = <<c(press, wait, 1)>>
        PROVE  /\ ItemsOf(s, wait) \in Seq(Calls)
               /\ Len(ItemsOf(s, wait)) = 1
               /\ \A i \in 1 .. Len(ItemsOf(s, wait)) :
                    /\ ItemsOf(s, wait)[i].op = "add"
                    /\ ItemsOf(s, wait)[i].item.run = at.run
                    /\ ItemsOf(s, wait)[i].item.step = at.step + i
    <2> HIDE DEF c
    <2>1. PICK a : a = c(press, wait, 1)
      OBVIOUS
    <2>2. a \in Calls /\ a.op = "add" /\ a.item.run = at.run /\ a.item.step = at.step + 1
      BY <1>1, <2>1
    <2>3. ItemsOf(s, wait) = <<a>>
      BY <1>4, <2>1
    <2> QED
      BY <2>2, <2>3
  <1>5. CASE s.code = "down"
    <2>1. ItemsOf(s, wait) = <<c(TRUE, wait, 1)>>
      BY <1>5 DEF ItemsOf
    <2> HIDE DEF c
    <2>2. PICK press \in BOOLEAN : press = TRUE
      OBVIOUS
    <2>3. ItemsOf(s, wait) = <<c(press, wait, 1)>>
      BY <2>1, <2>2
    <2>4. /\ ItemsOf(s, wait) \in Seq(Calls)
          /\ Len(ItemsOf(s, wait)) = 1
          /\ \A i \in 1 .. Len(ItemsOf(s, wait)) :
               /\ ItemsOf(s, wait)[i].op = "add"
               /\ ItemsOf(s, wait)[i].item.run = at.run
               /\ ItemsOf(s, wait)[i].item.step = at.step + i
      BY <1>4, <2>3
    <2>5. Len(ItemsOf(s, wait)) \in 0 .. 2 /\ Len(ItemsOf(s, wait)) > 0
      BY <2>4
    <2> QED
      BY ONLY <2>4, <2>5
  <1>6. CASE s.code = "up"
    <2>1. ItemsOf(s, wait) = <<c(FALSE, wait, 1)>>
      BY <1>6 DEF ItemsOf
    <2> HIDE DEF c
    <2>2. PICK press \in BOOLEAN : press = FALSE
      OBVIOUS
    <2>3. ItemsOf(s, wait) = <<c(press, wait, 1)>>
      BY <2>1, <2>2
    <2>4. /\ ItemsOf(s, wait) \in Seq(Calls)
          /\ Len(ItemsOf(s, wait)) = 1
          /\ \A i \in 1 .. Len(ItemsOf(s, wait)) :
               /\ ItemsOf(s, wait)[i].op = "add"
               /\ ItemsOf(s, wait)[i].item.run = at.run
               /\ ItemsOf(s, wait)[i].item.step = at.step + i
      BY <1>4, <2>3
    <2>5. Len(ItemsOf(s, wait)) \in 0 .. 2 /\ Len(ItemsOf(s, wait)) > 0
      BY <2>4
    <2> QED
      BY ONLY <2>4, <2>5
  <1>7. CASE s.code \in {"delay", "bad"}
    <2>1. ItemsOf(s, wait) = <<>>
      BY <1>7 DEF ItemsOf
    <2> QED
      BY <1>7, <2>1
  <1> QED
    BY <1>2, <1>3, <1>5, <1>6, <1>7

\* A step that neither makes nor answers the call that a launcher macro goes on with.
LEMMA ControlQuiet ==
  ASSUME ControlInv, todo \in Seq(Calls), todo # <<>>, todo[1].op \notin Controls,
         NEW c \in Seq(Calls), Then(c), \A i \in 1 .. Len(c) : c[i].op \notin Launching,
         at' # None <=> at # None, timer' = timer
  PROVE  ControlInv'
  <1>1. Spliced(todo', c, todo) /\ DOMAIN todo' = 1 .. Len(todo') /\ DOMAIN todo = 1 .. Len(todo)
    BY ThenType
  <1>2. Len(c) \in Nat /\ Len(todo) \in Nat
    OBVIOUS
  <1>3. ASSUME NEW i \in DOMAIN todo', todo'[i].op \in Launching
        PROVE  /\ i - Len(c) + 1 \in DOMAIN todo /\ i - Len(c) + 1 # 1
               /\ todo'[i] = todo[i - Len(c) + 1] /\ i \in Nat
    <2>1. i \in 1 .. Len(todo') /\ i \in Nat
      BY <1>1
    <2>2. i > Len(c)
      <3> SUFFICES ASSUME i \in 1 .. Len(c) PROVE FALSE
        BY <1>2, <2>1
      <3>1. todo'[i] = c[i]
        BY <1>1 DEF Spliced
      <3> QED
        BY <1>3, <3>1
    <2>3. i - Len(c) + 1 \in 2 .. Len(todo) /\ todo'[i] = todo[i - Len(c) + 1]
      BY <1>1, <2>1, <2>2 DEF Spliced
    <2>4. \A k \in 2 .. Len(todo) : k \in DOMAIN todo /\ k # 1
      BY <1>1, <1>2
    <2> QED
      BY ONLY <2>1, <2>3, <2>4
  <1>4. \A i \in DOMAIN todo : i # 1 => todo[i].op \notin {"feed", "send-end"}
    BY DEF ControlInv
  <1>5. \A i \in DOMAIN todo' : todo'[i].op \notin {"feed", "send-end"}
    BY <1>3, <1>4 DEF Launching
  <1>6. \A i, j \in DOMAIN todo' : todo'[i].op \in Controls /\ todo'[j].op \in Controls => i = j
    <2> SUFFICES ASSUME NEW i \in DOMAIN todo', NEW j \in DOMAIN todo',
                        todo'[i].op \in Controls, todo'[j].op \in Controls
                 PROVE  i = j
      OBVIOUS
    <2>1. i - Len(c) + 1 = j - Len(c) + 1
      BY <1>3 DEF ControlInv, Launching
    <2> QED
      BY <1>2, <1>3, <2>1 DEF Launching
  <1>7. Has(Controls)' => Has(Controls)
    BY <1>3 DEF Has, Launching
  <1> QED
    BY <1>5, <1>6, <1>7 DEF ControlInv

\* Sequences of calls, as the actions make them.
LEMMA CallSeqs ==
  /\ <<>> \in Seq(Calls) /\ Len(<<>>) = 0
  /\ \A a \in Calls : <<a>> \in Seq(Calls) /\ Len(<<a>>) = 1 /\ <<a>>[1] = a
  /\ \A a, b \in Calls :
       <<a, b>> \in Seq(Calls) /\ Len(<<a, b>>) = 2 /\ <<a, b>>[1] = a /\ <<a, b>>[2] = b
  /\ \A a, b, d \in Calls :
       /\ <<a, b, d>> \in Seq(Calls) /\ Len(<<a, b, d>>) = 3
       /\ <<a, b, d>>[1] = a /\ <<a, b, d>>[2] = b /\ <<a, b, d>>[3] = d
  OBVIOUS

\* Those that have nothing to do with a launcher macro.
Quiet(c) == c \in Seq(Calls) /\ \A i \in 1 .. Len(c) : c[i].op \notin Launching

LEMMA QuietCalls ==
  /\ Quiet(<<>>) /\ Quiet(<<Check>>) /\ Quiet(<<Process>>) /\ Quiet(<<Flags>>)
  /\ Quiet(<<Started>>)
  /\ \A x \in Item, w \in {0, 1} : Quiet(<<Invoke(x), Wait(w), Flags>>)
  <1> DEFINE QuietCall(a) == a \in Calls /\ a.op \notin Launching
  <1>1. /\ QuietCall(Check) /\ QuietCall(Process) /\ QuietCall(Flags) /\ QuietCall(Started)
        /\ \A x \in Item : QuietCall(Invoke(x))
        /\ \A w \in {0, 1} : QuietCall(Wait(w))
    BY CallsMade DEF Launching, Controls, Check, Process, Flags, Started, Invoke, Wait
  <1>2. Quiet(<<>>)
    BY DEF Quiet
  <1>3. ASSUME NEW a, QuietCall(a) PROVE Quiet(<<a>>)
    BY <1>3 DEF Quiet
  <1>4. ASSUME NEW a, NEW b, NEW d, QuietCall(a), QuietCall(b), QuietCall(d)
        PROVE  Quiet(<<a, b, d>>)
    <2>1. <<a, b, d>> \in Seq(Calls) /\ Len(<<a, b, d>>) = 3
      BY <1>4
    <2>2. \A i \in 1 .. 3 : i = 1 \/ i = 2 \/ i = 3
      OBVIOUS
    <2>3. <<a, b, d>>[1] = a /\ <<a, b, d>>[2] = b /\ <<a, b, d>>[3] = d
      OBVIOUS
    <2> QED
      BY <1>4, <2>1, <2>2, <2>3 DEF Quiet
  <1> HIDE DEF QuietCall
  <1> QED
    BY <1>1, <1>2, <1>3, <1>4

LEMMA SoundQuiet ==
  ASSUME Sound, todo # <<>>, todo[1].op \notin Launching,
         NEW c, Quiet(c), Then(c),
         UNCHANGED <<env, at, ahead, timer, failed>>,
         start' \in BOOLEAN, end' \in BOOLEAN, running' \in BOOLEAN, encrypted' \in BOOLEAN,
         queue' \in Seq(Item), Len(queue') <= QueueSize, ran' \in Seq(Nat), lost' \in BOOLEAN,
         counting' \in BOOLEAN, counterRunning' \in BOOLEAN, dlps' \in BOOLEAN,
         work' \subseteq {"queued", "running"}
  PROVE  Sound'
  <1>1. ControlInv'
    BY ControlQuiet DEF Sound, Types, launch, Quiet, Launching
  <1>2. todo' \in Seq(Calls)
    BY ThenType DEF Sound, Types, Quiet
  <1>3. TypeOK'
    BY DEF Sound, Types, TypeOK, env, launch, Steps
  <1>4. at' # None =>
          at' \in [macro : DOMAIN setup'.launcher, next : Nat, run : Nat \ {0}, step : Nat]
    BY DEF Sound, Types, env, launch
  <1> QED
    BY <1>1, <1>2, <1>3, <1>4 DEF Sound, Types

LEMMA InitSound == Init => Sound
  <1> SUFFICES ASSUME Init PROVE Sound
    OBVIOUS
  <1>0. /\ QueueSize \in Nat /\ MaxKeys \in Nat /\ Len(<<>>) = 0
        /\ <<>> \in Seq(Item) /\ <<>> \in Seq(Step) /\ <<>> \in Seq(Nat) /\ <<>> \in Seq(Calls)
    BY MacroAssumption
  <1>1. TypeOK
    <2>1. setup \in Setups /\ keys \in 0 .. MaxKeys /\ down \subseteq DOMAIN setup.dts
      BY <1>0 DEF Init
    <2>2. queue \in Seq(Item) /\ Len(queue) <= QueueSize
      BY <1>0 DEF Init
    <2>3. ahead \in Seq(Step) /\ Len(ahead) <= 1
      BY <1>0 DEF Init
    <2>4. work \subseteq {"queued", "running"} /\ ran \in Seq(Nat) /\ at = None
      BY <1>0 DEF Init
    <2> QED
      BY <2>1, <2>2, <2>3, <2>4 DEF Init, TypeOK
  <1>2. ControlInv
    BY DEF Init, ControlInv, Has
  <1> QED
    BY <1>1, <1>2 DEF Init, Sound, Types

\* The call at the head, by its kind.
LEMMA Called ==
  ASSUME Types, NEW op, Calling(op)
  PROVE  /\ todo \in Seq(Calls) /\ todo # <<>> /\ todo[1].op = op /\ Call = todo[1]
         /\ 1 \in DOMAIN todo /\ DOMAIN todo = 1 .. Len(todo) /\ Len(todo) \in Nat \ {0}
         /\ op \in {"add", "invoke"} => Call.item \in Item
         /\ op = "wait" => Call.wait \in {0, 1}
         /\ op = "exec-step" => Call.count \in Nat
         /\ op = "feed" => Call.step \in Step
  BY HeadCall, CallKinds DEF Types, Calling, Call

LEMMA PutSound == Sound /\ Put => Sound'
  <1> SUFFICES ASSUME Sound, Put PROVE Sound'
    OBVIOUS
  <1>1. /\ todo \in Seq(Calls) /\ todo # <<>> /\ todo[1].op = "add" /\ Call.item \in Item
        /\ queue \in Seq(Item) /\ Len(queue) <= QueueSize /\ Len(queue) \in Nat /\ QueueSize \in Nat
    BY Called, MacroAssumption DEF Sound, Put, Types, TypeOK
  <1>2. PICK c : Quiet(c) /\ Then(c)
    <2>1. CASE Then(<<>>)
      BY <2>1, QuietCalls
    <2>2. CASE Then(<<Check>>)
      BY <2>2, QuietCalls
    <2> QED
      BY <2>1, <2>2 DEF Put
  <1>3. queue' \in Seq(Item) /\ Len(queue') <= QueueSize /\ lost' \in BOOLEAN
    <2>1. CASE Len(queue) = QueueSize
      BY <1>1, <2>1 DEF Put
    <2>2. CASE Len(queue) # QueueSize
      <3>1. queue' = Append(queue, Call.item) /\ lost' = lost
        BY <2>2 DEF Put
      <3>2. lost \in BOOLEAN
        BY DEF Sound, Types, TypeOK
      <3>3. Len(queue) + 1 <= QueueSize
        BY <1>1, <2>2
      <3>4. PICK x \in Item : x = Call.item
        BY <1>1
      <3>5. Append(queue, x) \in Seq(Item) /\ Len(Append(queue, x)) = Len(queue) + 1
        BY <1>1
      <3> QED
        BY <3>1, <3>2, <3>3, <3>4, <3>5
    <2> QED
      BY <2>1, <2>2
  <1>4. ran' \in Seq(Nat) /\ UNCHANGED <<env, launch, failed, device>>
    BY DEF Put, Sound, Types, TypeOK
  <1>5. /\ counting' \in BOOLEAN /\ counterRunning' \in BOOLEAN /\ dlps' \in BOOLEAN
        /\ work' \subseteq {"queued", "running"}
    BY <1>4 DEF device, Sound, Types, TypeOK
  <1>6. todo[1].op \notin Launching
    BY <1>1 DEF Launching, Controls
  <1> QED
    BY <1>1, <1>2, <1>3, <1>4, <1>5, <1>6, SoundQuiet DEF launch, Sound, Types, TypeOK

\* What the quiet steps leave alone.
LEMMA SoundDevice ==
  ASSUME Sound, todo # <<>>, todo[1].op \notin Launching, NEW c, Quiet(c), Then(c),
         UNCHANGED <<env, launch, history>>,
         queue' \in Seq(Item), Len(queue') <= QueueSize,
         counting' \in BOOLEAN, counterRunning' \in BOOLEAN, dlps' \in BOOLEAN,
         work' \subseteq {"queued", "running"}
  PROVE  Sound'
  <1>1. ran' \in Seq(Nat) /\ lost' \in BOOLEAN /\ failed' = failed
    BY DEF history, Sound, Types, TypeOK
  <1> QED
    BY <1>1, SoundQuiet DEF launch, Sound, Types, TypeOK

LEMMA CheckSound == Sound /\ CheckReady => Sound'
  <1> SUFFICES ASSUME Sound, CheckReady PROVE Sound'
    OBVIOUS
  <1>1. todo # <<>> /\ todo[1].op = "check"
    BY Called DEF Sound, CheckReady
  <1>2. PICK c : Quiet(c) /\ Then(c)
    BY QuietCalls DEF CheckReady
  <1>3. todo[1].op \notin Launching
    BY <1>1 DEF Launching, Controls
  <1> QED
    BY <1>1, <1>2, <1>3, SoundDevice DEF CheckReady, device, Sound, Types, TypeOK

LEMMA ProcessSound == Sound /\ ProcessNext => Sound'
  <1> SUFFICES ASSUME Sound, ProcessNext PROVE Sound'
    OBVIOUS
  <1>1. todo # <<>> /\ todo[1].op = "process" /\ todo[1].op \notin Launching
    BY Called DEF Sound, ProcessNext, Launching, Controls
  <1>2. queue \in Seq(Item) /\ Len(queue) <= QueueSize /\ QueueSize \in Nat
    BY MacroAssumption DEF Sound, Types, TypeOK
  <1>3. queue' \in Seq(Item) /\ Len(queue') <= QueueSize
    <2>1. queue # <<>> => Tail(queue) \in Seq(Item) /\ Len(Tail(queue)) = Len(queue) - 1
      BY <1>2
    <2>2. Len(queue) \in Nat /\ Len(queue) - 1 <= Len(queue)
      BY <1>2
    <2>3. queue' = queue \/ (queue # <<>> /\ queue' = Tail(queue))
      BY DEF ProcessNext
    <2> QED
      BY <1>2, <2>1, <2>2, <2>3
  <1>4. PICK c : Quiet(c) /\ Then(c)
    <2>1. CASE queue = <<>>
      BY <2>1, QuietCalls DEF ProcessNext
    <2>2. CASE queue # <<>>
      <3>1. Head(queue) \in Item
        BY <1>2, <2>2
      <3>2. Head(queue).wait \in {0, 1}
        BY <3>1 DEF Item
      <3> QED
        BY <2>2, <3>1, <3>2, QuietCalls DEF ProcessNext
    <2> QED
      BY <2>1, <2>2
  <1> QED
    BY <1>1, <1>3, <1>4, SoundDevice DEF ProcessNext, device, Sound, Types, TypeOK

LEMMA StartWaitSound == Sound /\ StartWait => Sound'
  <1> SUFFICES ASSUME Sound, StartWait PROVE Sound'
    OBVIOUS
  <1>1. todo # <<>> /\ todo[1].op = "wait" /\ todo[1].op \notin Launching
    BY Called DEF Sound, StartWait, Launching, Controls
  <1>2. PICK c : Quiet(c) /\ Then(c)
    BY QuietCalls DEF StartWait
  <1>3. counting' \in BOOLEAN /\ work' \subseteq {"queued", "running"}
    BY DEF StartWait, Sound, Types, TypeOK
  <1> QED
    BY <1>1, <1>2, <1>3, SoundDevice DEF StartWait, Sound, Types, TypeOK

LEMMA StartedSound == Sound /\ CounterStarted => Sound'
  <1> SUFFICES ASSUME Sound, CounterStarted PROVE Sound'
    OBVIOUS
  <1>1. todo # <<>> /\ todo[1].op = "started" /\ todo[1].op \notin Launching
    BY Called DEF Sound, CounterStarted, Launching, Controls
  <1>2. Quiet(<<>>) /\ Then(<<>>)
    BY QuietCalls DEF CounterStarted
  <1> QED
    BY <1>1, <1>2, SoundDevice DEF CounterStarted, Sound, Types, TypeOK

LEMMA WorkDoneSound == Sound /\ WorkDone => Sound'
  <1> SUFFICES ASSUME Sound, WorkDone PROVE Sound'
    OBVIOUS
  <1>1. todo # <<>> /\ todo[1].op = "end-work" /\ todo[1].op \notin Launching
    BY Called DEF Sound, WorkDone, Launching, Controls
  <1>2. Quiet(<<>>) /\ Then(<<>>)
    BY QuietCalls DEF WorkDone
  <1> QED
    BY <1>1, <1>2, SoundDevice DEF WorkDone, Sound, Types, TypeOK

LEMMA InterruptDoneSound == Sound /\ InterruptDone => Sound'
  <1> SUFFICES ASSUME Sound, InterruptDone PROVE Sound'
    OBVIOUS
  <1>1. todo # <<>> /\ todo[1].op = "end-interrupt" /\ todo[1].op \notin Launching
    BY Called DEF Sound, InterruptDone, Launching, Controls
  <1>2. Quiet(<<>>) /\ Then(<<>>)
    BY QuietCalls DEF InterruptDone
  <1> QED
    BY <1>1, <1>2, SoundDevice DEF InterruptDone, device, Sound, Types, TypeOK

\* The history: another step of a half is counted, another half begins.
LEMMA Counted ==
  ASSUME NEW r \in Seq(Nat), NEW k, NEW n \in Nat
  PROVE  /\ [r EXCEPT ![k] = n] \in Seq(Nat)
         /\ Len([r EXCEPT ![k] = n]) = Len(r) /\ DOMAIN [r EXCEPT ![k] = n] = DOMAIN r
         /\ \A i \in DOMAIN r : [r EXCEPT ![k] = n][i] = IF i = k THEN n ELSE r[i]
  <1> DEFINE s == [r EXCEPT ![k] = n]
  <1>1. r \in [1 .. Len(r) -> Nat] /\ Len(r) \in Nat /\ DOMAIN r = 1 .. Len(r)
    OBVIOUS
  <1>2. s \in [1 .. Len(r) -> Nat] /\ DOMAIN s = DOMAIN r
    BY <1>1
  <1>3. \A i \in DOMAIN r : s[i] = IF i = k THEN n ELSE r[i]
    OBVIOUS
  <1> HIDE DEF s
  <1>4. s \in Seq(Nat) /\ Len(s) = Len(r)
    BY <1>1, <1>2
  <1> QED
    BY <1>2, <1>3, <1>4 DEF s

LEMMA Begun ==
  ASSUME NEW r \in Seq(Nat)
  PROVE  /\ Append(r, 0) \in Seq(Nat) /\ Len(Append(r, 0)) = Len(r) + 1
         /\ DOMAIN Append(r, 0) = 1 .. Len(r) + 1 /\ Append(r, 0)[Len(r) + 1] = 0
         /\ \A i \in DOMAIN r : i \in DOMAIN Append(r, 0) /\ Append(r, 0)[i] = r[i]
  OBVIOUS

LEMMA FlagsSound == Sound /\ SetFlags => Sound'
  <1> SUFFICES ASSUME Sound, SetFlags PROVE Sound'
    OBVIOUS
  <1>1. todo # <<>> /\ todo[1].op = "flags" /\ todo[1].op \notin Launching
    BY Called DEF Sound, SetFlags, Launching, Controls
  <1>2. Quiet(<<>>) /\ Then(<<>>)
    BY QuietCalls DEF SetFlags
  <1>3. /\ counting' \in BOOLEAN /\ counterRunning' \in BOOLEAN /\ dlps' \in BOOLEAN
        /\ start' \in BOOLEAN /\ end' \in BOOLEAN /\ running' \in BOOLEAN /\ encrypted' \in BOOLEAN
    BY DEF SetFlags, Sound, Types, TypeOK
  <1>4. UNCHANGED <<env, at, ahead, timer, failed, queue, work, ran, lost>>
    BY DEF SetFlags, history
  <1> QED
    BY <1>1, <1>2, <1>3, <1>4, SoundQuiet DEF Sound, Types, TypeOK

LEMMA InvokeSound == Sound /\ InvokeBinding => Sound'
  <1> SUFFICES ASSUME Sound, InvokeBinding PROVE Sound'
    OBVIOUS
  <1>1. /\ todo # <<>> /\ todo[1].op = "invoke" /\ todo[1].op \notin Launching
        /\ Call.item \in Item
    BY Called DEF Sound, InvokeBinding, Launching, Controls
  <1>2. ran \in Seq(Nat) /\ setup \in Setups
    BY DEF Sound, Types, TypeOK
  <1>3. PICK c : Quiet(c) /\ Then(c)
    <2>1. CASE Call.item.bind \in DOMAIN setup.dts
      <3>1. Then(Adds(Half(Call.item.bind, Call.item.press)))
        BY <2>1 DEF InvokeBinding
      <3>2. Call.item.press \in BOOLEAN
        BY <1>1 DEF Item
      <3> QED
        BY <1>2, <2>1, <3>1, <3>2, AddsType DEF Quiet, Launching, Controls
    <2>2. CASE Call.item.bind \notin DOMAIN setup.dts
      BY <2>2, QuietCalls DEF InvokeBinding
    <2> QED
      BY <2>1, <2>2
  <1>4. ran' \in Seq(Nat)
    <2>1. Call.item.step \in Nat
      BY <1>1 DEF Item
    <2>2. [ran EXCEPT ![Call.item.run] = Call.item.step] \in Seq(Nat)
      BY <1>2, <2>1, Counted
    <2>3. PICK r : r \in Seq(Nat) /\ r = [ran EXCEPT ![Call.item.run] = Call.item.step]
      BY <2>2
    <2>4. ran' = r \/ ran' = Append(r, 0)
      BY <2>3 DEF InvokeBinding
    <2>5. Append(r, 0) \in Seq(Nat)
      BY <2>3, Begun
    <2> QED
      BY <2>3, <2>4, <2>5
  <1>5. UNCHANGED <<env, queue, device, launch, lost, failed>>
    BY DEF InvokeBinding
  <1> QED
    BY <1>1, <1>3, <1>4, <1>5, SoundQuiet DEF device, launch, Sound, Types, TypeOK

-----------------------------------------------------------------------------
(* The same for the steps of a launcher macro *)

\* What its calls leave alone.
LEMMA TypesLaunch ==
  ASSUME Types, UNCHANGED <<env, queue, device, held, ran, lost>>,
         start' \in BOOLEAN, end' \in BOOLEAN, running' \in BOOLEAN, encrypted' \in BOOLEAN,
         timer' \in BOOLEAN, failed' \in BOOLEAN,
         ahead' \in Seq(Step), Len(ahead') <= 1, todo' \in Seq(Calls),
         \/ at' = None
         \/ /\ at' \in [macro : DOMAIN setup.launcher, next : Nat, run : Nat \ {0}, step : Nat]
            /\ at'.next \in 1 .. Len(setup.launcher[at'.macro]) + 1
  PROVE  Types'
  BY DEF Types, TypeOK, env, device, Steps

LEMMA MacroExecSound == Sound /\ MacroExec => Sound'
  <1> SUFFICES ASSUME Sound, MacroExec PROVE Sound'
    OBVIOUS
  <1>1. /\ todo \in Seq(Calls) /\ todo # <<>> /\ todo[1].op = "exec" /\ 1 \in DOMAIN todo
        /\ DOMAIN todo = 1 .. Len(todo) /\ Len(todo) \in Nat
    BY Called DEF Sound, MacroExec
  <1>2. at # None /\ ~timer
    BY <1>1 DEF Sound, ControlInv, Has, Controls
  <1>3. /\ at \in [macro : DOMAIN setup.launcher, next : Nat, run : Nat \ {0}, step : Nat]
        /\ at.next \in 1 .. Len(setup.launcher[at.macro]) + 1
    BY <1>2 DEF Sound, Types, TypeOK, Steps
  <1>4. \A i \in DOMAIN todo : i # 1 => todo[i].op \notin Launching
    BY <1>1 DEF Sound, ControlInv, Launching, Controls
  <1>5. CASE timer' = TRUE /\ Then(<<>>)
    <2>1. todo' \in Seq(Calls) /\ \A i \in DOMAIN todo' : todo'[i].op \notin Launching
      BY <1>1, <1>4, <1>5, Popped
    <2>2. ControlInv'
      BY <1>2, <2>1 DEF ControlInv, Has, Launching, MacroExec
    <2>3. Types'
      BY <1>3, <1>5, <2>1, TypesLaunch DEF MacroExec, Sound, Types, TypeOK, history
    <2> QED
      BY <2>2, <2>3 DEF Sound
  <1>6. CASE Then(<<ExecStep(0)>>) /\ timer' = timer
    <2>1. ExecStep(0) \in Calls /\ ExecStep(0).op = "exec-step"
      BY CallsMade DEF ExecStep
    <2>2. /\ todo' \in Seq(Calls) /\ 1 \in DOMAIN todo' /\ todo'[1].op = "exec-step"
          /\ DOMAIN todo' = DOMAIN todo
          /\ \A i \in DOMAIN todo' : i # 1 => todo'[i].op \notin Launching
      BY <1>1, <1>4, <1>6, <2>1, ReplacedByOne
    <2>3. at' # None /\ ~timer' /\ at' = at
      BY <1>2, <1>6 DEF MacroExec
    <2>4. ControlInv'
      BY <2>2, <2>3 DEF ControlInv, Has, Launching, Controls
    <2>5. Types'
      BY <1>3, <1>6, <2>2, <2>3, TypesLaunch DEF MacroExec, Sound, Types, TypeOK, history
    <2> QED
      BY <2>4, <2>5 DEF Sound
  <1> QED
    BY <1>5, <1>6 DEF MacroExec

LEMMA MacroStepSound == Sound /\ MacroStep => Sound'
  <1> SUFFICES ASSUME Sound, MacroStep PROVE Sound'
    OBVIOUS
  <1>1. /\ todo \in Seq(Calls) /\ todo # <<>> /\ todo[1].op = "exec-step" /\ 1 \in DOMAIN todo
        /\ DOMAIN todo = 1 .. Len(todo) /\ Len(todo) \in Nat /\ Call.count \in Nat
    BY Called DEF Sound, MacroStep
  <1>2. at # None /\ ~timer
    BY <1>1 DEF Sound, ControlInv, Has, Controls
  <1>3. /\ at \in [macro : DOMAIN setup.launcher, next : Nat, run : Nat \ {0}, step : Nat]
        /\ at.next \in 1 .. Len(Steps) + 1
    BY <1>2 DEF Sound, Types, TypeOK
  <1>4. \A i \in DOMAIN todo : i # 1 => todo[i].op \notin Launching
    BY <1>1 DEF Sound, ControlInv, Launching, Controls
  <1>5. Steps \in Seq(Step)
    BY <1>3, MacroAssumption DEF Steps, Sound, Types, TypeOK
  <1>6. UNCHANGED <<env, queue, counting, counterRunning, work, start, end, running, encrypted,
                    ahead, held, ran, lost>>
    BY DEF MacroStep
  <1>7. CASE Call.count = MaxNum
    <2>1. timer' = TRUE /\ Then(<<>>) /\ UNCHANGED <<at, dlps, failed>>
      BY <1>7 DEF MacroStep
    <2>2. todo' \in Seq(Calls) /\ \A i \in DOMAIN todo' : todo'[i].op \notin Launching
      BY <1>1, <1>4, <2>1, Popped
    <2>3. ControlInv'
      BY <1>2, <2>1, <2>2 DEF ControlInv, Has, Launching
    <2>4. Types'
      BY <1>3, <1>6, <2>1, <2>2, TypesLaunch DEF Sound, Types, TypeOK, device, Steps
    <2> QED
      BY <2>3, <2>4 DEF Sound
  <1>8. CASE Call.count # MaxNum /\ at.next > Len(Steps)
    <2>1. Then(<<SendEnd, Done>>) /\ UNCHANGED <<timer, at, dlps, failed>>
      BY <1>8 DEF MacroStep
    <2>2. SendEnd \in Calls /\ SendEnd.op = "send-end" /\ Done \in Calls /\ Done.op = "done"
      BY CallsMade DEF SendEnd, Done
    <2>3. /\ todo' \in Seq(Calls) /\ 1 \in DOMAIN todo' /\ 2 \in DOMAIN todo'
          /\ Len(todo') > 1
          /\ todo'[1].op = "send-end" /\ todo'[2].op = "done"
          /\ \A i \in DOMAIN todo' : i # 1 /\ i # 2 => todo'[i].op \notin Launching
      BY <1>1, <1>4, <2>1, <2>2, ReplacedByTwo
    <2>4. ControlInv'
      BY <1>2, <2>1, <2>3 DEF ControlInv, Has, Launching, Controls
    <2>5. Types'
      BY <1>3, <1>6, <2>1, <2>3, TypesLaunch DEF Sound, Types, TypeOK, device, Steps
    <2> QED
      BY <2>4, <2>5 DEF Sound
  <1>9. CASE Call.count # MaxNum /\ ~(at.next > Len(Steps)) /\ Steps[at.next].code = "bad"
    <2>1. /\ at' = None /\ dlps' = TRUE /\ failed' = TRUE
          /\ Then(<<>>) /\ UNCHANGED timer
      BY <1>9 DEF MacroStep
    <2>2. todo' \in Seq(Calls) /\ \A i \in DOMAIN todo' : todo'[i].op \notin Launching
      BY <1>1, <1>4, <2>1, Popped
    <2>3. ControlInv'
      BY <1>2, <2>1, <2>2 DEF ControlInv, Has, Launching
    <2>4. TypeOK'
      BY <1>6, <2>1 DEF Sound, Types, TypeOK, env
    <2> QED
      BY <2>1, <2>2, <2>3, <2>4 DEF Sound, Types
  <1>10. CASE Call.count # MaxNum /\ ~(at.next > Len(Steps)) /\ Steps[at.next].code # "bad"
    <2>1. /\ at' = [at EXCEPT !.next = at.next + 1]
          /\ Then(<<Feed(Steps[at.next]), ExecStep(Call.count + 1)>>)
          /\ UNCHANGED <<timer, dlps, failed>>
      BY <1>10 DEF MacroStep
    <2>2. at.next \in 1 .. Len(Steps) /\ Steps[at.next] \in Step
      BY <1>3, <1>5, <1>10
    <2>3. PICK a, b : a = Feed(Steps[at.next]) /\ b = ExecStep(Call.count + 1)
      OBVIOUS
    <2>4. a \in Calls /\ b \in Calls /\ a.op = "feed" /\ b.op = "exec-step"
      BY <1>1, <2>2, <2>3, CallsMade DEF Feed, ExecStep
    <2>5. Then(<<a, b>>)
      BY <2>1, <2>3
    <2>6. /\ todo' \in Seq(Calls) /\ 1 \in DOMAIN todo' /\ 2 \in DOMAIN todo'
          /\ Len(todo') > 1
          /\ todo'[1].op = "feed" /\ todo'[2].op = "exec-step"
          /\ \A i \in DOMAIN todo' : i # 1 /\ i # 2 => todo'[i].op \notin Launching
      BY <1>1, <1>4, <2>4, <2>5, ReplacedByTwo
    <2>7. /\ at' \in [macro : DOMAIN setup.launcher, next : Nat, run : Nat \ {0}, step : Nat]
          /\ at'.next \in 1 .. Len(setup.launcher[at'.macro]) + 1
      BY <1>3, <2>1, <2>2 DEF Steps
    <2>8. at' # None
      BY <2>7, MacroAssumption DEF Launched, Sound, Types, TypeOK
    <2>9. ControlInv'
      BY <1>2, <2>1, <2>6, <2>8 DEF ControlInv, Has, Launching, Controls
    <2>10. Types'
      BY <1>3, <1>6, <2>1, <2>6, <2>7, TypesLaunch DEF Sound, Types, TypeOK, device
    <2> QED
      BY <2>9, <2>10 DEF Sound
  <1> QED
    BY <1>7, <1>8, <1>9, <1>10

\* What the two actions that send items do.
LEMMA FeedFacts ==
  ASSUME Sound, FeedStep
  PROVE  /\ todo \in Seq(Calls) /\ todo # <<>> /\ todo[1].op = "feed" /\ Call = todo[1]
         /\ 1 \in DOMAIN todo /\ 2 \in DOMAIN todo /\ todo[2].op = "exec-step"
         /\ DOMAIN todo = 1 .. Len(todo) /\ Len(todo) \in Nat /\ Call.step \in Step
         /\ at # None /\ ~timer
         /\ at \in [macro : DOMAIN setup.launcher, next : Nat, run : Nat \ {0}, step : Nat]
         /\ at.next \in 1 .. Len(setup.launcher[at.macro]) + 1
         /\ UNCHANGED <<env, queue, device, held, ran, lost, failed>>
         /\ UNCHANGED <<start, end, running, encrypted, timer>>
         /\ ahead' = IF ahead # <<>> /\ Call.step.code = "delay" THEN <<>> ELSE <<Call.step>>
         /\ \E c \in Seq(Calls) :
              /\ Then(c) /\ Len(c) \in 0 .. 2
              /\ at' = [at EXCEPT !.step = at.step + Len(c)]
              /\ \A i \in 1 .. Len(c) :
                   c[i].op = "add" /\ c[i].item.run = at.run /\ c[i].item.step = at.step + i
  <1>1. /\ todo \in Seq(Calls) /\ todo # <<>> /\ todo[1].op = "feed" /\ 1 \in DOMAIN todo
        /\ DOMAIN todo = 1 .. Len(todo) /\ Len(todo) \in Nat /\ Call.step \in Step
        /\ Call = todo[1]
    BY Called DEF Sound, FeedStep
  <1>2. 2 \in DOMAIN todo /\ todo[2].op = "exec-step"
    BY <1>1 DEF Sound, ControlInv
  <1>3. at # None /\ ~timer
    BY <1>2 DEF Sound, ControlInv, Has, Controls
  <1>4. /\ at \in [macro : DOMAIN setup.launcher, next : Nat, run : Nat \ {0}, step : Nat]
        /\ at.next \in 1 .. Len(setup.launcher[at.macro]) + 1
    BY <1>3 DEF Sound, Types, TypeOK, Steps
  <1>5. ahead \in Seq(Step) /\ setup.wait \in {0, 1}
    BY MacroAssumption DEF Sound, Types, TypeOK
  <1>6. /\ UNCHANGED <<env, queue, device, held, ran, lost, failed>>
        /\ UNCHANGED <<start, end, running, encrypted, timer>>
        /\ ahead' = IF ahead # <<>> /\ Call.step.code = "delay" THEN <<>> ELSE <<Call.step>>
    BY DEF FeedStep, history
  <1> DEFINE w == IF Call.step.code = "delay" THEN 1 ELSE setup.wait
             Sends(c) == /\ Then(c) /\ Len(c) \in 0 .. 2
                         /\ at' = [at EXCEPT !.step = at.step + Len(c)]
                         /\ \A i \in 1 .. Len(c) :
                              /\ c[i].op = "add" /\ c[i].item.run = at.run
                              /\ c[i].item.step = at.step + i
  <1>7. \E c \in Seq(Calls) : Sends(c)
    <2>1. CASE ahead = <<>>
      <3>1. Then(<<>>) /\ at' = at
        BY <2>1 DEF FeedStep
      <3>2. PICK c : c = <<>>
        OBVIOUS
      <3>3. c \in Seq(Calls) /\ Len(c) = 0 /\ Then(c)
        BY <3>1, <3>2
      <3>4. at = [at EXCEPT !.step = at.step + 0]
        BY <1>4
      <3>5. \A i \in 1 .. Len(c) : FALSE
        BY <3>3
      <3>6. at' = [at EXCEPT !.step = at.step + Len(c)] /\ Len(c) \in 0 .. 2
        BY <3>1, <3>3, <3>4
      <3> QED
        BY ONLY <3>3, <3>5, <3>6
    <2>2. CASE ahead # <<>>
      <3>1. PICK s \in Step, x \in {0, 1} : s = Head(ahead) /\ x = w
        BY <1>5, <2>2
      <3>2. Then(ItemsOf(s, x)) /\ at' = [at EXCEPT !.step = at.step + Len(ItemsOf(s, x))]
        BY <2>2, <3>1 DEF FeedStep
      <3>3. /\ ItemsOf(s, x) \in Seq(Calls)
            /\ Len(ItemsOf(s, x)) \in 0 .. 2
            /\ \A i \in 1 .. Len(ItemsOf(s, x)) :
                 /\ ItemsOf(s, x)[i].op = "add"
                 /\ ItemsOf(s, x)[i].item.run = at.run
                 /\ ItemsOf(s, x)[i].item.step = at.step + i
        <4>1. s \in Step /\ x \in {0, 1}
          OBVIOUS
        <4> QED
          BY ONLY <1>4, <1>5, <4>1, ItemsOfType
      <3> QED
        BY ONLY <3>2, <3>3
    <2> QED
      BY <2>1, <2>2
  <1> QED
    BY <1>1, <1>2, <1>3, <1>4, <1>6, <1>7

LEMMA SendEndFacts ==
  ASSUME Sound, SendStringEnd
  PROVE  /\ todo \in Seq(Calls) /\ todo # <<>> /\ todo[1].op = "send-end"
         /\ 1 \in DOMAIN todo /\ 2 \in DOMAIN todo /\ todo[2].op = "done"
         /\ DOMAIN todo = 1 .. Len(todo) /\ Len(todo) \in Nat
         /\ at # None /\ ~timer
         /\ at \in [macro : DOMAIN setup.launcher, next : Nat, run : Nat \ {0}, step : Nat]
         /\ at.next \in 1 .. Len(setup.launcher[at.macro]) + 1
         /\ UNCHANGED <<env, queue, device, held, ran, lost, failed>>
         /\ UNCHANGED <<start, end, running, encrypted, timer, at>>
         /\ ahead' = <<>>
         /\ \E c \in Seq(Calls) :
              /\ Then(c)
              /\ ahead # <<>> /\ Head(ahead).code \in {"tap", "down", "up"} => Len(c) > 0
              /\ \A i \in 1 .. Len(c) :
                   c[i].op = "add" /\ c[i].item.run = at.run /\ c[i].item.step = at.step + i
  <1>1. /\ todo \in Seq(Calls) /\ todo # <<>> /\ todo[1].op = "send-end" /\ 1 \in DOMAIN todo
        /\ DOMAIN todo = 1 .. Len(todo) /\ Len(todo) \in Nat
    BY Called DEF Sound, SendStringEnd
  <1>2. 2 \in DOMAIN todo /\ todo[2].op = "done"
    BY <1>1 DEF Sound, ControlInv
  <1>3. at # None /\ ~timer
    BY <1>2 DEF Sound, ControlInv, Has, Controls
  <1>4. /\ at \in [macro : DOMAIN setup.launcher, next : Nat, run : Nat \ {0}, step : Nat]
        /\ at.next \in 1 .. Len(setup.launcher[at.macro]) + 1
    BY <1>3 DEF Sound, Types, TypeOK, Steps
  <1>5. ahead \in Seq(Step) /\ setup.wait \in {0, 1}
    BY MacroAssumption DEF Sound, Types, TypeOK
  <1>6. /\ UNCHANGED <<env, queue, device, held, ran, lost, failed>>
        /\ UNCHANGED <<start, end, running, encrypted, timer, at>>
        /\ ahead' = <<>>
    BY DEF SendStringEnd, history
  <1> DEFINE Sends(c) ==
               /\ Then(c)
               /\ ahead # <<>> /\ Head(ahead).code \in {"tap", "down", "up"} => Len(c) > 0
               /\ \A i \in 1 .. Len(c) :
                    c[i].op = "add" /\ c[i].item.run = at.run /\ c[i].item.step = at.step + i
  <1>7. \E c \in Seq(Calls) : Sends(c)
    <2>1. CASE ahead = <<>>
      <3>1. Then(<<>>)
        BY <2>1 DEF SendStringEnd
      <3>2. PICK c : c = <<>>
        OBVIOUS
      <3>3. c \in Seq(Calls) /\ Len(c) = 0 /\ Then(c)
        BY <3>1, <3>2
      <3>4. \A i \in 1 .. Len(c) : FALSE
        BY <3>3
      <3> QED
        BY ONLY <2>1, <3>3, <3>4
    <2>2. CASE ahead # <<>>
      <3>1. PICK s \in Step, x \in {0, 1} : s = Head(ahead) /\ x = setup.wait
        BY <1>5, <2>2
      <3>2. Then(ItemsOf(s, x))
        BY <2>2, <3>1 DEF SendStringEnd
      <3>3. /\ ItemsOf(s, x) \in Seq(Calls)
            /\ s.code \in {"tap", "down", "up"} => Len(ItemsOf(s, x)) > 0
            /\ \A i \in 1 .. Len(ItemsOf(s, x)) :
                 /\ ItemsOf(s, x)[i].op = "add"
                 /\ ItemsOf(s, x)[i].item.run = at.run
                 /\ ItemsOf(s, x)[i].item.step = at.step + i
        <4>1. s \in Step /\ x \in {0, 1}
          OBVIOUS
        <4> QED
          BY ONLY <1>4, <1>5, <4>1, ItemsOfType
      <3>4. s.code = Head(ahead).code
        BY <3>1
      <3> QED
        BY ONLY <3>2, <3>3, <3>4
    <2> QED
      BY <2>1, <2>2
  <1> QED
    BY <1>1, <1>2, <1>3, <1>4, <1>6, <1>7

LEMMA FeedSound == Sound /\ FeedStep => Sound'
  <1> SUFFICES ASSUME Sound, FeedStep PROVE Sound'
    OBVIOUS
  <1>1. PICK c \in Seq(Calls) :
          /\ Then(c) /\ Len(c) \in 0 .. 2
          /\ at' = [at EXCEPT !.step = at.step + Len(c)]
          /\ \A i \in 1 .. Len(c) : c[i].op = "add"
    BY FeedFacts
  <1>0. /\ at \in [macro : DOMAIN setup.launcher, next : Nat, run : Nat \ {0}, step : Nat]
        /\ at.next \in 1 .. Len(setup.launcher[at.macro]) + 1
        /\ at # None
    BY FeedFacts
  <1>2. /\ at' \in [macro : DOMAIN setup.launcher, next : Nat, run : Nat \ {0}, step : Nat]
        /\ at'.next \in 1 .. Len(setup.launcher[at'.macro]) + 1
    <2>1. PICK n \in Nat : n = Len(c)
      BY <1>1
    <2>2. at' = [at EXCEPT !.step = at.step + n]
      BY <1>1, <2>1
    <2> QED
      BY ONLY <1>0, <2>2, n \in Nat
  <1>3. at' # None /\ at # None
    <2>1. setup \in Setups
      BY DEF Sound, Types, TypeOK
    <2>2. at' \in [macro : Launched, next : Nat, run : Nat, step : Nat]
      BY <1>2, <2>1 DEF Launched
    <2> QED
      BY <1>0, <2>2, MacroAssumption
  <1>4. todo # <<>> /\ todo[1].op \notin Controls /\ timer' = timer
    BY FeedFacts DEF Controls
  <1>5. ControlInv' /\ todo' \in Seq(Calls)
    BY <1>1, <1>3, <1>4, ControlQuiet, ThenType DEF Sound, Types, Launching, Controls
  <1>6. ahead' \in Seq(Step) /\ Len(ahead') <= 1
    <2>1. \A y \in Step : <<y>> \in Seq(Step) /\ Len(<<y>>) <= 1
      OBVIOUS
    <2>2. <<>> \in Seq(Step) /\ Len(<<>>) <= 1
      OBVIOUS
    <2> QED
      BY <2>1, <2>2, FeedFacts
  <1>7. Types'
    BY <1>2, <1>5, <1>6, FeedFacts, TypesLaunch DEF Sound, Types, TypeOK
  <1> QED
    BY <1>5, <1>7 DEF Sound

LEMMA SendEndSound == Sound /\ SendStringEnd => Sound'
  <1> SUFFICES ASSUME Sound, SendStringEnd PROVE Sound'
    OBVIOUS
  <1>1. PICK c \in Seq(Calls) : Then(c) /\ \A i \in 1 .. Len(c) : c[i].op = "add"
    BY SendEndFacts
  <1>2. todo # <<>> /\ todo[1].op \notin Controls /\ timer' = timer /\ at' = at
    BY SendEndFacts DEF Controls
  <1>3. ControlInv' /\ todo' \in Seq(Calls)
    BY <1>1, <1>2, ControlQuiet, ThenType DEF Sound, Types, Launching, Controls
  <1>4. ahead' \in Seq(Step) /\ Len(ahead') <= 1
    BY SendEndFacts
  <1>5. Types'
    BY <1>3, <1>4, SendEndFacts, TypesLaunch DEF Sound, Types, TypeOK
  <1> QED
    BY <1>3, <1>5 DEF Sound

LEMMA MacroDoneSound == Sound /\ MacroDone => Sound'
  <1> SUFFICES ASSUME Sound, MacroDone PROVE Sound'
    OBVIOUS
  <1>1. /\ todo \in Seq(Calls) /\ todo # <<>> /\ todo[1].op = "done" /\ 1 \in DOMAIN todo
        /\ DOMAIN todo = 1 .. Len(todo) /\ Len(todo) \in Nat
    BY Called DEF Sound, MacroDone
  <1>2. ~timer
    BY <1>1 DEF Sound, ControlInv, Has, Controls
  <1>3. \A i \in DOMAIN todo : i # 1 => todo[i].op \notin Launching
    BY <1>1 DEF Sound, ControlInv, Launching, Controls
  <1>4. Then(<<>>) /\ at' = None /\ start' \in BOOLEAN /\ end' \in BOOLEAN
    BY DEF MacroDone
  <1>5. UNCHANGED <<env, queue, device, held, ran, lost, failed, running, encrypted, ahead, timer>>
    BY DEF MacroDone, history
  <1>6. todo' \in Seq(Calls) /\ \A i \in DOMAIN todo' : todo'[i].op \notin Launching
    BY <1>1, <1>3, <1>4, Popped
  <1>7. ControlInv'
    BY <1>2, <1>5, <1>6 DEF ControlInv, Has, Launching
  <1>8. Types'
    BY <1>4, <1>5, <1>6, TypesLaunch DEF Sound, Types, TypeOK
  <1> QED
    BY <1>7, <1>8 DEF Sound

LEMMA TimerSound == Sound /\ TimerInterrupt => Sound'
  <1> SUFFICES ASSUME Sound, TimerInterrupt PROVE Sound'
    OBVIOUS
  <1>1. /\ timer /\ timer' = FALSE /\ at # None
        /\ todo' = <<Exec, EndInterrupt>> \o todo
        /\ UNCHANGED <<env, queue, device, start, end, running, encrypted, at, ahead, held, history>>
    BY DEF TimerInterrupt, Sound, ControlInv
  <1>2. \A i \in DOMAIN todo : todo[i].op \notin Launching
    BY <1>1 DEF Sound, ControlInv, Has, Launching, Controls
  <1>3. /\ Exec \in Calls /\ Exec.op = "exec"
        /\ EndInterrupt \in Calls /\ EndInterrupt.op = "end-interrupt"
    BY CallsMade DEF Exec, EndInterrupt
  <1>4. Interposed(Exec, EndInterrupt)
    BY <1>1, <1>3, Interposes DEF Sound, Types
  <1>5. ControlInv'
    BY <1>1, <1>2, <1>3, <1>4 DEF Interposed, ControlInv, Has, Launching, Controls
  <1>6. Types'
    BY <1>1, <1>4, TypesLaunch DEF Interposed, Sound, Types, TypeOK, Steps, history
  <1> QED
    BY <1>5, <1>6 DEF Sound

LEMMA WorkSound == Sound /\ Work => Sound'
  <1> SUFFICES ASSUME Sound, Work PROVE Sound'
    OBVIOUS
  <1>1. /\ todo = <<>> /\ todo' = <<Process, EndWork>> /\ work' = {"running"}
        /\ UNCHANGED <<env, queue, counting, counterRunning, dlps, launch, held, history>>
    BY DEF Work, Idle
  <1>2. Process \in Calls /\ Process.op = "process" /\ EndWork \in Calls /\ EndWork.op = "end-work"
    BY CallsMade DEF Process, EndWork
  <1>3. todo' \in Seq(Calls) /\ \A i \in DOMAIN todo' : todo'[i].op \notin Launching
    <2>1. PICK a, b : a = Process /\ b = EndWork
      OBVIOUS
    <2>2. a.op \notin Launching /\ b.op \notin Launching
      BY <1>2, <2>1 DEF Launching, Controls
    <2>3. todo' = <<a, b>> /\ <<a, b>> \in Seq(Calls) /\ DOMAIN <<a, b>> = {1, 2}
          /\ <<a, b>>[1] = a /\ <<a, b>>[2] = b
      BY <1>1, <1>2, <2>1, Pair
    <2> QED
      BY ONLY <2>2, <2>3
  <1>4. ControlInv'
    BY <1>1, <1>3 DEF Sound, ControlInv, Has, Launching, launch
  <1>5. TypeOK'
    BY <1>1 DEF Sound, Types, TypeOK, env, launch, history, Steps
  <1>6. at' = at /\ setup' = setup
    BY <1>1 DEF launch, env
  <1> QED
    BY <1>3, <1>4, <1>5, <1>6 DEF Sound, Types

LEMMA CounterSound == Sound /\ CounterInterrupt => Sound'
  <1> SUFFICES ASSUME Sound, CounterInterrupt PROVE Sound'
    OBVIOUS
  <1>1. /\ UNCHANGED <<env, queue, launch, todo, held, history>>
        /\ counterRunning' = FALSE /\ counting' \in BOOLEAN /\ dlps' \in BOOLEAN
        /\ work' \subseteq {"queued", "running"}
    BY DEF CounterInterrupt, Sound, Types, TypeOK
  <1>2. ControlInv'
    BY <1>1 DEF Sound, ControlInv, Has, launch
  <1>3. TypeOK'
    BY <1>1 DEF Sound, Types, TypeOK, env, launch, history, Steps
  <1>4. at' = at /\ setup' = setup /\ todo' = todo
    BY <1>1 DEF launch, env
  <1> QED
    BY <1>2, <1>3, <1>4 DEF Sound, Types

LEMMA MacroKeySound == ASSUME NEW m \in DOMAIN setup.dts PROVE Sound /\ MacroKey(m) => Sound'
  <1> SUFFICES ASSUME Sound, MacroKey(m) PROVE Sound'
    OBVIOUS
  <1>1. /\ todo = <<>> /\ keys' = keys + 1 /\ keys < MaxKeys /\ ran' = Append(ran, 0)
        /\ down' \subseteq DOMAIN setup.dts
        /\ todo' = Adds(Half(m, m \notin down))
        /\ UNCHANGED <<setup, queue, device, launch, held, lost, failed>>
    BY DEF MacroKey, Idle, Sound, Types, TypeOK
  <1>2. /\ todo' \in Seq(Calls) /\ DOMAIN todo' = 1 .. Len(todo')
        /\ \A i \in 1 .. Len(todo') : todo'[i].op = "add"
    <2>1. PICK press \in BOOLEAN : press = (m \notin down)
      OBVIOUS
    <2>2. todo' = Adds(Half(m, press))
      BY <1>1, <2>1
    <2> QED
      BY <2>2, AddsType DEF Sound, Types, TypeOK
  <1>3. ControlInv'
    <2>1. \A i \in DOMAIN todo' : todo'[i].op \notin Launching
      BY <1>2 DEF Launching, Controls
    <2> QED
      BY <1>1, <2>1 DEF Sound, ControlInv, Has, Launching, launch
  <1>4. ran' \in Seq(Nat) /\ keys' \in 0 .. MaxKeys
    BY <1>1, Begun, MacroAssumption DEF Sound, Types, TypeOK
  <1>5. TypeOK'
    BY <1>1, <1>4 DEF Sound, Types, TypeOK, device, launch, Steps
  <1>6. at' = at /\ setup' = setup
    BY <1>1 DEF launch
  <1> QED
    BY <1>2, <1>3, <1>5, <1>6 DEF Sound, Types

LEMMA SendMacroSound ==
  ASSUME NEW m \in DOMAIN setup.launcher PROVE Sound /\ SendMacro(m) => Sound'
  <1> SUFFICES ASSUME Sound, SendMacro(m) PROVE Sound'
    OBVIOUS
  <1>1. /\ todo = <<>> /\ at = None /\ keys' = keys + 1 /\ keys < MaxKeys /\ ran' = Append(ran, 0)
        /\ at' = [macro |-> m, next |-> 1, run |-> Len(ran) + 1, step |-> 0]
        /\ dlps' = FALSE /\ start' = TRUE /\ end' = FALSE /\ encrypted' = FALSE
        /\ todo' = <<Exec>>
        /\ UNCHANGED <<setup, down, queue, counting, counterRunning, work, running, ahead, timer,
                       held, lost, failed>>
    BY DEF SendMacro, Idle
  <1>2. Exec \in Calls /\ Exec.op = "exec"
    BY CallsMade DEF Exec
  <1>3. /\ todo' \in Seq(Calls) /\ DOMAIN todo' = {1} /\ todo'[1].op = "exec"
    BY <1>1, <1>2
  <1>4. ran \in Seq(Nat) /\ Len(ran) \in Nat
    BY DEF Sound, Types, TypeOK
  <1>5. ran' \in Seq(Nat) /\ keys' \in 0 .. MaxKeys
    BY <1>1, <1>4, Begun, MacroAssumption DEF Sound, Types, TypeOK
  <1>6. setup.launcher[m] \in Seq(Step) /\ 1 \in 1 .. Len(setup.launcher[m]) + 1
    BY MacroAssumption DEF Sound, Types, TypeOK
  <1>7. /\ at' \in [macro : DOMAIN setup.launcher, next : Nat, run : Nat \ {0}, step : Nat]
        /\ at'.macro = m /\ at'.next = 1
    BY <1>1, <1>4
  <1>8. at' # None
    BY <1>7, MacroAssumption DEF Launched, Sound, Types, TypeOK
  <1>9. ControlInv'
    BY <1>1, <1>3, <1>8 DEF Sound, ControlInv, Has, Controls
  <1>10. TypeOK'
    BY <1>1, <1>5, <1>6, <1>7 DEF Sound, Types, TypeOK, Steps
  <1> QED
    BY <1>1, <1>3, <1>7, <1>9, <1>10 DEF Sound, Types

\* The types are right, and there is one launcher macro at a time.
LEMMA SoundStep == Sound /\ [Next]_vars => Sound'
  <1> SUFFICES ASSUME Sound, [Next]_vars PROVE Sound'
    OBVIOUS
  <1>1. CASE Run
    BY <1>1, PutSound, CheckSound, ProcessSound, InvokeSound, StartWaitSound, StartedSound,
       FlagsSound, WorkDoneSound, MacroExecSound, MacroStepSound, FeedSound, SendEndSound,
       MacroDoneSound, InterruptDoneSound DEF Run
  <1>2. CASE Work \/ CounterInterrupt \/ TimerInterrupt
    BY <1>2, WorkSound, CounterSound, TimerSound
  <1>3. CASE \E m \in DOMAIN setup.dts : MacroKey(m)
    BY <1>3, MacroKeySound
  <1>4. CASE \E m \in DOMAIN setup.launcher : SendMacro(m)
    BY <1>4, SendMacroSound
  <1>5. CASE UNCHANGED vars
    BY <1>5 DEF vars, Sound, Types, TypeOK, ControlInv, Has, Steps
  <1> QED
    BY <1>1, <1>2, <1>3, <1>4, <1>5 DEF Next

\* The types are right, and there is one launcher macro at a time.
THEOREM OneMacro == Spec => []Sound
  BY InitSound, SoundStep, PTL DEF Spec

-----------------------------------------------------------------------------
(* The chip is awake while a wait counts *)

\* Between starting the counter and keeping the chip awake there is a call of its own.
AwakeInv == counting /\ ~failed => ~dlps \/ Has({"started"})

\* A call that is not at the head stays.
LEMMA StillCalled ==
  ASSUME todo \in Seq(Calls), todo # <<>>, NEW c \in Seq(Calls), Then(c), NEW op,
         todo[1].op # op, Has({op})
  PROVE  Has({op})'
  <1>1. PICK i \in DOMAIN todo : todo[i].op = op
    BY DEF Has
  <1>2. i \in 2 .. Len(todo)
    BY <1>1
  <1>3. /\ Spliced(todo', c, todo) /\ DOMAIN todo' = 1 .. Len(todo')
    BY ThenType
  <1>4. PICK j \in DOMAIN todo' : todo'[j] = todo[i]
    BY <1>2, <1>3 DEF Spliced
  <1> QED
    BY <1>1, <1>4 DEF Has

LEMMA AwakeKept ==
  ASSUME AwakeInv, UNCHANGED <<counting, dlps, failed>>, Has({"started"}) => Has({"started"})'
  PROVE  AwakeInv'
  BY DEF AwakeInv

\* Every step of the thread or of an interrupt answers the call at the head; most have
\* nothing to do with a launcher macro.
Quietly ==
  \/ Put \/ CheckReady \/ ProcessNext \/ InvokeBinding \/ StartWait \/ CounterStarted
  \/ SetFlags \/ WorkDone \/ InterruptDone

LEMMA QuietThen ==
  ASSUME Sound, Quietly
  PROVE  /\ todo \in Seq(Calls) /\ todo # <<>> /\ todo[1].op \notin Launching
         /\ UNCHANGED <<env, at, ahead, timer, failed>>
         /\ \E c : Quiet(c) /\ Then(c)
  <1>1. UNCHANGED <<env, at, ahead, timer, failed>>
    BY DEF Quietly, Put, CheckReady, ProcessNext, InvokeBinding, StartWait, CounterStarted,
           SetFlags, WorkDone, InterruptDone, launch, history
  <1>2. todo \in Seq(Calls) /\ todo # <<>>
    BY Called DEF Sound, Quietly, Put, CheckReady, ProcessNext, InvokeBinding, StartWait,
                  CounterStarted, SetFlags, WorkDone, InterruptDone
  <1>3. todo[1].op \notin Launching
    BY Called DEF Sound, Quietly, Put, CheckReady, ProcessNext, InvokeBinding, StartWait,
                  CounterStarted, SetFlags, WorkDone, InterruptDone, Launching, Controls
  <1>4. CASE Put \/ CheckReady \/ StartWait \/ CounterStarted \/ SetFlags \/ WorkDone
             \/ InterruptDone
    <2>1. \/ Then(<<>>) \/ Then(<<Check>>) \/ Then(<<Process>>) \/ Then(<<Started>>)
      BY <1>4 DEF Put, CheckReady, StartWait, CounterStarted, SetFlags, WorkDone, InterruptDone
    <2>2. \E c : Quiet(c) /\ Then(c)
      BY <2>1, QuietCalls
    <2> QED
      BY <1>1, <1>2, <1>3, <2>2
  <1>5. CASE ProcessNext
    <2>1. CASE queue = <<>>
      BY <1>1, <1>2, <1>3, <1>5, <2>1, QuietCalls DEF ProcessNext
    <2>2. CASE queue # <<>>
      <3>1. Head(queue) \in Item
        BY <2>2 DEF Sound, Types, TypeOK
      <3>2. Head(queue).wait \in {0, 1}
        BY <3>1 DEF Item
      <3>3. Quiet(<<Invoke(Head(queue)), Wait(Head(queue).wait), Flags>>)
        BY <3>1, <3>2, QuietCalls
      <3> QED
        BY <1>1, <1>2, <1>3, <1>5, <2>2, <3>3 DEF ProcessNext
    <2> QED
      BY <2>1, <2>2
  <1>6. CASE InvokeBinding
    <2>1. Call.item \in Item
      BY <1>6, Called DEF Sound, InvokeBinding
    <2>2. CASE Call.item.bind \in DOMAIN setup.dts
      <3>1. Then(Adds(Half(Call.item.bind, Call.item.press)))
        BY <1>6, <2>2 DEF InvokeBinding
      <3>2. Call.item.press \in BOOLEAN
        BY <2>1 DEF Item
      <3>3. Quiet(Adds(Half(Call.item.bind, Call.item.press)))
        BY <2>2, <3>2, AddsType DEF Sound, Types, TypeOK, Quiet, Launching, Controls
      <3> QED
        BY <1>1, <1>2, <1>3, <3>1, <3>3
    <2>3. CASE Call.item.bind \notin DOMAIN setup.dts
      BY <1>1, <1>2, <1>3, <1>6, <2>3, QuietCalls DEF InvokeBinding
    <2> QED
      BY <2>2, <2>3
  <1> QED
    BY <1>4, <1>5, <1>6 DEF Quietly

LEMMA RunThen ==
  ASSUME Sound, Run
  PROVE  todo \in Seq(Calls) /\ todo # <<>> /\ \E c \in Seq(Calls) : Then(c)
  <1>1. CASE Quietly
    BY <1>1, QuietThen DEF Quiet
  <1>5. CASE MacroExec
    BY <1>5, Called, CallSeqs, CallsMade DEF Sound, MacroExec
  <1>6. CASE MacroStep
    <2>1. /\ todo \in Seq(Calls) /\ todo # <<>> /\ Call.count \in Nat /\ 1 \in DOMAIN todo
          /\ todo[1].op = "exec-step"
      BY <1>6, Called DEF Sound, MacroStep
    <2>2. CASE Then(<<>>) \/ Then(<<SendEnd, Done>>)
      BY <2>1, <2>2, CallSeqs, CallsMade
    <2>3. CASE /\ ~(at.next > Len(Steps))
               /\ Then(<<Feed(Steps[at.next]), ExecStep(Call.count + 1)>>)
      <3>1. at # None
        BY <2>1 DEF Sound, ControlInv, Has, Controls
      <3>2. /\ at.macro \in DOMAIN setup.launcher
            /\ at.next \in 1 .. Len(Steps) + 1
        BY <3>1 DEF Sound, Types, TypeOK
      <3>3. Steps \in Seq(Step)
        BY <3>2, MacroAssumption DEF Steps, Sound, Types, TypeOK
      <3>4. Steps[at.next] \in Step
        BY <2>3, <3>2, <3>3
      <3>5. Feed(Steps[at.next]) \in Calls /\ ExecStep(Call.count + 1) \in Calls
        BY <2>1, <3>4, CallsMade
      <3> QED
        BY <2>1, <2>3, <3>5, Pair
    <2> QED
      BY <1>6, <2>2, <2>3 DEF MacroStep
  <1>7. CASE FeedStep
    BY <1>7, FeedFacts
  <1>8. CASE SendStringEnd
    BY <1>8, SendEndFacts
  <1>9. CASE MacroDone
    BY <1>9, Called, CallSeqs DEF Sound, MacroDone
  <1> QED
    BY <1>1, <1>5, <1>6, <1>7, <1>8, <1>9 DEF Run, Quietly

LEMMA AwakeStep == Sound /\ AwakeInv /\ [Next]_vars => AwakeInv'
  <1> SUFFICES ASSUME Sound, AwakeInv, [Next]_vars PROVE AwakeInv'
    OBVIOUS
  <1>1. CASE Run
    <2>1. todo \in Seq(Calls) /\ todo # <<>> /\ \E c \in Seq(Calls) : Then(c)
      BY <1>1, RunThen
    <2>2. todo[1].op # "started" /\ Has({"started"}) => Has({"started"})'
      BY <2>1, StillCalled
    <2>3. CASE CounterStarted
      BY <2>3 DEF CounterStarted, AwakeInv
    <2>4. CASE StartWait
      <3>1. todo[1].op = "wait" /\ UNCHANGED <<dlps, failed>>
        BY <2>4, Called DEF StartWait, Sound, history
      <3>2. CASE counting' = counting
        BY <2>2, <3>1, <3>2, AwakeKept
      <3>3. CASE Then(<<Started>>)
        <4>1. 1 \in DOMAIN todo' /\ todo'[1] = Started
          BY <2>1, <3>3, CallsMade, ReplacedByOne
        <4> QED
          BY <4>1 DEF AwakeInv, Has, Started
      <3> QED
        BY <2>4, <3>2, <3>3 DEF StartWait
    <2>5. CASE SetFlags
      <3>1. todo[1].op = "flags" /\ failed' = failed
        BY <2>5, Called DEF SetFlags, Sound, history
      <3>2. \/ counting' = FALSE
            \/ counting' = counting /\ (dlps' = dlps \/ dlps' = (dlps /\ ~start))
        BY <2>5 DEF SetFlags
      <3> QED
        BY <2>2, <3>1, <3>2 DEF AwakeInv
    <2>6. CASE MacroStep
      <3>1. todo[1].op = "exec-step" /\ counting' = counting
        BY <2>6, Called DEF MacroStep, Sound
      <3>2. failed' = TRUE \/ UNCHANGED <<dlps, failed>>
        BY <2>6 DEF MacroStep
      <3> QED
        BY <2>2, <3>1, <3>2 DEF AwakeInv
    <2>7. CASE \/ Put \/ CheckReady \/ ProcessNext \/ InvokeBinding \/ WorkDone \/ MacroExec
               \/ FeedStep \/ SendStringEnd \/ MacroDone \/ InterruptDone
      <3>1. UNCHANGED <<counting, dlps, failed>>
        BY <2>7 DEF Put, CheckReady, ProcessNext, InvokeBinding, WorkDone, MacroExec, FeedStep,
                    SendStringEnd, MacroDone, InterruptDone, device, history
      <3>2. todo[1].op # "started"
        BY <2>7, Called DEF Put, CheckReady, ProcessNext, InvokeBinding, WorkDone, MacroExec,
                            FeedStep, SendStringEnd, MacroDone, InterruptDone, Sound
      <3> QED
        BY <2>2, <3>1, <3>2, AwakeKept
    <2> QED
      BY <1>1, <2>3, <2>4, <2>5, <2>6, <2>7 DEF Run
  <1>2. CASE Work
    <2>1. ~Has({"started"}) /\ UNCHANGED <<counting, dlps, failed>>
      BY <1>2 DEF Work, Idle, Has, history
    <2> QED
      BY <2>1, AwakeKept
  <1>3. CASE CounterInterrupt
    <2>1. todo' = todo /\ failed' = failed
      BY <1>3 DEF CounterInterrupt, history
    <2>2. counting' = FALSE \/ UNCHANGED <<counting, dlps>>
      BY <1>3 DEF CounterInterrupt
    <2> QED
      BY <2>1, <2>2 DEF AwakeInv, Has
  <1>4. CASE TimerInterrupt
    <2>1. Interposed(Exec, EndInterrupt) /\ UNCHANGED <<counting, dlps, failed>>
      BY <1>4, Interposes, CallsMade DEF TimerInterrupt, Sound, Types, device, history
    <2>2. Has({"started"}) => Has({"started"})'
      BY <2>1 DEF Interposed, Has
    <2> QED
      BY <2>1, <2>2, AwakeKept
  <1>5. CASE \E m \in DOMAIN setup.dts : MacroKey(m)
    <2>1. ~Has({"started"}) /\ UNCHANGED <<counting, dlps, failed>>
      BY <1>5 DEF MacroKey, Idle, Has, device
    <2> QED
      BY <2>1, AwakeKept
  <1>6. CASE \E m \in DOMAIN setup.launcher : SendMacro(m)
    <2>1. dlps' = FALSE
      BY <1>6 DEF SendMacro
    <2> QED
      BY <2>1 DEF AwakeInv
  <1>7. CASE UNCHANGED vars
    BY <1>7 DEF vars, AwakeInv, Has
  <1> QED
    BY <1>1, <1>2, <1>3, <1>4, <1>5, <1>6, <1>7 DEF Next

\* The chip stays awake while the counter is to wake it (behavior_queue.c), for all macros
\* of both kinds at once.
THEOREM Awake == Spec => []AwakeToCount
  <1>1. Init => AwakeInv
    BY DEF Init, AwakeInv
  <1>2. AwakeInv => AwakeToCount
    BY DEF AwakeInv, AwakeToCount, Idle, Has
  <1> QED
    BY <1>1, <1>2, AwakeStep, OneMacro, PTL DEF Spec

-----------------------------------------------------------------------------
(* A launcher macro that is over leaves the output as it was *)

\* No launcher macro ends in a wait: that one would be told that it is over when nobody
\* runs the queue any more.
EndsWithKey ==
  \A s \in Setups : \A m \in DOMAIN s.launcher :
    s.launcher[m][Len(s.launcher[m])].code # "delay"

\* The macro's last items have been sent.
Late == Has({"done"}) /\ ~Has({"send-end"})

\* Which step waits for the one behind it.
Latest == Steps[at.next - 1]
AheadInv ==
  at # None /\ ~Late =>
    /\ Has({"feed"}) => at.next > 1 /\ todo[1].step = Latest
    /\ at.next > 1 =>
         /\ Latest.code # "bad"
         /\ ~Has({"feed"}) /\ Latest.code # "delay" => ahead = <<Latest>>
    /\ Has({"send-end"}) => at.next = Len(Steps) + 1

FlagInv ==
  /\ at # None => ~end /\ ~encrypted
  /\ start /\ ~failed => at # None
  /\ running /\ ~failed => ~encrypted

\* Somebody will run the queue once more.
Stirring == queue # <<>> \/ "queued" \in work \/ counting
LateInv ==
  \A j \in DOMAIN todo : todo[j].op = "done" /\ ~Has({"send-end"}) =>
    Stirring \/ \E i \in DOMAIN todo : i < j /\ todo[i].op \in {"add", "wait"}
OverInv ==
  ~encrypted /\ ~failed /\ at = None => end /\ (Stirring \/ Has({"process", "wait", "flags"}))

LEMMA QuietHas ==
  ASSUME Sound, Quietly, NEW op \in Launching
  PROVE  Has({op})' <=> Has({op})
  <1>1. /\ todo \in Seq(Calls) /\ todo # <<>> /\ todo[1].op # op
    BY QuietThen
  <1>2. PICK c : c \in Seq(Calls) /\ Then(c) /\ \A i \in 1 .. Len(c) : c[i].op # op
    BY QuietThen DEF Quiet
  <1>3. Has({op}) => Has({op})'
    BY <1>1, <1>2, StillCalled
  <1>4. Spliced(todo', c, todo) /\ DOMAIN todo' = 1 .. Len(todo') /\ DOMAIN todo = 1 .. Len(todo)
    BY <1>1, <1>2, ThenType
  <1>5. ASSUME NEW i \in DOMAIN todo', todo'[i].op = op PROVE Has({op})
    <2>1. i > Len(c)
      <3>1. i \in 1 .. Len(todo') /\ Len(c) \in Nat
        BY <1>2, <1>4
      <3>2. i \notin 1 .. Len(c)
        BY <1>2, <1>4, <1>5 DEF Spliced
      <3> QED
        BY <3>1, <3>2
    <2>2. i - Len(c) + 1 \in 2 .. Len(todo) /\ todo'[i] = todo[i - Len(c) + 1]
      BY <1>4, <2>1 DEF Spliced
    <2>3. PICK k \in DOMAIN todo : todo'[i] = todo[k]
      BY <1>1, <1>4, <2>2
    <2> QED
      BY <1>5, <2>3 DEF Has
  <1> QED
    BY <1>3, <1>5 DEF Has

\* A call that neither waits behind the head nor is made.
LEMMA NotCalled ==
  ASSUME todo \in Seq(Calls), todo # <<>>, NEW c \in Seq(Calls), Then(c), NEW op,
         \A i \in 1 .. Len(c) : c[i].op # op,
         \A i \in DOMAIN todo : i # 1 => todo[i].op # op
  PROVE  ~Has({op})'
  <1>1. Spliced(todo', c, todo) /\ DOMAIN todo' = 1 .. Len(todo') /\ DOMAIN todo = 1 .. Len(todo)
    BY ThenType
  <1>2. Len(c) \in Nat /\ Len(todo) \in Nat
    OBVIOUS
  <1>3. ASSUME NEW i \in DOMAIN todo' PROVE todo'[i].op # op
    <2>1. i \in 1 .. Len(todo') /\ i \in Nat
      BY <1>1
    <2>2. CASE i \in 1 .. Len(c)
      BY <1>1, <2>2 DEF Spliced
    <2>3. CASE i > Len(c)
      <3>1. i - Len(c) + 1 \in 2 .. Len(todo) /\ todo'[i] = todo[i - Len(c) + 1]
        BY <1>1, <2>1, <2>3 DEF Spliced
      <3>2. \A k \in 2 .. Len(todo) : k \in DOMAIN todo /\ k # 1
        BY <1>1, <1>2
      <3> QED
        BY <3>1, <3>2
    <2> QED
      BY <1>2, <2>1, <2>2, <2>3
  <1> QED
    BY <1>3 DEF Has

LEMMA QuietSends ==
  ASSUME Sound, Quietly
  PROVE  ~Has({"feed"}) /\ ~Has({"send-end"}) /\ ~Has({"feed"})' /\ ~Has({"send-end"})'
  <1>1. ~Has({"feed"}) /\ ~Has({"send-end"})
    BY QuietThen DEF Sound, ControlInv, Has, Launching
  <1> QED
    BY <1>1, QuietHas DEF Launching

\* What a key or the work item starts with.
LEMMA QuietStart ==
  ASSUME Sound, Work \/ \E m \in DOMAIN setup.dts : MacroKey(m)
  PROVE  \A i \in DOMAIN todo' : todo'[i].op \notin Launching
  <1>1. CASE Work
    <2>1. todo' = <<Process, EndWork>> /\ Process.op = "process" /\ EndWork.op = "end-work"
      BY <1>1 DEF Work, Process, EndWork
    <2> QED
      BY <2>1 DEF Launching, Controls
  <1>2. ASSUME NEW m \in DOMAIN setup.dts, MacroKey(m)
        PROVE  \A i \in DOMAIN todo' : todo'[i].op \notin Launching
    <2>1. PICK press \in BOOLEAN : todo' = Adds(Half(m, press))
      BY <1>2 DEF MacroKey
    <2>2. setup \in Setups /\ ran \in Seq(Nat)
      BY DEF Sound, Types, TypeOK
    <2>3. /\ DOMAIN Adds(Half(m, press)) = 1 .. Len(Adds(Half(m, press)))
          /\ \A i \in 1 .. Len(Adds(Half(m, press))) : Adds(Half(m, press))[i].op = "add"
      BY <2>2, AddsType
    <2>4. \A i \in DOMAIN todo' : todo'[i].op = "add"
      BY ONLY <2>1, <2>3
    <2> QED
      BY <2>4 DEF Launching, Controls
  <1> QED
    BY <1>1, <1>2

LEMMA AheadStep == Sound /\ AheadInv /\ [Next]_vars => AheadInv'
  <1> SUFFICES ASSUME Sound, AheadInv, [Next]_vars PROVE AheadInv'
    OBVIOUS
  <1>0. at # None =>
          /\ at \in [macro : DOMAIN setup.launcher, next : Nat, run : Nat \ {0}, step : Nat]
          /\ at.next \in 1 .. Len(Steps) + 1 /\ Len(Steps) \in Nat
    BY MacroAssumption DEF Sound, Types, TypeOK, Steps
  <1>1. CASE Quietly
    <2>1. UNCHANGED <<setup, at, ahead>>
      BY <1>1, QuietThen DEF env
    <2>2. Late' <=> Late
      BY <1>1, QuietHas DEF Late, Launching, Controls
    <2> QED
      BY <1>1, <2>1, <2>2, QuietSends DEF AheadInv, Latest, Steps
  <1>2. CASE MacroExec \/ MacroStep
    <2>1. /\ todo \in Seq(Calls) /\ todo # <<>> /\ 1 \in DOMAIN todo
          /\ todo[1].op \in {"exec", "exec-step"}
      BY <1>2, Called DEF Sound, MacroExec, MacroStep
    <2>2. at # None /\ \A i \in DOMAIN todo : i # 1 => todo[i].op \notin Launching
      BY <2>1 DEF Sound, ControlInv, Has, Launching, Controls
    <2>3. ~Has({"feed", "send-end", "done"})
      BY <2>1, <2>2 DEF Has, Launching, Controls
    <2>4. ~Late /\ UNCHANGED <<setup, ahead>>
      BY <1>2, <2>3 DEF Late, Has, MacroExec, MacroStep, env
    <2>5. CASE Then(<<>>) /\ at' = at
      <3>1. \A i \in DOMAIN todo' : todo'[i].op \notin Launching
        BY <2>1, <2>2, <2>5, Popped
      <3>2. ~Has({"feed"})' /\ ~Has({"send-end"})'
        BY <3>1 DEF Has, Launching
      <3> QED
        BY <2>2, <2>3, <2>4, <2>5, <3>2 DEF AheadInv, Latest, Steps, Has
    <2>6. CASE Then(<<ExecStep(0)>>) /\ at' = at
      <3>1. \A i \in DOMAIN todo' : todo'[i].op \notin {"feed", "send-end"}
        <4>1. ExecStep(0) \in Calls /\ ExecStep(0).op = "exec-step"
          BY CallsMade DEF ExecStep
        <4> QED
          BY <2>1, <2>2, <2>6, <4>1, ReplacedByOne DEF Launching
      <3>2. ~Has({"feed"})' /\ ~Has({"send-end"})'
        BY <3>1 DEF Has
      <3> QED
        BY <2>2, <2>3, <2>4, <2>6, <3>2 DEF AheadInv, Latest, Steps, Has
    <2>7. CASE at' = None
      BY <2>7 DEF AheadInv
    <2>8. CASE at.next > Len(Steps) /\ Then(<<SendEnd, Done>>) /\ at' = at
      <3>1. ~Has({"feed"})'
        <4>1. PICK a \in Calls, b \in Calls :
                a = SendEnd /\ a.op = "send-end" /\ b = Done /\ b.op = "done"
          BY CallsMade DEF SendEnd, Done
        <4>2. <<a, b>> \in Seq(Calls) /\ \A i \in 1 .. Len(<<a, b>>) : <<a, b>>[i].op # "feed"
          <5>1. <<a, b>> \in Seq(Calls) /\ Len(<<a, b>>) = 2 /\ <<a, b>>[1] = a /\ <<a, b>>[2] = b
            BY CallSeqs
          <5>2. \A i \in 1 .. 2 : i = 1 \/ i = 2
            OBVIOUS
          <5> QED
            BY <4>1, <5>1, <5>2
        <4> QED
          BY <2>1, <2>2, <2>8, <4>1, <4>2, NotCalled DEF Launching
      <3>2. at.next = Len(Steps) + 1
        BY <1>0, <2>2, <2>8
      <3> QED
        BY <2>2, <2>3, <2>4, <2>8, <3>1, <3>2 DEF AheadInv, Latest, Steps, Has
    <2>9. CASE /\ ~(at.next > Len(Steps)) /\ Steps[at.next].code # "bad"
               /\ at' = [at EXCEPT !.next = at.next + 1]
               /\ Then(<<Feed(Steps[at.next]), ExecStep(Call.count + 1)>>)
               /\ Call.count \in Nat
      <3>1. at.next \in 1 .. Len(Steps) /\ Steps \in Seq(Step)
        BY <1>0, <2>2, <2>9, MacroAssumption DEF Sound, Types, TypeOK, Steps
      <3>2. PICK s \in Step, n \in Nat : s = Steps[at.next] /\ n = Call.count + 1
        BY <2>9, <3>1
      <3>3. /\ Feed(s) \in Calls /\ Feed(s).op = "feed" /\ Feed(s).step = s
            /\ ExecStep(n) \in Calls /\ ExecStep(n).op = "exec-step"
        BY CallsMade DEF Feed, ExecStep
      <3>4. Then(<<Feed(s), ExecStep(n)>>)
        BY <2>9, <3>2
      <3>5. PICK a \in Calls, b \in Calls :
              a = Feed(s) /\ a.op = "feed" /\ b = ExecStep(n) /\ b.op = "exec-step"
        BY <3>3
      <3>9. 1 \in DOMAIN todo' /\ todo'[1] = a
        BY <2>1, <3>4, <3>5, ReplacedByTwo
      <3>10. /\ <<a, b>> \in Seq(Calls)
             /\ \A i \in 1 .. Len(<<a, b>>) : <<a, b>>[i].op # "send-end"
        <4>1. <<a, b>> \in Seq(Calls) /\ Len(<<a, b>>) = 2 /\ <<a, b>>[1] = a /\ <<a, b>>[2] = b
          BY CallSeqs
        <4>2. \A i \in 1 .. 2 : i = 1 \/ i = 2
          OBVIOUS
        <4> QED
          BY <3>5, <4>1, <4>2
      <3>6. Has({"feed"})' /\ ~Has({"send-end"})'
        <4>1. Has({"feed"})'
          BY <3>5, <3>9 DEF Has
        <4> QED
          BY <2>1, <2>2, <3>4, <3>5, <3>10, <4>1, NotCalled DEF Launching
      <3>7. at'.next = at.next + 1 /\ at'.macro = at.macro /\ at'.next > 1 /\ at'.next - 1 = at.next
        BY <1>0, <2>2, <2>9
      <3>8. Latest' = s
        BY <2>4, <3>2, <3>7 DEF Latest, Steps
      <3> QED
        BY <2>9, <3>2, <3>3, <3>5, <3>6, <3>7, <3>8, <3>9 DEF AheadInv
    <2>10. Calling("exec-step") => Call.count \in Nat
      BY Called DEF Sound
    <2> QED
      BY <1>2, <2>5, <2>6, <2>7, <2>8, <2>9, <2>10 DEF MacroExec, MacroStep
  <1>3. CASE FeedStep
    <2>1. PICK c \in Seq(Calls) :
            /\ Then(c) /\ Len(c) \in 0 .. 2
            /\ at' = [at EXCEPT !.step = at.step + Len(c)]
            /\ \A i \in 1 .. Len(c) : c[i].op = "add"
      BY <1>3, FeedFacts
    <2>2. /\ todo \in Seq(Calls) /\ todo # <<>> /\ todo[1].op = "feed" /\ Call = todo[1]
          /\ 1 \in DOMAIN todo /\ 2 \in DOMAIN todo /\ todo[2].op = "exec-step"
          /\ at # None /\ setup' = setup
          /\ ahead' = IF ahead # <<>> /\ Call.step.code = "delay" THEN <<>> ELSE <<Call.step>>
      BY <1>3, FeedFacts DEF env
    <2>3. ~Has({"done"})
      BY <2>2 DEF Sound, ControlInv, Has, Controls
    <2>5. ~Has({"feed"})' /\ ~Has({"send-end"})'
      <3>1. \A i \in DOMAIN todo : i # 1 => todo[i].op # "feed" /\ todo[i].op # "send-end"
        BY DEF Sound, ControlInv
      <3>2. \A i \in 1 .. Len(c) : c[i].op # "feed" /\ c[i].op # "send-end"
        BY <2>1
      <3> QED
        BY <2>1, <2>2, <3>1, <3>2, NotCalled
    <2>6. at'.next = at.next /\ at'.macro = at.macro
      BY <1>0, <2>1, <2>2
    <2>7. Latest' = Latest
      BY <2>2, <2>6 DEF Latest, Steps
    <2>8. Has({"feed"}) /\ ~Late
      BY <2>2, <2>3 DEF Has, Late
    <2> QED
      BY <2>2, <2>5, <2>6, <2>7, <2>8 DEF AheadInv
  <1>4. CASE SendStringEnd
    <2>1. PICK c \in Seq(Calls) : Then(c) /\ \A i \in 1 .. Len(c) : c[i].op = "add"
      BY <1>4, SendEndFacts
    <2>2. /\ todo \in Seq(Calls) /\ todo # <<>> /\ todo[1].op = "send-end"
          /\ 2 \in DOMAIN todo /\ todo[2].op = "done"
      BY <1>4, SendEndFacts
    <2>4. ~Has({"send-end"})'
      <3>1. \A i \in DOMAIN todo : i # 1 => todo[i].op # "send-end"
        BY DEF Sound, ControlInv
      <3>2. \A i \in 1 .. Len(c) : c[i].op # "send-end"
        BY <2>1
      <3> QED
        BY <2>1, <2>2, <3>1, <3>2, NotCalled
    <2>5. Has({"done"}) => Has({"done"})'
      BY <2>1, <2>2, StillCalled
    <2> QED
      BY <2>2, <2>4, <2>5 DEF AheadInv, Late, Has
  <1>5. CASE MacroDone
    BY <1>5 DEF MacroDone, AheadInv
  <1>6. CASE Work \/ \E m \in DOMAIN setup.dts : MacroKey(m)
    <2>1. todo = <<>> /\ UNCHANGED <<setup, at, ahead>>
      BY <1>6 DEF Work, MacroKey, Idle, env, launch
    <2>2. \A i \in DOMAIN todo' : todo'[i].op \notin Launching
      BY <1>6, QuietStart
    <2> QED
      BY <2>1, <2>2 DEF AheadInv, Late, Latest, Steps, Has, Launching, Controls
  <1>7. CASE CounterInterrupt
    BY <1>7 DEF CounterInterrupt, env, launch, AheadInv, Late, Latest, Steps, Has
  <1>8. CASE TimerInterrupt
    <2>1. /\ Interposed(Exec, EndInterrupt) /\ UNCHANGED <<setup, at, ahead>> /\ timer
      BY <1>8, Interposes, CallsMade DEF TimerInterrupt, Sound, Types, env
    <2>2. \A i \in DOMAIN todo : todo[i].op \notin Launching
      BY <2>1 DEF Sound, ControlInv, Has, Launching, Controls
    <2>3. ~Late /\ ~Has({"feed"}) /\ ~Has({"send-end"})
      BY <2>2 DEF Has, Late, Launching, Controls
    <2>4. ~Has({"feed"})' /\ ~Has({"send-end"})'
      BY <2>1, <2>2 DEF Has, Interposed, Launching, Exec, EndInterrupt
    <2> QED
      BY <2>1, <2>3, <2>4 DEF AheadInv, Latest, Steps
  <1>9. CASE \E m \in DOMAIN setup.launcher : SendMacro(m)
    <2>1. at'.next = 1 /\ todo' = <<Exec>>
      BY <1>9 DEF SendMacro
    <2>2. ~Has({"feed"})' /\ ~Has({"send-end"})'
      BY <2>1 DEF Has, Exec
    <2> QED
      BY <2>1, <2>2 DEF AheadInv
  <1>10. CASE UNCHANGED vars
    BY <1>10 DEF vars, AheadInv, Late, Latest, Steps, Has
  <1> QED
    BY <1>1, <1>2, <1>3, <1>4, <1>5, <1>6, <1>7, <1>8, <1>9, <1>10 DEF Next, Run, Quietly

\* A launcher macro that moves on is still there.
LEMMA MovesOn ==
  ASSUME Sound, at # None
  PROVE  /\ \A n \in Nat : [at EXCEPT !.step = at.step + n] # None
         /\ [at EXCEPT !.next = at.next + 1] # None
  <1>1. None \notin [macro : Launched, next : Nat, run : Nat, step : Nat]
    BY MacroAssumption
  <1>2. /\ at \in [macro : DOMAIN setup.launcher, next : Nat, run : Nat \ {0}, step : Nat]
        /\ setup \in Setups
    BY DEF Sound, Types, TypeOK
  <1>3. at.macro \in Launched
    BY <1>2 DEF Launched
  <1>4. at \in [macro : Launched, next : Nat, run : Nat, step : Nat]
    BY <1>2, <1>3
  <1> QED
    BY ONLY <1>1, <1>4

LEMMA FlagStep == Sound /\ FlagInv /\ [Next]_vars => FlagInv'
  <1> SUFFICES ASSUME Sound, FlagInv, [Next]_vars PROVE FlagInv'
    OBVIOUS
  <1>0. None \notin [macro : Launched, next : Nat, run : Nat, step : Nat]
    BY MacroAssumption
  <1>1. CASE SetFlags
    <2>1. UNCHANGED <<at, failed>>
      BY <1>1 DEF SetFlags, history
    <2> QED
      BY <1>1, <2>1 DEF SetFlags, FlagInv
  <1>2. CASE \/ Put \/ CheckReady \/ ProcessNext \/ InvokeBinding \/ StartWait \/ CounterStarted
             \/ WorkDone \/ InterruptDone
    <2>1. UNCHANGED <<at, failed, start, end, running, encrypted>>
      BY <1>2 DEF Put, CheckReady, ProcessNext, InvokeBinding, StartWait, CounterStarted,
                  WorkDone, InterruptDone, launch, history
    <2> QED
      BY <2>1 DEF FlagInv
  <1>3. CASE MacroExec
    BY <1>3 DEF MacroExec, FlagInv, history
  <1>4. CASE MacroStep
    <2>1. at # None
      BY <1>4, Called DEF MacroStep, Sound, ControlInv, Has, Controls
    <2>2. (failed' = TRUE /\ at' = None) \/ failed' = failed
      BY <1>4 DEF MacroStep
    <2>3. UNCHANGED <<start, end, running, encrypted>>
      BY <1>4 DEF MacroStep
    <2>4. at' = None => failed' = TRUE
      <3>1. Sound'
        BY <1>4, MacroStepSound
      <3>2. CASE at' = [at EXCEPT !.next = at.next + 1]
        BY <2>1, <3>2, MovesOn
      <3> QED
        BY <1>4, <2>1, <3>2 DEF MacroStep
    <2> QED
      BY <2>1, <2>2, <2>3, <2>4 DEF FlagInv
  <1>5. CASE FeedStep
    <2>1. UNCHANGED <<failed, start, end, running, encrypted>> /\ at # None
      BY <1>5, FeedFacts
    <2>2. PICK n \in Nat : at' = [at EXCEPT !.step = at.step + n]
      <3>1. PICK c \in Seq(Calls) : Len(c) \in 0 .. 2 /\ at' = [at EXCEPT !.step = at.step + Len(c)]
        BY <1>5, FeedFacts
      <3>2. Len(c) \in Nat
        BY <3>1
      <3> QED
        BY ONLY <3>1, <3>2
    <2>3. at' # None
      BY <2>1, <2>2, MovesOn
    <2> QED
      BY <2>1, <2>3 DEF FlagInv
  <1>6. CASE SendStringEnd
    BY <1>6, SendEndFacts DEF FlagInv
  <1>7. CASE MacroDone
    <2>1. /\ start' = FALSE /\ at' = None
          /\ UNCHANGED <<failed, running, encrypted>>
      BY <1>7 DEF MacroDone, history
    <2> QED
      BY <2>1 DEF FlagInv
  <1>8. CASE Work \/ CounterInterrupt \/ TimerInterrupt \/ \E m \in DOMAIN setup.dts : MacroKey(m)
    <2>1. UNCHANGED <<at, failed, start, end, running, encrypted>>
      BY <1>8 DEF Work, CounterInterrupt, TimerInterrupt, MacroKey, launch, history
    <2> QED
      BY <2>1 DEF FlagInv
  <1>9. ASSUME NEW m \in DOMAIN setup.launcher, SendMacro(m) PROVE FlagInv'
    <2>1. /\ at' = [macro |-> m, next |-> 1, run |-> Len(ran) + 1, step |-> 0]
          /\ end' = FALSE /\ encrypted' = FALSE
      BY <1>9 DEF SendMacro
    <2>2. m \in Launched /\ Len(ran) + 1 \in Nat
      BY DEF Sound, Types, TypeOK, Launched
    <2>3. at' # None
      BY <1>0, <2>1, <2>2
    <2> QED
      BY <2>1, <2>3 DEF FlagInv
  <1>10. CASE UNCHANGED vars
    BY <1>10 DEF vars, FlagInv
  <1> QED
    BY <1>1, <1>2, <1>3, <1>4, <1>5, <1>6, <1>7, <1>8, <1>9, <1>10 DEF Next, Run

\* What macro_exec does with the queue: nothing; and it announces the end of the macro only
\* behind its last step.
LEMMA StepFacts ==
  ASSUME Sound, MacroExec \/ MacroStep
  PROVE  /\ at # None
         /\ UNCHANGED <<setup, queue, counting, work, encrypted>>
         /\ Has({"done"})' => Has({"send-end"})'
  <1>1. UNCHANGED <<setup, queue, counting, work, encrypted>>
    BY DEF MacroExec, MacroStep, env, device
  <1>2. /\ todo \in Seq(Calls) /\ todo # <<>> /\ 1 \in DOMAIN todo
        /\ todo[1].op \in {"exec", "exec-step"}
    BY Called DEF Sound, MacroExec, MacroStep
  <1>3. at # None /\ \A i \in DOMAIN todo : i # 1 => todo[i].op # "done"
    BY <1>2 DEF Sound, ControlInv, Has, Controls
  <1>4. CASE Then(<<>>)
    <2>1. PICK c \in Seq(Calls) : c = <<>>
      BY CallSeqs
    <2>2. \A i \in 1 .. Len(c) : c[i].op # "done"
      BY <2>1
    <2>3. Then(c)
      BY <1>4, <2>1
    <2> QED
      BY <1>1, <1>2, <1>3, <2>2, <2>3, NotCalled
  <1>5. CASE Then(<<ExecStep(0)>>)
    <2>0. PICK n \in Nat : n = 0
      OBVIOUS
    <2>1. PICK a \in Calls : a = ExecStep(n) /\ a.op = "exec-step"
      BY CallsMade DEF ExecStep
    <2>2. <<a>> \in Seq(Calls) /\ \A i \in 1 .. Len(<<a>>) : <<a>>[i].op # "done"
      BY <2>1
    <2> QED
      BY <1>1, <1>2, <1>3, <1>5, <2>0, <2>1, <2>2, NotCalled
  <1>6. CASE Then(<<SendEnd, Done>>)
    <2>1. PICK a \in Calls, b \in Calls : a = SendEnd /\ a.op = "send-end" /\ b = Done
      BY CallsMade DEF SendEnd
    <2>2. 1 \in DOMAIN todo' /\ todo'[1] = a
      BY <1>2, <1>6, <2>1, ReplacedByTwo
    <2> QED
      BY <1>1, <1>3, <2>1, <2>2 DEF Has
  <1>7. ASSUME ~(at.next > Len(Steps)),
               Then(<<Feed(Steps[at.next]), ExecStep(Call.count + 1)>>), Call.count \in Nat
        PROVE  ~Has({"done"})'
    <2>1. at.next \in 1 .. Len(Steps) /\ Steps \in Seq(Step)
      BY <1>3, <1>7, MacroAssumption DEF Sound, Types, TypeOK, Steps
    <2>2. PICK s \in Step, n \in Nat : s = Steps[at.next] /\ n = Call.count + 1
      BY <1>7, <2>1
    <2>3. PICK a \in Calls, b \in Calls :
            a = Feed(s) /\ a.op = "feed" /\ b = ExecStep(n) /\ b.op = "exec-step"
      BY CallsMade DEF Feed, ExecStep
    <2>4. /\ <<a, b>> \in Seq(Calls)
          /\ \A i \in 1 .. Len(<<a, b>>) : <<a, b>>[i].op # "done"
      <3>1. <<a, b>> \in Seq(Calls) /\ Len(<<a, b>>) = 2 /\ <<a, b>>[1] = a /\ <<a, b>>[2] = b
        BY CallSeqs
      <3>2. \A i \in 1 .. 2 : i = 1 \/ i = 2
        OBVIOUS
      <3> QED
        BY <2>3, <3>1, <3>2
    <2>5. Then(<<a, b>>)
      BY <1>7, <2>2, <2>3
    <2> QED
      BY <1>2, <1>3, <2>4, <2>5, NotCalled
  <1>8. Calling("exec-step") => Call.count \in Nat
    BY Called DEF Sound
  <1> QED
    BY <1>1, <1>3, <1>4, <1>5, <1>6, <1>7, <1>8 DEF MacroExec, MacroStep

\* A quiet step in front of the end of a macro leaves in front of it what was there,
\* but for the call it answers.
LEMMA DoneShifts ==
  ASSUME Sound, Quietly, NEW j \in DOMAIN todo', todo'[j].op = "done"
  PROVE  \E k \in DOMAIN todo :
           /\ todo[k].op = "done"
           /\ \A i \in DOMAIN todo : i < k /\ i # 1 => \E l \in DOMAIN todo' :
                l < j /\ todo'[l] = todo[i]
  <1>1. todo \in Seq(Calls) /\ todo # <<>>
    BY QuietThen
  <1>2. PICK c : c \in Seq(Calls) /\ Then(c) /\ \A i \in 1 .. Len(c) : c[i].op # "done"
    BY QuietThen DEF Quiet, Launching, Controls
  <1>3. Spliced(todo', c, todo) /\ DOMAIN todo' = 1 .. Len(todo') /\ DOMAIN todo = 1 .. Len(todo)
    BY <1>1, <1>2, ThenType
  <1>4. Len(c) \in Nat /\ Len(todo) \in Nat
    BY <1>1, <1>2
  <1>5. j \in 1 .. Len(todo') /\ j \in Nat /\ j > Len(c)
    <2>1. j \in 1 .. Len(todo') /\ j \in Nat
      BY <1>3
    <2>2. j \notin 1 .. Len(c)
      BY <1>2, <1>3 DEF Spliced
    <2> QED
      BY <1>4, <2>1, <2>2
  <1>6. PICK k \in 2 .. Len(todo) : k = j - Len(c) + 1 /\ todo'[j] = todo[k]
    BY <1>3, <1>5 DEF Spliced
  <1>7. ASSUME NEW i \in DOMAIN todo, i < k, i # 1
        PROVE  \E l \in DOMAIN todo' : l < j /\ todo'[l] = todo[i]
    <2>1. i \in 2 .. Len(todo) /\ i \in Nat
      BY <1>3, <1>4, <1>7
    <2>2. i + Len(c) - 1 \in 1 .. Len(todo') /\ todo'[i + Len(c) - 1] = todo[i]
      BY <1>3, <2>1 DEF Spliced
    <2>3. i + Len(c) - 1 < j
      <3>1. PICK p, q, r, t : p = i /\ q = j /\ r = k /\ t = Len(c)
        OBVIOUS
      <3>2. p \in Nat /\ q \in Nat /\ t \in Nat /\ r = q - t + 1 /\ p < r
        BY <1>4, <1>5, <1>6, <1>7, <2>1, <3>1
      <3>3. p + t - 1 < q
        BY ONLY <3>2
      <3> QED
        BY <3>1, <3>3
    <2> QED
      BY <1>3, <2>2, <2>3
  <1> QED
    BY <1>3, <1>6, <1>7

LEMMA LateQuiet ==
  ASSUME Sound, FlagInv, LateInv, Quietly
  PROVE  LateInv'
  <1> SUFFICES ASSUME NEW j \in DOMAIN todo', todo'[j].op = "done", ~Has({"send-end"})'
               PROVE  Stirring' \/ \E i \in DOMAIN todo' : i < j /\ todo'[i].op \in {"add", "wait"}
    BY DEF LateInv
  <1>1. /\ todo \in Seq(Calls) /\ todo # <<>> /\ 1 \in DOMAIN todo
        /\ ~Has({"send-end"})
    BY QuietThen, QuietSends, HeadCall
  <1>2. PICK k \in DOMAIN todo :
          /\ todo[k].op = "done"
          /\ \A i \in DOMAIN todo : i < k /\ i # 1 => \E l \in DOMAIN todo' :
               l < j /\ todo'[l] = todo[i]
    BY DoneShifts
  <1>3. ~end /\ queue \in Seq(Item) /\ QueueSize \in Nat \ {0}
    BY <1>2, MacroAssumption DEF FlagInv, Sound, ControlInv, Has, Controls, Types, TypeOK
  <1>4. CASE \E i \in DOMAIN todo : i # 1 /\ i < k /\ todo[i].op \in {"add", "wait"}
    BY <1>2, <1>4
  <1>5. CASE Put
    <2>1. (queue' = queue /\ Len(queue) = QueueSize) \/ queue' = Append(queue, Call.item)
      BY <1>5 DEF Put
    <2>2. queue' # <<>>
      <3>1. PICK x : x = Call.item
        OBVIOUS
      <3>2. Append(queue, x) # <<>>
        BY <1>3
      <3> QED
        BY <1>3, <2>1, <3>1, <3>2
    <2> QED
      BY <2>2 DEF Stirring
  <1>6. CASE StartWait
    BY <1>6 DEF StartWait, Stirring
  <1>7. CASE ProcessNext /\ queue # <<>>
    <2>1. Head(queue) \in Item
      BY <1>3, <1>7
    <2>2. Head(queue).wait \in {0, 1}
      BY <2>1 DEF Item
    <2>3. PICK a \in Calls, b \in Calls, d \in Calls :
            /\ a = Invoke(Head(queue)) /\ b = Wait(Head(queue).wait) /\ d = Flags
            /\ a.op = "invoke" /\ b.op = "wait" /\ d.op = "flags"
      BY <2>1, <2>2, CallsMade DEF Invoke, Wait, Flags
    <2>4. Then(<<a, b, d>>)
      BY <1>7, <2>3 DEF ProcessNext
    <2>5. /\ DOMAIN todo' = 1 .. Len(todo') /\ Len(todo') \in Nat
          /\ todo'[1] = a /\ todo'[2] = b /\ todo'[3] = d /\ 2 \in DOMAIN todo'
      BY <1>1, <2>4, ReplacedByThree
    <2>6. 2 < j
      BY <2>3, <2>5
    <2> QED
      BY <2>3, <2>5, <2>6
  <1>8. CASE \/ CheckReady \/ (ProcessNext /\ queue = <<>>) \/ InvokeBinding \/ CounterStarted
             \/ SetFlags \/ WorkDone \/ InterruptDone
    <2>1. todo[1].op \notin {"add", "wait"}
      BY <1>8, Called DEF CheckReady, ProcessNext, InvokeBinding, CounterStarted, SetFlags,
                          WorkDone, InterruptDone, Sound
    <2>2. CASE \E i \in DOMAIN todo : i < k /\ todo[i].op \in {"add", "wait"}
      BY <1>4, <2>1, <2>2
    <2>3. CASE Stirring
      <3>1. /\ queue' = queue /\ counting' = counting
            /\ "queued" \in work' <=> "queued" \in work
        BY <1>3, <1>8 DEF CheckReady, ProcessNext, InvokeBinding, CounterStarted, SetFlags,
                          WorkDone, InterruptDone, device
      <3> QED
        BY <2>3, <3>1 DEF Stirring
    <2> QED
      BY <1>1, <1>2, <2>2, <2>3 DEF LateInv
  <1> QED
    BY <1>5, <1>6, <1>7, <1>8 DEF Quietly

LEMMA LateStep ==
  ASSUME EndsWithKey
  PROVE  Sound /\ AheadInv /\ FlagInv /\ LateInv /\ [Next]_vars => LateInv'
  <1> SUFFICES ASSUME Sound, AheadInv, FlagInv, LateInv, [Next]_vars PROVE LateInv'
    OBVIOUS
  <1>0. ~Has({"done"})' \/ Has({"send-end"})' => LateInv'
    BY DEF LateInv, Has
  <1>1. CASE Quietly
    BY <1>1, LateQuiet
  <1>2. CASE MacroExec \/ MacroStep
    BY <1>0, <1>2, StepFacts
  <1>3. CASE FeedStep
    <2>1. PICK c \in Seq(Calls) : Then(c) /\ \A i \in 1 .. Len(c) : c[i].op = "add"
      BY <1>3, FeedFacts
    <2>2. /\ todo \in Seq(Calls) /\ todo # <<>> /\ 2 \in DOMAIN todo /\ todo[2].op = "exec-step"
          /\ todo[1].op = "feed"
      BY <1>3, FeedFacts
    <2>3. \A i \in DOMAIN todo : todo[i].op # "done"
      BY <2>2 DEF Sound, ControlInv, Controls
    <2>4. \A i \in 1 .. Len(c) : c[i].op # "done"
      BY <2>1
    <2> QED
      BY <1>0, <2>1, <2>2, <2>3, <2>4, NotCalled
  <1>4. CASE SendStringEnd
    <2>1. PICK c \in Seq(Calls) :
            /\ Then(c) /\ \A i \in 1 .. Len(c) : c[i].op = "add"
            /\ ahead # <<>> /\ Head(ahead).code \in {"tap", "down", "up"} => Len(c) > 0
      BY <1>4, SendEndFacts
    <2>2. /\ todo \in Seq(Calls) /\ todo # <<>> /\ todo[1].op = "send-end" /\ 1 \in DOMAIN todo
          /\ at # None /\ setup \in Setups /\ at.macro \in DOMAIN setup.launcher
      BY <1>4, SendEndFacts DEF Sound, Types, TypeOK
    <2>3. Len(c) > 0
      <3>1. Has({"send-end"}) /\ ~Late /\ ~Has({"feed"})
        BY <2>2 DEF Has, Late, Sound, ControlInv
      <3>2. Steps \in Seq(Step) \ {<<>>}
        BY <2>2, MacroAssumption DEF Steps
      <3>3. at.next = Len(Steps) + 1
        BY <2>2, <3>1 DEF AheadInv
      <3>4. at.next > 1 /\ Latest = Steps[Len(Steps)] /\ Latest \in Step
        BY <3>2, <3>3 DEF Latest
      <3>5. Latest.code # "bad" /\ Latest.code # "delay"
        BY <2>2, <3>1, <3>4 DEF AheadInv, EndsWithKey, Steps
      <3>6. Latest.code \in {"tap", "down", "up"}
        BY <3>4, <3>5 DEF Step, Code
      <3>7. ahead = <<Latest>>
        BY <2>2, <3>1, <3>4, <3>5 DEF AheadInv
      <3> QED
        BY <2>1, <3>6, <3>7
    <2>4. /\ Spliced(todo', c, todo) /\ DOMAIN todo' = 1 .. Len(todo') /\ Len(todo') \in Nat
          /\ Len(c) \in Nat
      BY <2>1, <2>2, ThenType
    <2>5. 1 \in DOMAIN todo' /\ todo'[1].op = "add"
      <3>1. 1 \in 1 .. Len(c)
        BY <2>3, <2>4
      <3> QED
        BY <2>1, <2>4, <3>1 DEF Spliced
    <2>6. \A j \in DOMAIN todo' : todo'[j].op = "done" => 1 < j
      <3>1. \A j \in DOMAIN todo' : j = 1 \/ 1 < j
        BY <2>4
      <3> QED
        BY <2>5, <3>1
    <2> QED
      BY <2>5, <2>6 DEF LateInv
  <1>5. CASE MacroDone
    <2>1. /\ todo \in Seq(Calls) /\ todo # <<>> /\ todo[1].op = "done" /\ 1 \in DOMAIN todo
          /\ Then(<<>>)
      BY <1>5, Called DEF MacroDone, Sound
    <2>2. \A i \in DOMAIN todo : i # 1 => todo[i].op # "done"
      BY <2>1 DEF Sound, ControlInv, Controls
    <2>3. PICK c \in Seq(Calls) : c = <<>>
      BY CallSeqs
    <2>4. Then(c) /\ \A i \in 1 .. Len(c) : c[i].op # "done"
      BY <2>1, <2>3
    <2> QED
      BY <1>0, <2>1, <2>2, <2>4, NotCalled
  <1>6. CASE Work \/ \E m \in DOMAIN setup.dts : MacroKey(m)
    <2>1. ~Has({"done"})'
      BY <1>6, QuietStart DEF Has, Launching, Controls
    <2> QED
      BY <1>0, <2>1
  <1>7. CASE CounterInterrupt
    <2>1. todo' = todo /\ queue' = queue
          /\ ((work' = {"queued"}) \/ UNCHANGED <<work, counting>>)
      BY <1>7 DEF CounterInterrupt
    <2> QED
      BY <2>1 DEF LateInv, Has, Stirring
  <1>8. CASE TimerInterrupt
    <2>1. timer /\ Interposed(Exec, EndInterrupt)
      BY <1>8, Interposes, CallsMade DEF TimerInterrupt, Sound, Types
    <2>2. \A i \in DOMAIN todo : todo[i].op # "done"
      BY <2>1 DEF Sound, ControlInv, Has, Controls
    <2>3. ~Has({"done"})'
      BY <2>1, <2>2 DEF Has, Interposed, Exec, EndInterrupt
    <2> QED
      BY <1>0, <2>3
  <1>9. CASE \E m \in DOMAIN setup.launcher : SendMacro(m)
    <2>1. todo' = <<Exec>>
      BY <1>9 DEF SendMacro
    <2>2. ~Has({"done"})'
      BY <2>1 DEF Has, Exec
    <2> QED
      BY <1>0, <2>2
  <1>10. CASE UNCHANGED vars
    BY <1>10 DEF vars, LateInv, Has, Stirring
  <1> QED
    BY <1>1, <1>2, <1>3, <1>4, <1>5, <1>6, <1>7, <1>8, <1>9, <1>10 DEF Next, Run, Quietly

LEMMA OverStep == Sound /\ FlagInv /\ LateInv /\ OverInv /\ [Next]_vars => OverInv'
  <1> SUFFICES ASSUME Sound, FlagInv, LateInv, OverInv, [Next]_vars PROVE OverInv'
    OBVIOUS
  <1> DEFINE Busy == Has({"process", "wait", "flags"})
  <1>0. FlagInv'
    BY FlagStep
  <1>1. CASE Quietly
    <2>1. /\ todo \in Seq(Calls) /\ todo # <<>> /\ UNCHANGED <<at, failed>>
          /\ \E c \in Seq(Calls) : Then(c)
      BY <1>1, QuietThen DEF Quiet
    <2>2. \A op \in {"process", "wait", "flags"} : todo[1].op # op /\ Has({op}) => Has({op})'
      BY <2>1, StillCalled
    <2>3. todo[1].op \notin {"process", "wait", "flags"} /\ Busy => Busy'
      BY <2>2 DEF Has
    <2>4. CASE \/ Put \/ CheckReady \/ InvokeBinding \/ CounterStarted \/ WorkDone \/ InterruptDone
      <3>1. /\ todo[1].op \notin {"process", "wait", "flags"}
            /\ UNCHANGED <<end, encrypted, counting>>
            /\ "queued" \in work' <=> "queued" \in work
        BY <2>4, Called DEF Put, CheckReady, InvokeBinding, CounterStarted, WorkDone,
                            InterruptDone, launch, device, Sound
      <3>2. queue # <<>> => queue' # <<>>
        <4>1. CASE Put
          <5>1. queue' = queue \/ queue' = Append(queue, Call.item)
            BY <4>1 DEF Put
          <5>2. PICK x \in Item : x = Call.item
            BY <4>1, Called DEF Put, Sound
          <5>3. queue \in Seq(Item)
            BY DEF Sound, Types, TypeOK
          <5>4. Append(queue, x) # <<>>
            <6>1. Len(Append(queue, x)) = Len(queue) + 1 /\ Len(queue) \in Nat
              BY <5>3
            <6> QED
              BY <6>1, CallSeqs
          <5> QED
            BY <5>1, <5>2, <5>4
        <4>2. CASE ~Put
          BY <2>4, <4>2 DEF CheckReady, InvokeBinding, CounterStarted, WorkDone, InterruptDone
        <4> QED
          BY <4>1, <4>2
      <3> HIDE DEF Busy
      <3>3. OverInv => (~encrypted /\ ~failed /\ at = None => end /\ (Stirring \/ Busy))
        BY DEF OverInv, Busy
      <3>4. (~encrypted' /\ ~failed' /\ at' = None => end' /\ (Stirring' \/ Busy')) => OverInv'
        BY DEF OverInv, Busy
      <3> QED
        BY <2>1, <2>3, <3>1, <3>2, <3>3, <3>4 DEF Stirring
    <2>5. CASE ProcessNext
      <3>1. UNCHANGED <<end, encrypted>>
        BY <2>5 DEF ProcessNext, launch
      <3>2. Has({"flags"})'
        <4>1. CASE queue = <<>>
          <5>1. Flags \in Calls /\ Flags.op = "flags" /\ Then(<<Flags>>)
            BY <2>5, <4>1, CallsMade DEF ProcessNext, Flags
          <5>2. 1 \in DOMAIN todo' /\ todo'[1] = Flags
            BY <2>1, <5>1, ReplacedByOne
          <5> QED
            BY <5>1, <5>2 DEF Has
        <4>2. CASE queue # <<>>
          <5>1. Head(queue) \in Item
            BY <4>2 DEF Sound, Types, TypeOK
          <5>2. Head(queue).wait \in {0, 1}
            BY <5>1 DEF Item
          <5>3. PICK a \in Calls, b \in Calls, d \in Calls :
                  /\ a = Invoke(Head(queue)) /\ b = Wait(Head(queue).wait) /\ d = Flags
                  /\ d.op = "flags"
            BY <5>1, <5>2, CallsMade DEF Flags
          <5>4. Then(<<a, b, d>>)
            BY <2>5, <4>2, <5>3 DEF ProcessNext
          <5>5. 3 \in DOMAIN todo' /\ todo'[3] = d
            BY <2>1, <5>4, ReplacedByThree
          <5> QED
            BY <5>3, <5>5 DEF Has
        <4> QED
          BY <4>1, <4>2
      <3>3. Busy'
        BY <3>2 DEF Has
      <3> QED
        BY <2>1, <3>1, <3>3 DEF OverInv
    <2>6. CASE StartWait
      <3>1. Stirring' /\ UNCHANGED <<end, encrypted>>
        BY <2>6 DEF StartWait, Stirring, launch
      <3> QED
        BY <2>1, <3>1 DEF OverInv
    <2>7. CASE SetFlags
      <3>1. CASE queue # <<>>
        <4>1. queue' # <<>> /\ UNCHANGED <<end, encrypted>>
          BY <2>7, <3>1 DEF SetFlags
        <4> QED
          BY <2>1, <4>1 DEF OverInv, Stirring
      <3>2. CASE queue = <<>>
        BY <2>1, <2>7, <3>2 DEF SetFlags, OverInv
      <3> QED
        BY <3>1, <3>2
    <2> QED
      BY <1>1, <2>4, <2>5, <2>6, <2>7 DEF Quietly
  <1>2. CASE MacroExec \/ MacroStep
    <2>1. at # None /\ ~encrypted /\ encrypted' = encrypted
      BY <1>2, StepFacts DEF FlagInv
    <2>2. at' = None => failed' = TRUE
      <3>1. CASE at' = at
        BY <2>1, <3>1
      <3>2. CASE at' = [at EXCEPT !.next = at.next + 1]
        BY <2>1, <3>2, MovesOn
      <3>3. \/ failed' = TRUE \/ at' = at \/ at' = [at EXCEPT !.next = at.next + 1]
        BY <1>2 DEF MacroExec, MacroStep
      <3> QED
        BY <3>1, <3>2, <3>3
    <2> QED
      BY <2>2 DEF OverInv
  <1>3. CASE FeedStep
    <2>1. PICK c \in Seq(Calls) : at' = [at EXCEPT !.step = at.step + Len(c)]
      BY <1>3, FeedFacts
    <2>2. at # None /\ Len(c) \in Nat
      BY <1>3, FeedFacts
    <2>3. at' # None
      BY <2>1, <2>2, MovesOn
    <2> QED
      BY <2>3 DEF OverInv
  <1>4. CASE SendStringEnd
    BY <1>4, SendEndFacts DEF OverInv
  <1>5. CASE MacroDone
    <2>1. /\ todo[1].op = "done" /\ 1 \in DOMAIN todo /\ DOMAIN todo = 1 .. Len(todo)
          /\ Len(todo) \in Nat
      BY <1>5, Called DEF MacroDone, Sound
    <2>2. ~Has({"send-end"})
      BY <2>1 DEF Sound, ControlInv, Has
    <2>3. Stirring
      <3>1. \A i \in DOMAIN todo : ~(i < 1)
        BY <2>1
      <3> QED
        BY <2>1, <2>2, <3>1 DEF LateInv
    <2>4. end' = TRUE /\ UNCHANGED <<queue, counting, work>>
      BY <1>5 DEF MacroDone, device
    <2> QED
      BY <2>3, <2>4 DEF OverInv, Stirring
  <1>6. CASE Work
    <2>1. todo' = <<Process, EndWork>> /\ Process.op = "process" /\ UNCHANGED <<at, end, encrypted, failed>>
      BY <1>6 DEF Work, Process, launch, history
    <2>2. 1 \in DOMAIN todo' /\ todo'[1].op = "process"
      BY <2>1
    <2>3. Busy'
      BY <2>2 DEF Has
    <2> QED
      BY <2>1, <2>3 DEF OverInv
  <1>7. CASE CounterInterrupt
    <2>1. /\ todo' = todo /\ queue' = queue
          /\ ((work' = {"queued"}) \/ UNCHANGED <<work, counting>>)
          /\ UNCHANGED <<at, end, encrypted, failed>>
      BY <1>7 DEF CounterInterrupt, launch, history
    <2> QED
      BY <2>1 DEF OverInv, Has, Stirring
  <1>8. CASE TimerInterrupt
    <2>1. at # None /\ at' = at
      BY <1>8 DEF TimerInterrupt, Sound, ControlInv
    <2> QED
      BY <2>1 DEF OverInv
  <1>9. CASE \E m \in DOMAIN setup.dts : MacroKey(m)
    <2>1. todo = <<>> /\ UNCHANGED <<at, end, encrypted, failed, queue, counting, work>>
      BY <1>9 DEF MacroKey, Idle, launch, device
    <2>2. ~Busy
      BY <2>1 DEF Has
    <2> QED
      BY <2>1, <2>2 DEF OverInv, Stirring
  <1>10. CASE \E m \in DOMAIN setup.launcher : SendMacro(m)
    <2>1. end' = FALSE /\ encrypted' = FALSE /\ start' = TRUE /\ failed' = failed
      BY <1>10 DEF SendMacro
    <2> QED
      BY <1>0, <2>1 DEF OverInv, FlagInv
  <1>11. CASE UNCHANGED vars
    BY <1>11 DEF vars, OverInv, Has, Stirring
  <1> QED
    BY <1>1, <1>2, <1>3, <1>4, <1>5, <1>6, <1>7, <1>8, <1>9, <1>10, <1>11 DEF Next, Run, Quietly

\* When a launcher macro is over and everything is at rest, reports are encrypted again
\* (use_aes_enc, ppt_macro_end) and releases count again (macro_running): if no launcher
\* macro ends in a wait, for all others, sent at any time among the keymap's.
THEOREM RestoredAtRest ==
  ASSUME EndsWithKey
  PROVE  Spec => []Restored
  <1> DEFINE Inv == AheadInv /\ FlagInv /\ LateInv /\ OverInv
  <1>1. Init => Inv
    <2>1. Init => AheadInv
      BY DEF Init, AheadInv
    <2>2. Init => FlagInv
      BY DEF Init, FlagInv
    <2>3. Init => LateInv
      BY DEF Init, LateInv
    <2>4. Init => OverInv
      BY DEF Init, OverInv
    <2> QED
      BY <2>1, <2>2, <2>3, <2>4
  <1>2. Sound /\ Inv /\ [Next]_vars => Inv'
    BY AheadStep, FlagStep, LateStep, OverStep
  <1>3. Inv => Restored
    <2>1. FlagInv /\ OverInv => Restored
      BY DEF FlagInv, OverInv, Restored, Rest, Idle, Has, Stirring
    <2> QED
      BY <2>1
  <1> HIDE DEF Inv
  <1> QED
    BY <1>1, <1>2, <1>3, OneMacro, PTL DEF Spec

-----------------------------------------------------------------------------
(* The steps of a macro run in order *)

\* Macros of the keymap and of the launcher are not mixed: the other way an interrupt can
\* run the queue inside a step of the thread (README, section 5).
Unmixed == \A s \in Setups : DOMAIN s.dts = {} \/ DOMAIN s.launcher = {}

Running == {"process", "invoke"}

\* The queue is run by one caller at a time; when that is the work item, it is `running`,
\* which keeps an interrupt from running the queue too.
ThreadInv ==
  /\ \A i \in DOMAIN todo : todo[i].op = "end-work" => i = Len(todo) /\ "running" \in work
  /\ \A i \in DOMAIN todo : todo[i].op \in Running =>
       i = 1 \/ todo[Len(todo)].op = "end-work"
  /\ \A i, j \in DOMAIN todo : todo[i].op \in Running /\ todo[j].op \in Running => i = j

\* A launcher macro goes on in the call that sent it, or in an interrupt, of which there
\* is one and which comes only between the calls of the work item.
Marks == Controls \cup {"end-interrupt"}
LaunchInv ==
  DOMAIN setup.dts = {} =>
    /\ todo # <<>> /\ ~Has(Marks) => todo[Len(todo)].op = "end-work"
    /\ \A i \in DOMAIN todo : todo[i].op \in Controls =>
         i = Len(todo) \/ (i + 1 \in DOMAIN todo /\ todo[i + 1].op = "end-interrupt")
    /\ \A i, j \in DOMAIN todo : todo[i].op = "end-interrupt" /\ i < j =>
         todo[j].op \notin Marks /\ todo[Len(todo)].op = "end-work"
    /\ \A i \in DOMAIN todo : todo[i].op = "add" =>
         \E j \in DOMAIN todo : i < j /\ todo[j].op \in {"exec-step", "done"}

\* How the positions of the calls behind the head change.
LEMMA Positions ==
  ASSUME todo \in Seq(Calls), todo # <<>>, NEW c \in Seq(Calls), Then(c)
  PROVE  /\ Len(c) \in Nat /\ Len(todo) \in Nat \ {0} /\ Len(todo') = Len(c) + Len(todo) - 1
         /\ DOMAIN todo = 1 .. Len(todo) /\ DOMAIN todo' = 1 .. Len(todo') /\ Len(todo') \in Nat
         /\ \A i \in 1 .. Len(c) : i \in DOMAIN todo' /\ todo'[i] = c[i]
         /\ \A i \in DOMAIN todo' : i \in 1 .. Len(c) \/
              \E k \in DOMAIN todo : k > 1 /\ i = k + Len(c) - 1 /\ todo'[i] = todo[k]
         /\ \A k \in DOMAIN todo : k > 1 =>
              k + Len(c) - 1 \in DOMAIN todo' /\ todo'[k + Len(c) - 1] = todo[k]
  <1>1. Spliced(todo', c, todo) /\ DOMAIN todo' = 1 .. Len(todo') /\ Len(todo') \in Nat
    BY ThenType
  <1>2. /\ Len(c) \in Nat /\ Len(todo) \in Nat \ {0} /\ DOMAIN todo = 1 .. Len(todo)
    OBVIOUS
  <1>3. /\ Len(todo') = Len(c) + Len(todo) - 1
        /\ \A i \in 1 .. Len(c) : i \in DOMAIN todo' /\ todo'[i] = c[i]
    BY <1>1 DEF Spliced
  <1>4. ASSUME NEW i \in DOMAIN todo', i \notin 1 .. Len(c)
        PROVE  \E k \in DOMAIN todo : k > 1 /\ i = k + Len(c) - 1 /\ todo'[i] = todo[k]
    <2>1. i \in 1 .. Len(todo') /\ i > Len(c) /\ i \in Nat
      BY <1>1, <1>2, <1>4
    <2>2. i - Len(c) + 1 \in 2 .. Len(todo) /\ todo'[i] = todo[i - Len(c) + 1]
      BY <1>1, <2>1 DEF Spliced
    <2>3. PICK k \in 2 .. Len(todo) : k = i - Len(c) + 1
      BY <2>2
    <2>4. k \in DOMAIN todo /\ k > 1 /\ i = k + Len(c) - 1
      <3>1. PICK l, m, t : l = Len(c) /\ m = i /\ t = Len(todo)
        OBVIOUS
      <3>2. l \in Nat /\ m \in Nat /\ t \in Nat /\ k \in 2 .. t /\ k = m - l + 1
        BY <1>2, <2>1, <2>3, <3>1
      <3>3. k \in 1 .. t /\ k > 1 /\ m = k + l - 1
        BY ONLY <3>2
      <3> QED
        BY <1>2, <3>1, <3>3
    <2> QED
      BY <2>2, <2>3, <2>4
  <1>5. ASSUME NEW k \in DOMAIN todo, k > 1
        PROVE  k + Len(c) - 1 \in DOMAIN todo' /\ todo'[k + Len(c) - 1] = todo[k]
    <2>1. k \in 2 .. Len(todo)
      BY <1>2, <1>5
    <2> QED
      BY <1>1, <2>1 DEF Spliced
  <1> QED
    BY <1>1, <1>2, <1>3, <1>4, <1>5

\* Calls that may take the place of the head: a launcher macro goes on behind the calls that
\* it makes, an interrupt and the work item only end, the queue is run by who runs it
\* already or when the work item is neither queued nor running, items come from a macro.
Fits(c) ==
  /\ c \in Seq(Calls)
  /\ \A i \in 1 .. Len(c) :
       /\ c[i].op \notin {"end-interrupt", "end-work"}
       /\ c[i].op \in Controls => i = Len(c) /\ todo[1].op \in Controls
       /\ c[i].op = "add" => /\ \/ DOMAIN setup.dts # {}
                                \/ Len(todo) > 1 /\ todo[2].op \in {"exec-step", "done"}
                             /\ todo[1].op \in {"invoke", "feed", "send-end"}
       /\ c[i].op = "invoke" => todo[1].op = "process" /\ queue # <<>>
       /\ c[i].op \in Running => i = 1 /\ (todo[1].op \in Running \/ work = {})
  /\ todo[1].op \in {"end-interrupt", "end-work"} => Len(c) = 0
  /\ todo[1].op \in Controls /\ Len(c) > 0 => c[Len(c)].op \in Controls

LEMMA LaunchThen ==
  ASSUME todo \in Seq(Calls), todo # <<>>, LaunchInv, NEW c, Fits(c), Then(c),
         setup' = setup
  PROVE  LaunchInv'
  <1> SUFFICES ASSUME DOMAIN setup.dts = {} PROVE LaunchInv'
    BY DEF LaunchInv
  <1> DEFINE n == Len(c)
             top == Len(todo)
  <1>1. /\ n \in Nat /\ top \in Nat \ {0} /\ Len(todo') = n + top - 1
        /\ DOMAIN todo = 1 .. top /\ DOMAIN todo' = 1 .. Len(todo') /\ Len(todo') \in Nat
        /\ \A i \in 1 .. n : i \in DOMAIN todo' /\ todo'[i] = c[i]
        /\ \A i \in DOMAIN todo' : i \in 1 .. n \/
             \E k \in DOMAIN todo : k > 1 /\ i = k + n - 1 /\ todo'[i] = todo[k]
        /\ \A k \in DOMAIN todo : k > 1 =>
             k + n - 1 \in DOMAIN todo' /\ todo'[k + n - 1] = todo[k]
    BY Positions DEF Fits
  <1>2. top > 1 => todo'[Len(todo')] = todo[top] /\ Len(todo') \in DOMAIN todo'
    BY <1>1
  <1>3. /\ \A i \in DOMAIN todo : todo[i].op \in Controls =>
             i = top \/ (i + 1 \in DOMAIN todo /\ todo[i + 1].op = "end-interrupt")
        /\ \A i, j \in DOMAIN todo : todo[i].op = "end-interrupt" /\ i < j =>
             todo[j].op \notin Marks /\ todo[top].op = "end-work"
        /\ \A i \in DOMAIN todo : todo[i].op = "add" =>
             \E j \in DOMAIN todo : i < j /\ todo[j].op \in {"exec-step", "done"}
        /\ (\A i \in DOMAIN todo : todo[i].op \notin Marks) => todo[top].op = "end-work"
    BY DEF LaunchInv, Has
  <1>4. /\ \A i \in 1 .. n :
             /\ c[i].op # "end-interrupt"
             /\ c[i].op \in Controls => i = n /\ todo[1].op \in Controls
             /\ c[i].op = "add" => top > 1 /\ todo[2].op \in {"exec-step", "done"}
        /\ todo[1].op \in {"end-interrupt", "end-work"} => n = 0
        /\ todo[1].op \in Controls /\ n > 0 => c[n].op \in Controls
    BY DEF Fits
  <1>5. 1 \in DOMAIN todo
    BY <1>1
  <1> HIDE DEF n, top
  <1>6. ASSUME NEW i \in DOMAIN todo', todo'[i].op \in Controls
        PROVE  i = Len(todo') \/ (i + 1 \in DOMAIN todo' /\ todo'[i + 1].op = "end-interrupt")
    <2>1. CASE i \in 1 .. n
      <3>1. i = n /\ todo[1].op \in Controls
        BY <1>1, <1>4, <1>6, <2>1
      <3>2. CASE top = 1
        BY <1>1, <3>1, <3>2
      <3>3. CASE top # 1
        <4>1. 2 \in DOMAIN todo /\ todo[2].op = "end-interrupt" /\ 2 > 1 /\ 2 + n - 1 = i + 1
          BY <1>1, <1>3, <1>5, <3>1, <3>3
        <4>2. 2 + n - 1 \in DOMAIN todo' /\ todo'[2 + n - 1] = todo[2]
          BY <1>1, <4>1
        <4> QED
          BY <4>1, <4>2
      <3> QED
        BY <3>2, <3>3
    <2>2. CASE i \notin 1 .. n
      <3>1. PICK k \in DOMAIN todo : k > 1 /\ i = k + n - 1 /\ todo'[i] = todo[k]
        BY <1>1, <2>2
      <3>2. CASE k = top
        BY <1>1, <3>1, <3>2
      <3>3. CASE k # top
        <4>1. k + 1 \in DOMAIN todo /\ todo[k + 1].op = "end-interrupt"
          BY <1>3, <1>6, <3>1, <3>3
        <4>2. k + 1 > 1 /\ (k + 1) + n - 1 = i + 1
          BY <1>1, <3>1
        <4> QED
          BY <1>1, <4>1, <4>2
      <3> QED
        BY <3>2, <3>3
    <2> QED
      BY <2>1, <2>2
  <1>7. ASSUME NEW i \in DOMAIN todo', NEW j \in DOMAIN todo', todo'[i].op = "end-interrupt",
               i < j
        PROVE  todo'[j].op \notin Marks /\ todo'[Len(todo')].op = "end-work"
    <2>1. i \notin 1 .. n
      BY <1>1, <1>4, <1>7
    <2>2. PICK k \in DOMAIN todo : k > 1 /\ i = k + n - 1 /\ todo'[i] = todo[k]
      BY <1>1, <2>1
    <2>3. j \notin 1 .. n
      BY <1>1, <1>7, <2>1
    <2>4. PICK l \in DOMAIN todo : l > 1 /\ j = l + n - 1 /\ todo'[j] = todo[l]
      BY <1>1, <2>3
    <2>5. k < l /\ top > 1
      BY <1>1, <1>7, <2>2, <2>4
    <2> QED
      BY <1>2, <1>3, <1>7, <2>2, <2>4, <2>5
  <1>8. ASSUME NEW i \in DOMAIN todo', todo'[i].op = "add"
        PROVE  \E j \in DOMAIN todo' : i < j /\ todo'[j].op \in {"exec-step", "done"}
    <2>1. CASE i \in 1 .. n
      <3>1. top > 1 /\ todo[2].op \in {"exec-step", "done"}
        BY <1>1, <1>4, <1>8, <2>1
      <3>2. 2 \in DOMAIN todo /\ 2 > 1 /\ i < 2 + n - 1
        BY <1>1, <2>1, <3>1
      <3>3. 2 + n - 1 \in DOMAIN todo' /\ todo'[2 + n - 1] = todo[2]
        BY <1>1, <3>2
      <3> QED
        BY <3>1, <3>2, <3>3
    <2>2. CASE i \notin 1 .. n
      <3>1. PICK k \in DOMAIN todo : k > 1 /\ i = k + n - 1 /\ todo'[i] = todo[k]
        BY <1>1, <2>2
      <3>2. PICK l \in DOMAIN todo : k < l /\ todo[l].op \in {"exec-step", "done"}
        BY <1>3, <1>8, <3>1
      <3>3. l > 1 /\ i < l + n - 1
        BY <1>1, <3>1, <3>2
      <3> QED
        BY <1>1, <3>2, <3>3
    <2> QED
      BY <2>1, <2>2
  <1>9. ASSUME todo' # <<>>, \A i \in DOMAIN todo' : todo'[i].op \notin Marks
        PROVE  todo'[Len(todo')].op = "end-work"
    <2>1. \A k \in DOMAIN todo : k > 1 => todo[k].op \notin Marks
      BY <1>1, <1>9
    <2>2. CASE top = 1
      <3>1. n > 0
        <4>1. Len(todo') = n /\ todo' \in Seq(Calls)
          BY <1>1, <2>2, ThenType DEF Fits
        <4> QED
          BY <1>1, <1>9, <4>1
      <3>2. c[n].op \notin Controls
        <4>1. n \in 1 .. n
          BY <1>1, <3>1
        <4> QED
          BY <1>1, <1>9, <4>1 DEF Marks
      <3>3. todo[1].op \notin Marks /\ todo[1].op # "end-work"
        BY <1>4, <3>1, <3>2 DEF Marks
      <3>4. \A k \in DOMAIN todo : k = 1
        BY <1>1, <2>2
      <3> QED
        BY <1>3, <2>2, <3>3, <3>4
    <2>3. CASE top # 1
      <3>1. top > 1 /\ 2 \in DOMAIN todo /\ 2 > 1
        BY <1>1, <2>3
      <3>2. todo[top].op = "end-work"
        <4>1. CASE todo[1].op = "end-interrupt"
          <5>1. 1 < 2
            OBVIOUS
          <5> QED
            BY <1>3, <1>5, <3>1, <4>1, <5>1
        <4>2. CASE todo[1].op \in Controls
          <5>1. todo[2].op = "end-interrupt"
            BY <1>3, <1>5, <2>3, <4>2
          <5> QED
            BY <2>1, <3>1, <5>1 DEF Marks
        <4>3. CASE todo[1].op \notin Marks
          <5>1. \A k \in DOMAIN todo : k = 1 \/ k > 1
            BY <1>1
          <5> QED
            BY <1>3, <2>1, <4>3, <5>1
        <4> QED
          BY <4>1, <4>2, <4>3 DEF Marks
      <3> QED
        BY <1>2, <3>1, <3>2
    <2> QED
      BY <2>2, <2>3
  <1> QED
    BY <1>6, <1>7, <1>8, <1>9 DEF LaunchInv, Has

LEMMA FitsOne ==
  ASSUME NEW a \in Calls, a.op \notin {"end-interrupt", "end-work", "add", "invoke"},
         a.op \in Controls <=> todo[1].op \in Controls,
         a.op \in Running => work = {},
         todo[1].op \notin {"end-interrupt", "end-work"}
  PROVE  Fits(<<a>>)
  <1>1. <<a>> \in Seq(Calls) /\ Len(<<a>>) = 1 /\ <<a>>[1] = a
    BY CallSeqs
  <1>2. \A i \in 1 .. 1 : i = 1
    OBVIOUS
  <1> HIDE DEF Controls, Running
  <1> QED
    BY <1>1, <1>2 DEF Fits

LEMMA FitsTwo ==
  ASSUME NEW a \in Calls, NEW b \in Calls, a.op \in {"feed", "send-end"}, b.op \in Controls,
         todo[1].op \in Controls
  PROVE  Fits(<<a, b>>)
  <1>1. <<a, b>> \in Seq(Calls) /\ Len(<<a, b>>) = 2 /\ <<a, b>>[1] = a /\ <<a, b>>[2] = b
    BY CallSeqs
  <1>2. \A i \in 1 .. 2 : i = 1 \/ i = 2
    OBVIOUS
  <1> QED
    BY <1>1, <1>2 DEF Fits, Controls, Running

LEMMA FitsThree ==
  ASSUME NEW a \in Calls, NEW b \in Calls, NEW d \in Calls,
         a.op = "invoke", b.op = "wait", d.op = "flags", todo[1].op = "process",
         queue # <<>>
  PROVE  Fits(<<a, b, d>>)
  <1>1. /\ <<a, b, d>> \in Seq(Calls) /\ Len(<<a, b, d>>) = 3
        /\ <<a, b, d>>[1] = a /\ <<a, b, d>>[2] = b /\ <<a, b, d>>[3] = d
    BY CallSeqs
  <1>2. \A i \in 1 .. 3 : i = 1 \/ i = 2 \/ i = 3
    OBVIOUS
  <1> QED
    BY <1>1, <1>2 DEF Fits, Controls, Running

LEMMA FitsAdds ==
  ASSUME NEW c \in Seq(Calls), \A i \in 1 .. Len(c) : c[i].op = "add",
         todo[1].op \in {"invoke", "feed", "send-end"},
         Len(c) > 0 => \/ DOMAIN setup.dts # {}
                       \/ Len(todo) > 1 /\ todo[2].op \in {"exec-step", "done"}
  PROVE  Fits(c)
  <1>1. Len(c) \in Nat
    OBVIOUS
  <1>2. \A i \in 1 .. Len(c) : Len(c) > 0
    BY <1>1
  <1> QED
    BY <1>1, <1>2 DEF Fits, Controls, Running

\* The calls that every step of the thread or of an interrupt makes.
LEMMA RunFits ==
  ASSUME Sound, Run
  PROVE  \E c : Fits(c) /\ Then(c)
  <1>0. /\ Fits(<<>>)
    BY CallSeqs DEF Fits
  <1>1. CASE Put
    <2>1. todo[1].op = "add"
      BY <1>1, Called DEF Put, Sound
    <2>2. Fits(<<Check>>)
      BY <2>1, CallsMade, FitsOne DEF Check, Controls, Running
    <2> QED
      BY <1>0, <1>1, <2>2 DEF Put
  <1>2. CASE CheckReady
    <2>1. todo[1].op = "check"
      BY <1>2, Called DEF CheckReady, Sound
    <2>2. Ready => Fits(<<Process>>)
      BY <2>1, CallsMade, FitsOne DEF Process, Controls, Running, Ready
    <2> QED
      BY <1>0, <1>2, <2>2 DEF CheckReady
  <1>3. CASE ProcessNext
    <2>1. todo[1].op = "process"
      BY <1>3, Called DEF ProcessNext, Sound
    <2>2. CASE queue = <<>>
      <3>1. Fits(<<Flags>>)
        BY <2>1, CallsMade, FitsOne DEF Flags, Controls, Running
      <3> QED
        BY <1>3, <2>2, <3>1 DEF ProcessNext
    <2>3. CASE queue # <<>>
      <3>1. Head(queue) \in Item
        BY <2>3 DEF Sound, Types, TypeOK
      <3>2. Head(queue).wait \in {0, 1}
        BY <3>1 DEF Item
      <3>3. PICK a \in Calls, b \in Calls, d \in Calls :
              /\ a = Invoke(Head(queue)) /\ b = Wait(Head(queue).wait) /\ d = Flags
              /\ a.op = "invoke" /\ b.op = "wait" /\ d.op = "flags"
        BY <3>1, <3>2, CallsMade DEF Invoke, Wait, Flags
      <3>4. Fits(<<a, b, d>>)
        BY <2>1, <2>3, <3>3, FitsThree
      <3> QED
        BY <1>3, <2>3, <3>3, <3>4 DEF ProcessNext
    <2> QED
      BY <2>2, <2>3
  <1>4. CASE InvokeBinding
    <2>1. todo[1].op = "invoke" /\ Call.item \in Item /\ setup \in Setups /\ ran \in Seq(Nat)
      BY <1>4, Called DEF InvokeBinding, Sound, Types, TypeOK
    <2>2. CASE Call.item.bind \in DOMAIN setup.dts
      <3>1. Call.item.press \in BOOLEAN
        BY <2>1 DEF Item
      <3>2. PICK c : c = Adds(Half(Call.item.bind, Call.item.press))
        OBVIOUS
      <3>3. c \in Seq(Calls) /\ \A i \in 1 .. Len(c) : c[i].op = "add"
        BY <2>1, <2>2, <3>1, <3>2, AddsType
      <3>4. Then(c) /\ DOMAIN setup.dts # {}
        BY <1>4, <2>2, <3>2 DEF InvokeBinding
      <3>6. Fits(c)
        BY <2>1, <3>3, <3>4, FitsAdds
      <3> QED
        BY <3>4, <3>6
    <2>3. CASE Call.item.bind \notin DOMAIN setup.dts
      BY <1>0, <1>4, <2>3 DEF InvokeBinding
    <2> QED
      BY <2>2, <2>3
  <1>5. CASE StartWait
    <2>1. todo[1].op = "wait"
      BY <1>5, Called DEF StartWait, Sound
    <2>2. Fits(<<Started>>)
      BY <2>1, CallsMade, FitsOne DEF Started, Controls, Running
    <2> QED
      BY <1>0, <1>5, <2>2 DEF StartWait
  <1>6. CASE CounterStarted \/ SetFlags \/ WorkDone \/ InterruptDone \/ MacroDone
    BY <1>0, <1>6 DEF CounterStarted, SetFlags, WorkDone, InterruptDone, MacroDone
  <1>7. CASE MacroExec
    <2>1. todo[1].op = "exec"
      BY <1>7, Called DEF MacroExec, Sound
    <2>2. PICK n \in Nat : n = 0
      OBVIOUS
    <2>3. Fits(<<ExecStep(n)>>)
      BY <2>1, CallsMade, FitsOne DEF ExecStep, Controls, Running
    <2> QED
      BY <1>0, <1>7, <2>2, <2>3 DEF MacroExec
  <1>8. CASE MacroStep
    <2>1. /\ todo \in Seq(Calls) /\ todo # <<>> /\ Call.count \in Nat /\ 1 \in DOMAIN todo
          /\ todo[1].op = "exec-step"
      BY <1>8, Called DEF Sound, MacroStep
    <2>2. CASE Then(<<>>)
      BY <1>0, <2>2
    <2>3. CASE Then(<<SendEnd, Done>>)
      <3>1. PICK a \in Calls, b \in Calls :
              a = SendEnd /\ a.op = "send-end" /\ b = Done /\ b.op = "done"
        BY CallsMade DEF SendEnd, Done
      <3>2. Fits(<<a, b>>)
        BY <2>1, <3>1, FitsTwo DEF Controls
      <3> QED
        BY <2>3, <3>1, <3>2
    <2>4. CASE /\ ~(at.next > Len(Steps))
               /\ Then(<<Feed(Steps[at.next]), ExecStep(Call.count + 1)>>)
      <3>1. at # None
        BY <2>1 DEF Sound, ControlInv, Has, Controls
      <3>2. /\ at.macro \in DOMAIN setup.launcher
            /\ at.next \in 1 .. Len(Steps) + 1
        BY <3>1 DEF Sound, Types, TypeOK
      <3>3. Steps \in Seq(Step)
        BY <3>2, MacroAssumption DEF Steps, Sound, Types, TypeOK
      <3>4. Steps[at.next] \in Step
        BY <2>4, <3>2, <3>3
      <3>5. PICK s \in Step, n \in Nat : s = Steps[at.next] /\ n = Call.count + 1
        BY <2>1, <3>4
      <3>6. PICK a \in Calls, b \in Calls :
              a = Feed(s) /\ a.op = "feed" /\ b = ExecStep(n) /\ b.op = "exec-step"
        BY CallsMade DEF Feed, ExecStep
      <3>7. Fits(<<a, b>>)
        BY <2>1, <3>6, FitsTwo DEF Controls
      <3> QED
        BY <2>4, <3>5, <3>6, <3>7
    <2> QED
      BY <1>8, <2>2, <2>3, <2>4 DEF MacroStep
  <1>9. CASE FeedStep
    <2>1. /\ todo[1].op = "feed" /\ Len(todo) > 1 /\ todo[2].op = "exec-step"
      <3>1. 2 \in DOMAIN todo /\ DOMAIN todo = 1 .. Len(todo) /\ Len(todo) \in Nat
            /\ todo[1].op = "feed" /\ todo[2].op = "exec-step"
        BY <1>9, FeedFacts
      <3> QED
        BY <3>1
    <2>2. PICK c \in Seq(Calls) : Then(c) /\ \A i \in 1 .. Len(c) : c[i].op = "add"
      BY <1>9, FeedFacts
    <2>3. Fits(c)
      BY <2>1, <2>2, FitsAdds
    <2> QED
      BY <2>2, <2>3
  <1>10. CASE SendStringEnd
    <2>1. /\ todo[1].op = "send-end" /\ Len(todo) > 1 /\ todo[2].op = "done"
      <3>1. 2 \in DOMAIN todo /\ DOMAIN todo = 1 .. Len(todo) /\ Len(todo) \in Nat
            /\ todo[1].op = "send-end" /\ todo[2].op = "done"
        BY <1>10, SendEndFacts
      <3> QED
        BY <3>1
    <2>2. PICK c \in Seq(Calls) : Then(c) /\ \A i \in 1 .. Len(c) : c[i].op = "add"
      BY <1>10, SendEndFacts
    <2>3. Fits(c)
      BY <2>1, <2>2, FitsAdds
    <2> QED
      BY <2>2, <2>3
  <1> QED
    BY <1>1, <1>2, <1>3, <1>4, <1>5, <1>6, <1>7, <1>8, <1>9, <1>10 DEF Run

LEMMA RunSetup == Run => setup' = setup
  BY DEF Run, Put, CheckReady, ProcessNext, InvokeBinding, StartWait, CounterStarted, SetFlags,
         WorkDone, MacroExec, MacroStep, FeedStep, SendStringEnd, MacroDone, InterruptDone, env

\* The macro's timer expires while no macro is going on and in no interrupt.
LEMMA MarksFree ==
  ASSUME Sound, timer, ~Interrupted
  PROVE  \A i \in DOMAIN todo : todo[i].op \notin Marks
  <1>1. \A i \in DOMAIN todo : todo[i].op \notin Controls
    BY DEF Sound, ControlInv, Has
  <1>2. ASSUME NEW i \in DOMAIN todo, todo[i].op = "end-interrupt" PROVE FALSE
    <2>1. todo[i] \in Calls
      BY DEF Sound, Types
    <2>2. todo[i] = EndInterrupt
      BY <1>2, <2>1 DEF Calls, EndInterrupt
    <2> QED
      BY <2>2 DEF Interrupted
  <1> QED
    BY <1>1, <1>2 DEF Marks

LEMMA LaunchStep == Sound /\ LaunchInv /\ [Next]_vars => LaunchInv'
  <1> SUFFICES ASSUME Sound, LaunchInv, [Next]_vars PROVE LaunchInv'
    OBVIOUS
  <1>1. CASE Run
    <2>1. todo \in Seq(Calls) /\ todo # <<>>
      BY <1>1, RunThen
    <2> QED
      BY <1>1, <2>1, RunFits, RunSetup, LaunchThen
  <1>2. CASE Work
    <2>1. todo' = <<Process, EndWork>> /\ Process.op = "process" /\ EndWork.op = "end-work"
      BY <1>2 DEF Work, Process, EndWork
    <2>2. Len(todo') = 2 /\ todo'[1].op = "process" /\ todo'[2].op = "end-work"
      BY <2>1
    <2>3. \A i \in DOMAIN todo' : i = 1 \/ i = 2
      BY <2>1
    <2> QED
      BY <2>2, <2>3 DEF LaunchInv, Has, Marks, Controls
  <1>3. CASE CounterInterrupt
    <2>1. todo' = todo /\ setup' = setup
      BY <1>3 DEF CounterInterrupt, env
    <2> QED
      BY <2>1 DEF LaunchInv, Has
  <1>4. CASE TimerInterrupt
    <2>1. Interposed(Exec, EndInterrupt) /\ setup' = setup /\ timer /\ ~Interrupted
      BY <1>4, Interposes, CallsMade DEF TimerInterrupt, Sound, Types, env
    <2>2. \A i \in DOMAIN todo : todo[i].op \notin Marks
      BY <2>1, MarksFree
    <2>3. todo \in Seq(Calls)
      BY DEF Sound, Types
    <2> SUFFICES ASSUME DOMAIN setup.dts = {} PROVE LaunchInv'
      BY <2>1 DEF LaunchInv
    <2>4. todo # <<>> => todo[Len(todo)].op = "end-work"
      BY <2>2 DEF LaunchInv, Has
    <2>5. \A i \in DOMAIN todo : todo[i].op # "add"
      BY <2>2 DEF LaunchInv, Marks, Controls
    <2>6. /\ todo'[1].op = "exec" /\ todo'[2].op = "end-interrupt" /\ 1 \in DOMAIN todo'
          /\ 2 \in DOMAIN todo' /\ DOMAIN todo' = 1 .. Len(todo') /\ Len(todo') = Len(todo) + 2
          /\ Len(todo) \in Nat /\ DOMAIN todo = 1 .. Len(todo)
      BY <2>1, <2>3 DEF Interposed, Exec, EndInterrupt
    <2>7. \A i \in DOMAIN todo' :
            i = 1 \/ i = 2 \/ (todo'[i].op \notin Marks \cup {"add"} /\ i > 2)
      <3>1. \A i \in DOMAIN todo' : i # 1 /\ i # 2 => i - 2 \in DOMAIN todo /\ todo'[i] = todo[i - 2]
        BY <2>1 DEF Interposed
      <3> QED
        BY <2>2, <2>5, <2>6, <3>1
    <2>8. (\E i \in DOMAIN todo' : i > 2) => todo'[Len(todo')].op = "end-work"
      <3> SUFFICES ASSUME NEW i \in DOMAIN todo', i > 2 PROVE todo'[Len(todo')].op = "end-work"
        OBVIOUS
      <3>1. Len(todo) \in DOMAIN todo /\ Len(todo) > 0
        BY <2>6
      <3>2. todo'[Len(todo) + 2] = todo[Len(todo)]
        BY <2>1, <3>1 DEF Interposed
      <3>3. todo # <<>>
        BY <3>1
      <3> QED
        BY <2>4, <2>6, <3>2, <3>3
    <2> QED
      BY <2>6, <2>7, <2>8 DEF LaunchInv, Has, Marks, Controls
  <1>5. CASE \E m \in DOMAIN setup.dts : MacroKey(m)
    BY <1>5 DEF MacroKey, LaunchInv
  <1>6. CASE \E m \in DOMAIN setup.launcher : SendMacro(m)
    <2>1. todo' = <<Exec>> /\ Exec.op = "exec"
      BY <1>6 DEF SendMacro, Exec
    <2>2. Len(todo') = 1 /\ todo'[1].op = "exec" /\ DOMAIN todo' = {1}
      BY <2>1
    <2> QED
      BY <2>2 DEF LaunchInv, Has, Marks, Controls
  <1>7. CASE UNCHANGED vars
    BY <1>7 DEF vars, LaunchInv, Has
  <1> QED
    BY <1>1, <1>2, <1>3, <1>4, <1>5, <1>6, <1>7 DEF Next

LEMMA ThreadThen ==
  ASSUME todo \in Seq(Calls), todo # <<>>, ThreadInv, NEW c, Fits(c), Then(c),
         "running" \in work /\ todo[1].op # "end-work" => "running" \in work'
  PROVE  ThreadInv'
  <1> DEFINE n == Len(c)
             top == Len(todo)
  <1>1. /\ n \in Nat /\ top \in Nat \ {0} /\ Len(todo') = n + top - 1
        /\ DOMAIN todo = 1 .. top /\ DOMAIN todo' = 1 .. Len(todo') /\ Len(todo') \in Nat
        /\ \A i \in 1 .. n : i \in DOMAIN todo' /\ todo'[i] = c[i]
        /\ \A i \in DOMAIN todo' : i \in 1 .. n \/
             \E k \in DOMAIN todo : k > 1 /\ i = k + n - 1 /\ todo'[i] = todo[k]
        /\ \A k \in DOMAIN todo : k > 1 =>
             k + n - 1 \in DOMAIN todo' /\ todo'[k + n - 1] = todo[k]
    BY Positions DEF Fits
  <1>2. top > 1 => todo'[Len(todo')] = todo[top] /\ Len(todo') \in DOMAIN todo'
    BY <1>1
  <1>3. /\ \A i \in DOMAIN todo : todo[i].op = "end-work" => i = top /\ "running" \in work
        /\ \A i \in DOMAIN todo : todo[i].op \in Running => i = 1 \/ todo[top].op = "end-work"
        /\ \A i, j \in DOMAIN todo : todo[i].op \in Running /\ todo[j].op \in Running => i = j
    BY DEF ThreadInv
  <1>4. \A i \in 1 .. n :
          /\ c[i].op # "end-work"
          /\ c[i].op \in Running => i = 1 /\ (todo[1].op \in Running \/ work = {})
    BY DEF Fits
  <1>5. 1 \in DOMAIN todo /\ top \in DOMAIN todo
    BY <1>1
  <1> HIDE DEF n, top
  <1>6. ASSUME NEW i \in DOMAIN todo', todo'[i].op = "end-work"
        PROVE  i = Len(todo') /\ "running" \in work'
    <2>1. i \notin 1 .. n
      BY <1>1, <1>4, <1>6
    <2>2. PICK k \in DOMAIN todo : k > 1 /\ i = k + n - 1 /\ todo'[i] = todo[k]
      BY <1>1, <2>1
    <2>3. k = top /\ "running" \in work /\ todo[1].op # "end-work"
      BY <1>3, <1>5, <1>6, <2>2
    <2> QED
      BY <1>1, <2>2, <2>3
  <1>7. ASSUME NEW i \in DOMAIN todo', todo'[i].op \in Running
        PROVE  i = 1 \/ todo'[Len(todo')].op = "end-work"
    <2>1. CASE i \in 1 .. n
      BY <1>1, <1>4, <1>7, <2>1
    <2>2. CASE i \notin 1 .. n
      <3>1. PICK k \in DOMAIN todo : k > 1 /\ i = k + n - 1 /\ todo'[i] = todo[k]
        BY <1>1, <2>2
      <3>2. todo[top].op = "end-work" /\ top > 1
        BY <1>1, <1>3, <1>7, <3>1
      <3> QED
        BY <1>2, <3>2
    <2> QED
      BY <2>1, <2>2
  <1>8. ASSUME NEW i \in DOMAIN todo', NEW j \in DOMAIN todo', todo'[i].op \in Running,
               todo'[j].op \in Running, i \in 1 .. n, j \notin 1 .. n
        PROVE  FALSE
    <2>1. todo[1].op \in Running \/ work = {}
      BY <1>1, <1>4, <1>8
    <2>2. PICK k \in DOMAIN todo : k > 1 /\ todo'[j] = todo[k]
      BY <1>1, <1>8
    <2>3. k # 1
      BY <1>1, <2>2
    <2>4. "running" \in work
      BY <1>3, <1>5, <1>8, <2>2, <2>3
    <2>5. todo[1].op \notin Running
      BY <1>3, <1>5, <1>8, <2>2, <2>3
    <2> QED
      BY <2>1, <2>4, <2>5
  <1>9. ASSUME NEW i \in DOMAIN todo', NEW j \in DOMAIN todo', todo'[i].op \in Running,
               todo'[j].op \in Running
        PROVE  i = j
    <2>1. CASE i \in 1 .. n /\ j \in 1 .. n
      BY <1>1, <1>4, <1>9, <2>1
    <2>2. CASE i \notin 1 .. n /\ j \notin 1 .. n
      <3>1. PICK k \in DOMAIN todo : k > 1 /\ i = k + n - 1 /\ todo'[i] = todo[k]
        BY <1>1, <2>2
      <3>2. PICK l \in DOMAIN todo : l > 1 /\ j = l + n - 1 /\ todo'[j] = todo[l]
        BY <1>1, <2>2
      <3>3. k = l
        BY <1>3, <1>9, <3>1, <3>2
      <3> QED
        BY <3>1, <3>2, <3>3
    <2> QED
      BY <1>8, <1>9, <2>1, <2>2
  <1> QED
    BY <1>6, <1>7, <1>9 DEF ThreadInv

\* A launcher macro is sent on a keyboard without macros in its keymap.
LEMMA OneKind ==
  ASSUME Unmixed, Sound, at # None
  PROVE  DOMAIN setup.dts = {}
  BY DEF Unmixed, Sound, Types, TypeOK

LEMMA ThreadStep ==
  ASSUME Unmixed
  PROVE  Sound /\ LaunchInv /\ ThreadInv /\ [Next]_vars => ThreadInv'
  <1> SUFFICES ASSUME Sound, LaunchInv, ThreadInv, [Next]_vars PROVE ThreadInv'
    OBVIOUS
  <1>1. CASE Run
    <2>1. todo \in Seq(Calls) /\ todo # <<>>
      BY <1>1, RunThen
    <2>2. PICK c : Fits(c) /\ Then(c)
      BY <1>1, RunFits
    <2>3. "running" \in work /\ todo[1].op # "end-work" => "running" \in work'
      <3>1. CASE WorkDone
        <4>1. todo[1].op = "end-work"
          BY <3>1, Called DEF WorkDone, Sound
        <4> QED
          BY <4>1
      <3>2. CASE StartWait
        BY <3>2 DEF StartWait
      <3>3. CASE ~WorkDone /\ ~StartWait
        BY <1>1, <3>3 DEF Run, Put, CheckReady, ProcessNext, InvokeBinding, CounterStarted,
             SetFlags, MacroExec, MacroStep, FeedStep, SendStringEnd, MacroDone, InterruptDone,
             device
      <3> QED
        BY <3>1, <3>2, <3>3
    <2> QED
      BY <2>1, <2>2, <2>3, ThreadThen
  <1>2. CASE Work
    <2>1. /\ todo' = <<Process, EndWork>> /\ Process.op = "process" /\ EndWork.op = "end-work"
          /\ "running" \in work'
      BY <1>2 DEF Work, Process, EndWork
    <2>2. Len(todo') = 2 /\ todo'[1].op = "process" /\ todo'[2].op = "end-work"
      BY <2>1
    <2>3. \A i \in DOMAIN todo' : i = 1 \/ i = 2
      BY <2>1
    <2> QED
      BY <2>1, <2>2, <2>3 DEF ThreadInv, Running
  <1>3. CASE CounterInterrupt
    <2>1. todo' = todo /\ (work = {} \/ work' = work)
      BY <1>3 DEF CounterInterrupt
    <2> QED
      BY <2>1 DEF ThreadInv
  <1>4. CASE TimerInterrupt
    <2>1. /\ Interposed(Exec, EndInterrupt) /\ UNCHANGED <<setup, work>> /\ timer /\ ~Interrupted
      BY <1>4, Interposes, CallsMade DEF TimerInterrupt, Sound, Types, env, device
    <2>2. DOMAIN setup.dts = {}
      BY <2>1, OneKind DEF Sound, ControlInv
    <2>3. \A i \in DOMAIN todo : todo[i].op \notin Marks
      BY <2>1, MarksFree
    <2>4. todo # <<>> => todo[Len(todo)].op = "end-work"
      BY <2>2, <2>3 DEF LaunchInv, Has
    <2>5. todo \in Seq(Calls)
      BY DEF Sound, Types
    <2>6. /\ todo'[1].op = "exec" /\ todo'[2].op = "end-interrupt"
          /\ DOMAIN todo' = 1 .. Len(todo') /\ Len(todo') = Len(todo) + 2
          /\ Len(todo) \in Nat /\ DOMAIN todo = 1 .. Len(todo)
          /\ \A i \in DOMAIN todo' : i # 1 /\ i # 2 =>
               i \in Nat /\ i - 2 \in DOMAIN todo /\ todo'[i] = todo[i - 2]
      BY <2>1, <2>5 DEF Interposed, Exec, EndInterrupt
    <2>7. \A i \in DOMAIN todo' : todo'[i].op = "end-work" =>
            i = Len(todo') /\ "running" \in work'
      BY <2>1, <2>6 DEF ThreadInv
    <2>8. \A i \in DOMAIN todo' : todo'[i].op \in Running => todo'[Len(todo')].op = "end-work"
      <3> SUFFICES ASSUME NEW i \in DOMAIN todo', todo'[i].op \in Running
                   PROVE  todo'[Len(todo')].op = "end-work"
        OBVIOUS
      <3>1. i # 1 /\ i # 2
        BY <2>6 DEF Running
      <3>2. Len(todo) \in DOMAIN todo /\ todo # <<>>
        BY <2>6, <3>1
      <3>3. todo'[Len(todo) + 2] = todo[Len(todo)]
        BY <2>1, <3>2 DEF Interposed
      <3> QED
        BY <2>4, <2>6, <3>2, <3>3
    <2>9. ASSUME NEW i \in DOMAIN todo', NEW j \in DOMAIN todo', todo'[i].op \in Running,
                 todo'[j].op \in Running
          PROVE  i = j
      <3>1. i # 1 /\ i # 2 /\ j # 1 /\ j # 2
        BY <2>6, <2>9 DEF Running
      <3>2. i - 2 \in DOMAIN todo /\ j - 2 \in DOMAIN todo /\ i \in Nat /\ j \in Nat
            /\ todo[i - 2].op \in Running /\ todo[j - 2].op \in Running
        BY <2>6, <2>9, <3>1
      <3>3. i - 2 = j - 2
        BY <3>2 DEF ThreadInv
      <3> QED
        BY <3>2, <3>3
    <2> QED
      BY <2>7, <2>8, <2>9 DEF ThreadInv
  <1>5. ASSUME NEW m \in DOMAIN setup.dts, MacroKey(m) PROVE ThreadInv'
    <2>1. PICK press \in BOOLEAN : todo' = Adds(Half(m, press))
      BY <1>5 DEF MacroKey
    <2>2. setup \in Setups /\ ran \in Seq(Nat)
      BY DEF Sound, Types, TypeOK
    <2>3. /\ DOMAIN Adds(Half(m, press)) = 1 .. Len(Adds(Half(m, press)))
          /\ \A i \in 1 .. Len(Adds(Half(m, press))) : Adds(Half(m, press))[i].op = "add"
      BY <2>2, AddsType
    <2>4. \A i \in DOMAIN todo' : todo'[i].op = "add"
      BY ONLY <2>1, <2>3
    <2> QED
      BY <2>4 DEF ThreadInv, Running
  <1>6. CASE \E m \in DOMAIN setup.launcher : SendMacro(m)
    <2>1. todo' = <<Exec>> /\ Exec.op = "exec"
      BY <1>6 DEF SendMacro, Exec
    <2>2. todo'[1].op = "exec" /\ DOMAIN todo' = {1}
      BY <2>1
    <2> QED
      BY <2>2 DEF ThreadInv, Running
  <1>7. CASE UNCHANGED vars
    BY <1>7 DEF vars, ThreadInv
  <1> QED
    BY <1>1, <1>2, <1>3, <1>4, <1>5, <1>6, <1>7 DEF Next

\* Items run and queue up in the order of their macro's steps.
Before(x, y) == x.run = y.run => x.step < y.step
OrderInv ==
  /\ \A i, j \in DOMAIN todo :
       todo[i].op = "invoke" /\ todo[j].op = "add" => Before(todo[i].item, todo[j].item)
  /\ \A i \in DOMAIN todo, k \in DOMAIN queue :
       /\ todo[i].op = "invoke" => Before(todo[i].item, queue[k])
       /\ todo[i].op = "add" => Before(queue[k], todo[i].item)
  /\ \A k, l \in DOMAIN queue : k < l => Before(queue[k], queue[l])
  /\ \A i, j \in DOMAIN todo :
       i < j /\ todo[i].op = "add" /\ todo[j].op = "add" => Before(todo[i].item, todo[j].item)

Items == {"add", "invoke"}

\* New items come in front of those that are still to be added, and behind all others.
LEMMA OrderThen ==
  ASSUME todo \in Seq(Calls), todo # <<>>, OrderInv, NEW c \in Seq(Calls), Then(c),
         queue' = queue,
         \A i \in 1 .. Len(c) :
           /\ c[i].op # "invoke"
           /\ c[i].op = "add" =>
                /\ \A k \in DOMAIN queue : Before(queue[k], c[i].item)
                /\ \A j \in DOMAIN todo : j > 1 =>
                     /\ todo[j].op = "invoke" => Before(todo[j].item, c[i].item)
                     /\ todo[j].op = "add" => Before(c[i].item, todo[j].item)
                /\ \A j \in 1 .. Len(c) : i < j /\ c[j].op = "add" =>
                     Before(c[i].item, c[j].item)
  PROVE  OrderInv'
  <1> DEFINE n == Len(c)
  <1>1. /\ n \in Nat
        /\ \A i \in 1 .. n : i \in DOMAIN todo' /\ todo'[i] = c[i]
        /\ \A i \in DOMAIN todo' : i \in Nat /\ (i \in 1 .. n \/
             \E k \in DOMAIN todo : k > 1 /\ i = k + n - 1 /\ todo'[i] = todo[k])
        /\ DOMAIN todo \subseteq Nat
    BY Positions
  <1> HIDE DEF n
  <1>2. ASSUME NEW i \in DOMAIN todo', todo'[i].op = "invoke"
        PROVE  \E k \in DOMAIN todo : k > 1 /\ todo'[i] = todo[k]
    <2>1. i \notin 1 .. n
      BY <1>1, <1>2 DEF n
    <2> QED
      BY <1>1, <2>1
  <1>3. ASSUME NEW i \in DOMAIN todo', NEW j \in DOMAIN todo',
               todo'[i].op = "invoke", todo'[j].op = "add"
        PROVE  Before(todo'[i].item, todo'[j].item)
    <2>1. PICK k \in DOMAIN todo : k > 1 /\ todo'[i] = todo[k]
      BY <1>2, <1>3
    <2>2. CASE j \in 1 .. n
      BY <1>1, <1>3, <2>1, <2>2 DEF n
    <2>3. CASE j \notin 1 .. n
      <3>1. PICK l \in DOMAIN todo : todo'[j] = todo[l]
        BY <1>1, <2>3
      <3> QED
        BY <1>3, <2>1, <3>1 DEF OrderInv
    <2> QED
      BY <2>2, <2>3
  <1>4. ASSUME NEW i \in DOMAIN todo', NEW k \in DOMAIN queue, todo'[i].op = "invoke"
        PROVE  Before(todo'[i].item, queue[k])
    BY <1>2, <1>4 DEF OrderInv
  <1>5. ASSUME NEW i \in DOMAIN todo', NEW k \in DOMAIN queue, todo'[i].op = "add"
        PROVE  Before(queue[k], todo'[i].item)
    <2>1. CASE i \in 1 .. n
      BY <1>1, <1>5, <2>1 DEF n
    <2>2. CASE i \notin 1 .. n
      <3>1. PICK l \in DOMAIN todo : todo'[i] = todo[l]
        BY <1>1, <2>2
      <3> QED
        BY <1>5, <3>1 DEF OrderInv
    <2> QED
      BY <2>1, <2>2
  <1>6. ASSUME NEW i \in DOMAIN todo', NEW j \in DOMAIN todo', i < j,
               todo'[i].op = "add", todo'[j].op = "add"
        PROVE  Before(todo'[i].item, todo'[j].item)
    <2>1. CASE i \in 1 .. n /\ j \in 1 .. n
      BY <1>1, <1>6, <2>1 DEF n
    <2>2. CASE i \in 1 .. n /\ j \notin 1 .. n
      <3>1. PICK l \in DOMAIN todo : l > 1 /\ todo'[j] = todo[l]
        BY <1>1, <2>2
      <3> QED
        BY <1>1, <1>6, <2>2, <3>1 DEF n
    <2>3. CASE i \notin 1 .. n
      <3>1. j \notin 1 .. n
        BY <1>1, <1>6, <2>3
      <3>2. PICK k \in DOMAIN todo : k > 1 /\ i = k + n - 1 /\ todo'[i] = todo[k]
        BY <1>1, <2>3
      <3>3. PICK l \in DOMAIN todo : l > 1 /\ j = l + n - 1 /\ todo'[j] = todo[l]
        BY <1>1, <3>1
      <3>4. k < l
        BY <1>1, <1>6, <3>2, <3>3
      <3> QED
        BY <1>6, <3>2, <3>3, <3>4 DEF OrderInv
    <2> QED
      BY <2>1, <2>2, <2>3
  <1>7. \A k, l \in DOMAIN queue : k < l => Before(queue[k], queue[l])
    BY DEF OrderInv
  <1> QED
    BY <1>3, <1>4, <1>5, <1>6, <1>7 DEF OrderInv

LEMMA PutOrder == Sound /\ OrderInv /\ Put => OrderInv'
  <1> SUFFICES ASSUME Sound, OrderInv, Put PROVE OrderInv'
    OBVIOUS
  <1>1. /\ todo \in Seq(Calls) /\ todo # <<>> /\ todo[1].op = "add" /\ Call = todo[1]
        /\ 1 \in DOMAIN todo /\ Call.item \in Item /\ queue \in Seq(Item)
    BY Called DEF Put, Sound, Types, TypeOK
  <1>2. PICK c \in Seq(Calls) : Then(c) /\ \A i \in 1 .. Len(c) : c[i].op \notin Items
    <2>1. CASE Then(<<>>)
      <3>1. PICK c \in Seq(Calls) : c = <<>>
        BY CallSeqs
      <3>2. \A i \in 1 .. Len(c) : c[i].op \notin Items
        BY <3>1
      <3> QED
        BY <2>1, <3>1, <3>2
    <2>2. CASE Then(<<Check>>)
      <3>1. PICK a \in Calls : a = Check /\ a.op = "check"
        BY CallsMade DEF Check
      <3>2. PICK c \in Seq(Calls) : c = <<a>>
        BY CallSeqs
      <3>3. \A i \in 1 .. Len(c) : c[i].op \notin Items
        BY <3>1, <3>2 DEF Items
      <3> QED
        BY <2>2, <3>1, <3>2, <3>3
    <2> QED
      BY <2>1, <2>2 DEF Put
  <1>3. PICK n \in Nat :
          /\ DOMAIN todo \subseteq Nat
          /\ \A i \in DOMAIN todo' : i \in Nat /\ (todo'[i].op \in Items =>
               \E k \in DOMAIN todo : k > 1 /\ i = k + n - 1 /\ todo'[i] = todo[k])
    <2>1. /\ Len(c) \in Nat /\ DOMAIN todo \subseteq Nat
          /\ \A i \in 1 .. Len(c) : todo'[i] = c[i]
          /\ \A i \in DOMAIN todo' : i \in Nat /\ (i \in 1 .. Len(c) \/
               \E k \in DOMAIN todo : k > 1 /\ i = k + Len(c) - 1 /\ todo'[i] = todo[k])
      BY <1>1, <1>2, Positions
    <2>2. PICK n \in Nat : n = Len(c)
      BY <2>1
    <2> QED
      BY <1>2, <2>1, <2>2
  <1>4. PICK x \in Item : x = todo[1].item
    BY <1>1
  <1>5. \A l \in DOMAIN queue' :
          \/ l \in DOMAIN queue /\ queue'[l] = queue[l]
          \/ queue'[l] = x /\ \A k \in DOMAIN queue : ~(l <= k)
    <2>1. queue' = queue \/ queue' = Append(queue, x)
      BY <1>1, <1>4 DEF Put
    <2>2. CASE queue' = queue
      BY <2>2
    <2>3. CASE queue' = Append(queue, x)
      BY <1>1, <2>3
    <2> QED
      BY <2>1, <2>2, <2>3
  <1>6. \A i, j \in DOMAIN todo' :
          todo'[i].op = "invoke" /\ todo'[j].op = "add" => Before(todo'[i].item, todo'[j].item)
    BY <1>3 DEF OrderInv, Items
  <1>7. ASSUME NEW i \in DOMAIN todo', NEW l \in DOMAIN queue'
        PROVE  /\ todo'[i].op = "invoke" => Before(todo'[i].item, queue'[l])
               /\ todo'[i].op = "add" => Before(queue'[l], todo'[i].item)
    <2> SUFFICES ASSUME todo'[i].op \in Items
                 PROVE  /\ todo'[i].op = "invoke" => Before(todo'[i].item, queue'[l])
                        /\ todo'[i].op = "add" => Before(queue'[l], todo'[i].item)
      BY DEF Items
    <2>1. PICK k \in DOMAIN todo : k > 1 /\ todo'[i] = todo[k]
      BY <1>3
    <2>2. CASE queue'[l] = x
      <3>1. 1 < k
        BY <1>3, <2>1
      <3> QED
        BY <1>1, <1>4, <2>1, <2>2, <3>1 DEF OrderInv
    <2>3. CASE l \in DOMAIN queue /\ queue'[l] = queue[l]
      BY <2>1, <2>3 DEF OrderInv
    <2> QED
      BY <1>5, <2>2, <2>3
  <1>8. ASSUME NEW k \in DOMAIN queue', NEW l \in DOMAIN queue', k < l
        PROVE  Before(queue'[k], queue'[l])
    <2>1. k \in Nat /\ l \in Nat
      <3>1. queue' \in Seq(Item)
        <4>1. Sound'
          BY PutSound
        <4> QED
          BY <4>1 DEF Sound, Types, TypeOK
      <3> QED
        BY <3>1
    <2>2. CASE l \in DOMAIN queue /\ queue'[l] = queue[l]
      <3>1. k \in DOMAIN queue /\ queue'[k] = queue[k]
        <4>1. k <= l
          BY <1>8, <2>1
        <4> QED
          BY <1>5, <2>2, <4>1
      <3> QED
        BY <1>8, <2>2, <3>1 DEF OrderInv
    <2>3. CASE queue'[l] = x /\ l \notin DOMAIN queue
      <3>1. k \in DOMAIN queue /\ queue'[k] = queue[k]
        <4>1. queue' = queue \/ queue' = Append(queue, x)
          BY <1>1, <1>4 DEF Put
        <4>2. l \in DOMAIN Append(queue, x) /\ l \notin DOMAIN queue
          BY <2>3, <4>1
        <4>3. k \in DOMAIN queue
          <5>0. PICK t : t = Len(queue)
            OBVIOUS
          <5>1. /\ t \in Nat /\ DOMAIN queue = 1 .. t
                /\ DOMAIN Append(queue, x) = 1 .. t + 1 /\ k \in 1 .. t + 1
            <6>1. /\ DOMAIN Append(queue, x) = 1 .. Len(queue) + 1 /\ Len(queue) \in Nat
                  /\ DOMAIN queue = 1 .. Len(queue)
              BY <1>1
            <6>2. k \in DOMAIN queue \/ k \in DOMAIN Append(queue, x)
              BY <4>1
            <6>3. k \in 1 .. Len(queue) + 1
              BY <6>1, <6>2
            <6> QED
              BY ONLY <5>0, <6>1, <6>3
          <5>2. k \in 1 .. t
            BY ONLY <1>8, <2>1, <4>2, <5>1
          <5> QED
            BY <5>1, <5>2
        <4>4. ~(\A m \in DOMAIN queue : ~(k <= m))
          BY <2>1, <4>3
        <4> QED
          BY <1>5, <4>3, <4>4
      <3> QED
        BY <1>1, <1>4, <2>3, <3>1 DEF OrderInv
    <2>4. CASE queue'[l] = x /\ l \in DOMAIN queue
      BY <1>5, <2>1, <2>2, <2>4
    <2> QED
      BY <1>5, <2>2, <2>3, <2>4
  <1>9. ASSUME NEW i \in DOMAIN todo', NEW j \in DOMAIN todo', i < j,
               todo'[i].op = "add", todo'[j].op = "add"
        PROVE  Before(todo'[i].item, todo'[j].item)
    <2>1. PICK k \in DOMAIN todo : k > 1 /\ i = k + n - 1 /\ todo'[i] = todo[k]
      BY <1>3, <1>9 DEF Items
    <2>2. PICK l \in DOMAIN todo : l > 1 /\ j = l + n - 1 /\ todo'[j] = todo[l]
      BY <1>3, <1>9 DEF Items
    <2>3. k < l
      BY <1>3, <1>9, <2>1, <2>2
    <2> QED
      BY <1>9, <2>1, <2>2, <2>3 DEF OrderInv
  <1> QED
    BY <1>6, <1>7, <1>8, <1>9 DEF OrderInv

LEMMA ProcessOrder == Sound /\ OrderInv /\ ThreadInv /\ ProcessNext /\ queue # <<>> => OrderInv'
  <1> SUFFICES ASSUME Sound, OrderInv, ThreadInv, ProcessNext, queue # <<>> PROVE OrderInv'
    OBVIOUS
  <1>1. /\ todo \in Seq(Calls) /\ todo # <<>> /\ todo[1].op = "process"
        /\ 1 \in DOMAIN todo /\ queue \in Seq(Item) /\ DOMAIN todo \subseteq Nat
    BY Called DEF ProcessNext, Sound, Types, TypeOK
  <1>2. PICK x \in Item : x = Head(queue) /\ x.wait \in {0, 1}
    <2>1. Head(queue) \in Item
      BY <1>1
    <2>2. Head(queue).wait \in {0, 1}
      BY <2>1 DEF Item
    <2> QED
      BY <2>1, <2>2
  <1>3. PICK a \in Calls, b \in Calls, d \in Calls :
          /\ a = Invoke(x) /\ b = Wait(x.wait) /\ d = Flags
          /\ a.op = "invoke" /\ a.item = x /\ b.op = "wait" /\ d.op = "flags"
    BY <1>2, CallsMade DEF Invoke, Wait, Flags
  <1>4. Then(<<a, b, d>>)
    BY <1>2, <1>3 DEF ProcessNext
  <1>5. /\ 1 \in DOMAIN todo' /\ todo'[1] = a /\ todo'[2] = b /\ todo'[3] = d
        /\ \A i \in DOMAIN todo' : i # 1 /\ i # 2 /\ i # 3 =>
             i \in Nat /\ i - 2 \in DOMAIN todo /\ i - 2 # 1 /\ todo'[i] = todo[i - 2]
    BY <1>1, <1>4, ReplacedByThree
  <1>6. \A k \in DOMAIN todo : k # 1 => todo[k].op # "invoke"
    BY <1>1 DEF ThreadInv, Running
  <1>7. \A i \in DOMAIN todo' : todo'[i].op = "invoke" => i = 1
    BY <1>3, <1>5, <1>6
  <1>8. \A i \in DOMAIN todo' : todo'[i].op = "add" =>
          i \in Nat /\ i - 2 \in DOMAIN todo /\ todo'[i] = todo[i - 2]
    BY <1>3, <1>5
  <1>9. /\ 1 \in DOMAIN queue /\ queue[1] = x /\ DOMAIN queue \subseteq Nat
        /\ \A l \in DOMAIN queue' : l \in Nat /\ l + 1 \in DOMAIN queue /\ l + 1 > 1
                                   /\ queue'[l] = queue[l + 1]
    <2>1. queue' = Tail(queue)
      BY DEF ProcessNext
    <2> QED
      BY <1>1, <1>2, <2>1
  <1>10. ASSUME NEW j \in DOMAIN todo', todo'[j].op = "add" PROVE Before(x, todo'[j].item)
    BY <1>8, <1>9, <1>10 DEF OrderInv
  <1>11. ASSUME NEW l \in DOMAIN queue' PROVE Before(x, queue'[l])
    <2>1. 1 < l + 1
      BY <1>9
    <2> QED
      BY <1>9, <2>1 DEF OrderInv
  <1>12. ASSUME NEW i \in DOMAIN todo', NEW l \in DOMAIN queue', todo'[i].op = "add"
         PROVE  Before(queue'[l], todo'[i].item)
    BY <1>8, <1>9, <1>12 DEF OrderInv
  <1>13. ASSUME NEW k \in DOMAIN queue', NEW l \in DOMAIN queue', k < l
         PROVE  Before(queue'[k], queue'[l])
    <2>1. k + 1 < l + 1
      BY <1>9, <1>13
    <2> QED
      BY <1>9, <2>1 DEF OrderInv
  <1>14. ASSUME NEW i \in DOMAIN todo', NEW j \in DOMAIN todo', i < j,
                todo'[i].op = "add", todo'[j].op = "add"
         PROVE  Before(todo'[i].item, todo'[j].item)
    <2>1. i - 2 < j - 2
      BY <1>8, <1>14
    <2>2. /\ i - 2 \in DOMAIN todo /\ todo'[i] = todo[i - 2]
          /\ j - 2 \in DOMAIN todo /\ todo'[j] = todo[j - 2]
      BY <1>8, <1>14
    <2> QED
      BY <1>14, <2>1, <2>2 DEF OrderInv
  <1> QED
    BY <1>3, <1>5, <1>7, <1>10, <1>11, <1>12, <1>13, <1>14 DEF OrderInv

\* What is still to be run: each item comes right after what was run of its macro, or after
\* another one that is still to be run.
InLine(x) ==
  \/ \E k \in DOMAIN queue : queue[k] = x
  \/ \E i \in DOMAIN todo : todo[i].op \in Items /\ todo[i].item = x
Due(x) ==
  /\ x.run \in DOMAIN ran /\ x.step > ran[x.run]
  /\ \/ lost \/ x.step = ran[x.run] + 1
     \/ \E y \in Item : InLine(y) /\ y.run = x.run /\ y.step = x.step - 1
LineInv == \A x \in Item : InLine(x) => Due(x)

\* So does what a launcher macro will queue next.
AtInv ==
  at # None =>
    /\ at.run \in DOMAIN ran
    /\ ~Late =>
         /\ \A x \in Item : InLine(x) /\ x.run = at.run => x.step <= at.step
         /\ ran[at.run] <= at.step
         /\ \/ lost \/ at.step = ran[at.run]
            \/ \E y \in Item : InLine(y) /\ y.run = at.run /\ y.step = at.step

LEMMA LinedThen ==
  ASSUME todo \in Seq(Calls), todo # <<>>, NEW c \in Seq(Calls), Then(c), queue' = queue
  PROVE  /\ \A x : InLine(x)' => InLine(x) \/
              \E i \in 1 .. Len(c) : c[i].op \in Items /\ c[i].item = x
         /\ \A x : InLine(x) => InLine(x)' \/ (todo[1].op \in Items /\ todo[1].item = x)
         /\ \A i \in 1 .. Len(c) : c[i].op \in Items => InLine(c[i].item)'
  <1> DEFINE n == Len(c)
  <1>1. /\ n \in Nat
        /\ \A i \in 1 .. n : i \in DOMAIN todo' /\ todo'[i] = c[i]
        /\ \A i \in DOMAIN todo' : i \in 1 .. n \/
             \E k \in DOMAIN todo : k > 1 /\ i = k + n - 1 /\ todo'[i] = todo[k]
        /\ \A k \in DOMAIN todo : k \in Nat \ {0} /\ (k > 1 =>
             k + n - 1 \in DOMAIN todo' /\ todo'[k + n - 1] = todo[k])
    BY Positions
  <1> HIDE DEF n
  <1>2. ASSUME NEW x, InLine(x)'
        PROVE  InLine(x) \/ \E i \in 1 .. n : c[i].op \in Items /\ c[i].item = x
    <2>1. CASE \E k \in DOMAIN queue' : queue'[k] = x
      BY <2>1 DEF InLine
    <2>2. CASE \E i \in DOMAIN todo' : todo'[i].op \in Items /\ todo'[i].item = x
      BY <1>1, <2>2 DEF InLine
    <2> QED
      BY <1>2, <2>1, <2>2 DEF InLine
  <1>3. ASSUME NEW x, InLine(x) PROVE InLine(x)' \/ (todo[1].op \in Items /\ todo[1].item = x)
    <2>1. CASE \E k \in DOMAIN queue : queue[k] = x
      BY <2>1 DEF InLine
    <2>2. CASE \E i \in DOMAIN todo : todo[i].op \in Items /\ todo[i].item = x
      <3>1. PICK i \in DOMAIN todo : todo[i].op \in Items /\ todo[i].item = x
        BY <2>2
      <3>2. i = 1 \/ i > 1
        BY <1>1
      <3> QED
        BY <1>1, <3>1, <3>2 DEF InLine
    <2> QED
      BY <1>3, <2>1, <2>2 DEF InLine
  <1>4. \A i \in 1 .. n : c[i].op \in Items => InLine(c[i].item)'
    BY <1>1 DEF InLine
  <1> QED
    BY <1>2, <1>3, <1>4 DEF n

\* An item that stays in line behind the same one.
LEMMA DueKept ==
  ASSUME NEW x \in Item, Due(x), lost => lost',
         \A r \in DOMAIN ran : r \in DOMAIN ran' /\ ran'[r] = ran[r],
         lost' \/ \A y \in Item : InLine(y) => InLine(y)'
  PROVE  Due(x)'
  BY DEF Due

LEMMA AtKept ==
  ASSUME AtInv, lost => lost', at' = at, at # None => ran' = ran /\ (Late => Late'),
         \A y \in Item : InLine(y)' => InLine(y),
         lost' \/ \A y \in Item : InLine(y) => InLine(y)'
  PROVE  AtInv'
  BY DEF AtInv

\* A step that has nothing to do with items.
LEMMA LineKept ==
  ASSUME LineInv, lost' = lost, ran' = ran,
         \A x \in Item : InLine(x)' <=> InLine(x)
  PROVE  LineInv'
  <1> SUFFICES ASSUME NEW x \in Item, InLine(x)' PROVE Due(x)'
    BY DEF LineInv
  <1>1. Due(x)
    BY DEF LineInv
  <1> QED
    BY <1>1, DueKept

LEMMA PutLine == Sound /\ LineInv /\ AtInv /\ Put => LineInv' /\ AtInv'
  <1> SUFFICES ASSUME Sound, LineInv, AtInv, Put PROVE LineInv' /\ AtInv'
    OBVIOUS
  <1>1. /\ todo \in Seq(Calls) /\ todo # <<>> /\ todo[1].op = "add" /\ Call = todo[1]
        /\ 1 \in DOMAIN todo /\ Call.item \in Item /\ queue \in Seq(Item)
        /\ UNCHANGED <<ran, at>> /\ lost \in BOOLEAN
    BY Called DEF Put, Sound, Types, TypeOK, launch
  <1>2. PICK c : Fits(c) /\ Then(c)
    BY RunFits DEF Run
  <1>3. c \in Seq(Calls) /\ \A i \in 1 .. Len(c) : c[i].op \notin Items
    BY <1>1, <1>2 DEF Fits, Items
  <1>4. Late => Late'
    BY QuietHas DEF Quietly, Late, Launching, Controls
  <1>5. /\ \A i \in DOMAIN todo' : todo'[i].op \in Items => \E k \in DOMAIN todo : todo'[i] = todo[k]
        /\ \A k \in DOMAIN todo : k = 1 \/ \E i \in DOMAIN todo' : todo'[i] = todo[k]
    <2>1. /\ \A i \in 1 .. Len(c) : todo'[i] = c[i]
          /\ \A i \in DOMAIN todo' : i \in 1 .. Len(c) \/ \E k \in DOMAIN todo : todo'[i] = todo[k]
          /\ \A k \in DOMAIN todo : k > 1 => \E i \in DOMAIN todo' : todo'[i] = todo[k]
      BY <1>1, <1>2, <1>3, Positions
    <2>2. \A k \in DOMAIN todo : k = 1 \/ k > 1
      BY <1>1
    <2> QED
      BY <1>3, <2>1, <2>2
  <1>6. PICK x \in Item : x = todo[1].item
    BY <1>1
  <1>7. CASE Len(queue) = QueueSize
    <2>1. lost' = TRUE /\ queue' = queue
      BY <1>7 DEF Put
    <2>2. \A y \in Item : InLine(y)' => InLine(y)
      BY <1>5, <2>1 DEF InLine
    <2>3. LineInv'
      <3> SUFFICES ASSUME NEW y \in Item, InLine(y)' PROVE Due(y)'
        BY DEF LineInv
      <3> QED
        BY <1>1, <2>1, <2>2, DueKept DEF LineInv
    <2> QED
      BY <1>1, <1>4, <2>1, <2>2, <2>3, AtKept
  <1>8. CASE Len(queue) # QueueSize
    <2>1. queue' = Append(queue, x) /\ lost' = lost
      BY <1>1, <1>6, <1>8 DEF Put
    <2>2. /\ \A k \in DOMAIN queue : k \in DOMAIN queue' /\ queue'[k] = queue[k]
          /\ \E k \in DOMAIN queue' : queue'[k] = x
          /\ \A k \in DOMAIN queue' : queue'[k] = x \/ \E l \in DOMAIN queue : queue'[k] = queue[l]
      <3>1. PICK q, t : q = Append(queue, x) /\ t = Len(queue)
        OBVIOUS
      <3>2. /\ t \in Nat /\ DOMAIN queue = 1 .. t /\ DOMAIN q = 1 .. t + 1 /\ q[t + 1] = x
            /\ \A k \in 1 .. t : q[k] = queue[k]
        BY <1>1, <3>1
      <3>3. \A k \in 1 .. t + 1 : k = t + 1 \/ k \in 1 .. t
        BY ONLY <3>2
      <3>4. t + 1 \in 1 .. t + 1 /\ \A k \in 1 .. t : k \in 1 .. t + 1
        BY ONLY <3>2
      <3>5. queue' = q
        BY <2>1, <3>1
      <3> QED
        BY ONLY <3>2, <3>3, <3>4, <3>5
    <2>3. \A y \in Item : InLine(y)' => InLine(y)
      <3>1. ASSUME NEW y \in Item, NEW i \in DOMAIN todo', todo'[i].op \in Items,
                   todo'[i].item = y
            PROVE  InLine(y)
        BY <1>5, <3>1 DEF InLine
      <3>2. ASSUME NEW y \in Item, NEW k \in DOMAIN queue', queue'[k] = y PROVE InLine(y)
        <4>1. CASE y = x
          BY <1>1, <1>6, <4>1 DEF InLine, Items
        <4>2. CASE y # x
          BY <2>2, <3>2, <4>2 DEF InLine
        <4> QED
          BY <4>1, <4>2
      <3> QED
        BY <3>1, <3>2 DEF InLine
    <2>4. \A y \in Item : InLine(y) => InLine(y)'
      <3>1. ASSUME NEW y \in Item, NEW i \in DOMAIN todo, todo[i].op \in Items, todo[i].item = y
            PROVE  InLine(y)'
        <4>1. CASE i = 1
          BY <1>6, <2>2, <3>1, <4>1 DEF InLine
        <4>2. CASE i # 1
          BY <1>5, <3>1, <4>2 DEF InLine
        <4> QED
          BY <4>1, <4>2
      <3>2. ASSUME NEW y \in Item, NEW k \in DOMAIN queue, queue[k] = y PROVE InLine(y)'
        BY <2>2, <3>2 DEF InLine
      <3> QED
        BY <3>1, <3>2 DEF InLine
    <2> QED
      BY <1>1, <1>4, <2>1, <2>3, <2>4, LineKept, AtKept
  <1> QED
    BY <1>7, <1>8

LEMMA ProcessLine == Sound /\ LineInv /\ AtInv /\ ProcessNext => LineInv' /\ AtInv'
  <1> SUFFICES ASSUME Sound, LineInv, AtInv, ProcessNext PROVE LineInv' /\ AtInv'
    OBVIOUS
  <1>1. /\ todo \in Seq(Calls) /\ todo # <<>> /\ todo[1].op = "process" /\ queue \in Seq(Item)
        /\ UNCHANGED <<ran, at, lost>>
    BY Called DEF ProcessNext, Sound, Types, TypeOK, launch, history
  <1>2. Late => Late'
    BY QuietHas DEF Quietly, Late, Launching, Controls
  <1>3. \A x \in Item : InLine(x)' <=> InLine(x)
    <2>1. CASE queue = <<>>
      <3>1. PICK c : Fits(c) /\ Then(c)
        BY RunFits DEF Run
      <3>2. c \in Seq(Calls) /\ \A i \in 1 .. Len(c) : c[i].op \notin Items
        BY <1>1, <2>1, <3>1 DEF Fits, Items
      <3>3. queue' = queue
        BY <2>1 DEF ProcessNext
      <3> QED
        BY <1>1, <3>1, <3>2, <3>3, LinedThen DEF Items
    <2>2. CASE queue # <<>>
      <3>1. PICK x \in Item : x = Head(queue) /\ x.wait \in {0, 1}
        <4>1. Head(queue) \in Item
          BY <1>1, <2>2
        <4>2. Head(queue).wait \in {0, 1}
          BY <4>1 DEF Item
        <4> QED
          BY <4>1, <4>2
      <3>2. PICK a \in Calls, b \in Calls, d \in Calls :
              /\ a = Invoke(x) /\ b = Wait(x.wait) /\ d = Flags
              /\ a.op = "invoke" /\ a.item = x /\ b.op = "wait" /\ d.op = "flags"
        BY <3>1, CallsMade DEF Invoke, Wait, Flags
      <3>3. Then(<<a, b, d>>)
        BY <2>2, <3>1, <3>2 DEF ProcessNext
      <3>4. /\ 1 \in DOMAIN todo' /\ todo'[1] = a /\ todo'[2] = b /\ todo'[3] = d
            /\ \A i \in DOMAIN todo' : i # 1 /\ i # 2 /\ i # 3 =>
                 i - 2 \in DOMAIN todo /\ todo'[i] = todo[i - 2]
            /\ \A i \in DOMAIN todo : i # 1 => i + 2 \in DOMAIN todo' /\ todo'[i + 2] = todo[i]
        BY <1>1, <3>3, ReplacedByThree
      <3>5. /\ 1 \in DOMAIN queue /\ queue[1] = x
            /\ \A l \in DOMAIN queue' : l + 1 \in DOMAIN queue /\ queue'[l] = queue[l + 1]
            /\ \A k \in DOMAIN queue : k = 1 \/ \E l \in DOMAIN queue' : queue'[l] = queue[k]
        <4>1. queue' = Tail(queue)
          BY <2>2 DEF ProcessNext
        <4>2. /\ Len(queue) \in Nat \ {0} /\ DOMAIN queue = 1 .. Len(queue) /\ queue[1] = x
              /\ DOMAIN Tail(queue) = 1 .. Len(queue) - 1
              /\ \A l \in 1 .. Len(queue) - 1 : Tail(queue)[l] = queue[l + 1]
          BY <1>1, <2>2, <3>1
        <4>3. PICK q, t : q = Tail(queue) /\ t = Len(queue)
          OBVIOUS
        <4>4. /\ t \in Nat \ {0} /\ DOMAIN queue = 1 .. t /\ DOMAIN q = 1 .. t - 1
              /\ \A l \in 1 .. t - 1 : q[l] = queue[l + 1]
          BY <4>2, <4>3
        <4>5. /\ 1 \in 1 .. t /\ \A l \in 1 .. t - 1 : l + 1 \in 1 .. t
              /\ \A k \in 1 .. t : k = 1 \/ (k - 1 \in 1 .. t - 1 /\ (k - 1) + 1 = k)
          BY ONLY <4>4
        <4>6. \A k \in 1 .. t : k = 1 \/ (k - 1 \in DOMAIN q /\ q[k - 1] = queue[k])
          BY <4>4, <4>5
        <4> QED
          BY <4>1, <4>2, <4>3, <4>4, <4>5, <4>6
      <3>6. ASSUME NEW y \in Item, InLine(y)' PROVE InLine(y)
        <4>1. CASE \E k \in DOMAIN queue' : queue'[k] = y
          BY <3>5, <4>1 DEF InLine
        <4>2. CASE \E i \in DOMAIN todo' : todo'[i].op \in Items /\ todo'[i].item = y
          <5>1. PICK i \in DOMAIN todo' : todo'[i].op \in Items /\ todo'[i].item = y
            BY <4>2
          <5>2. CASE i = 1
            BY <3>2, <3>4, <3>5, <5>1, <5>2 DEF InLine
          <5>3. CASE i # 1
            <6>1. i # 2 /\ i # 3
              BY <3>2, <3>4, <5>1 DEF Items
            <6> QED
              BY <3>4, <5>1, <5>3, <6>1 DEF InLine
          <5> QED
            BY <5>2, <5>3
        <4> QED
          BY <3>6, <4>1, <4>2 DEF InLine
      <3>7. ASSUME NEW y \in Item, InLine(y) PROVE InLine(y)'
        <4>1. ASSUME NEW k \in DOMAIN queue, queue[k] = y PROVE InLine(y)'
          <5>1. CASE k = 1
            BY <3>2, <3>4, <3>5, <4>1, <5>1 DEF InLine, Items
          <5>2. CASE k # 1
            BY <3>5, <4>1, <5>2 DEF InLine
          <5> QED
            BY <5>1, <5>2
        <4>2. ASSUME NEW i \in DOMAIN todo, todo[i].op \in Items, todo[i].item = y
              PROVE  InLine(y)'
          <5>1. i # 1
            BY <1>1, <4>2 DEF Items
          <5> QED
            BY <3>4, <4>2, <5>1 DEF InLine
        <4> QED
          BY <3>7, <4>1, <4>2 DEF InLine
      <3> QED
        BY <3>6, <3>7
    <2> QED
      BY <2>1, <2>2
  <1> QED
    BY <1>1, <1>2, <1>3, LineKept, AtKept

\* Steps without items.
Neutrally ==
  \/ CheckReady \/ StartWait \/ CounterStarted \/ SetFlags \/ WorkDone \/ InterruptDone
  \/ MacroExec \/ MacroStep \/ MacroDone

LEMMA NeutralOrder ==
  ASSUME Sound, OrderInv, LineInv, AtInv, Neutrally
  PROVE  OrderInv' /\ LineInv' /\ AtInv'
  <1>1. /\ todo \in Seq(Calls) /\ todo # <<>>
        /\ UNCHANGED <<ran, lost, queue>>
        /\ todo[1].op \notin {"add", "invoke", "process", "feed", "send-end"}
    <2>1. UNCHANGED <<ran, lost, queue>>
      BY DEF Neutrally, CheckReady, StartWait, CounterStarted, SetFlags, WorkDone, InterruptDone,
             MacroExec, MacroStep, MacroDone, history
    <2> QED
      BY <2>1, Called DEF Sound, Neutrally, CheckReady, StartWait, CounterStarted, SetFlags,
             WorkDone, InterruptDone, MacroExec, MacroStep, MacroDone
  <1>2. PICK c : Fits(c) /\ Then(c)
    BY RunFits DEF Run, Neutrally
  <1>3. c \in Seq(Calls) /\ \A i \in 1 .. Len(c) : c[i].op \notin Items
    BY <1>1, <1>2 DEF Fits, Items
  <1>4. OrderInv'
    <2>1. \A i \in 1 .. Len(c) : c[i].op # "invoke" /\ c[i].op # "add"
      BY <1>3 DEF Items
    <2> QED
      BY <1>1, <1>2, <1>3, <2>1, OrderThen
  <1>5. \A x \in Item : InLine(x)' <=> InLine(x)
    BY <1>1, <1>2, <1>3, LinedThen DEF Items
  <1>6. LineInv'
    BY <1>1, <1>5, LineKept
  <1>7. AtInv'
    <2>1. CASE Neutrally /\ ~(MacroExec \/ MacroStep \/ MacroDone)
      <3>1. Quietly
        BY <2>1 DEF Quietly, Neutrally
      <3>2. (Late => Late') /\ at' = at
        BY <3>1, QuietHas, QuietThen DEF Late, Launching, Controls
      <3> QED
        BY <1>1, <1>5, <3>2, AtKept
    <2>2. CASE MacroExec \/ MacroStep
      <3>1. /\ todo[1].op \in {"exec", "exec-step"} /\ 1 \in DOMAIN todo
        BY <2>2, Called DEF Sound, MacroExec, MacroStep
      <3>2. ~Late
        BY <3>1 DEF Late, Has, Sound, ControlInv, Controls
      <3>3. at # None
        BY <2>2, StepFacts
      <3>4. at' = None \/ (at'.run = at.run /\ at'.step = at.step)
        <4>1. at \in [macro : DOMAIN setup.launcher, next : Nat, run : Nat \ {0}, step : Nat]
          BY <3>3 DEF Sound, Types
        <4>2. at' = at \/ at' = None \/ at' = [at EXCEPT !.next = at.next + 1]
          BY <2>2 DEF MacroExec, MacroStep
        <4> QED
          BY <4>1, <4>2
      <3> QED
        BY <1>1, <1>5, <3>2, <3>3, <3>4 DEF AtInv
    <2>3. CASE MacroDone
      BY <2>3 DEF MacroDone, AtInv
    <2> QED
      BY <2>1, <2>2, <2>3
  <1> QED
    BY <1>4, <1>6, <1>7

\* What a step that is run leaves of its macro's history, and a macro that it runs starts.
LEMMA InvokeFacts ==
  ASSUME Sound, InvokeBinding, todo[1].item.run \in DOMAIN ran
  PROVE  /\ todo \in Seq(Calls) /\ todo # <<>> /\ todo[1].op = "invoke" /\ 1 \in DOMAIN todo
         /\ todo[1].item \in Item /\ ran \in Seq(Nat)
         /\ UNCHANGED <<queue, lost, at>> /\ (Late => Late')
         /\ \A r \in DOMAIN ran : r \in DOMAIN ran' /\
              ran'[r] = IF r = todo[1].item.run THEN todo[1].item.step ELSE ran[r]
         /\ \E c \in Seq(Calls) :
              /\ Then(c)
              /\ \A i \in 1 .. Len(c) :
                   c[i].op = "add" /\ c[i].item.run = Len(ran) + 1 /\ c[i].item.step = i
              /\ Len(c) > 0 => Len(ran) + 1 \in DOMAIN ran' /\ ran'[Len(ran) + 1] = 0
  <1>1. /\ todo \in Seq(Calls) /\ todo # <<>> /\ todo[1].op = "invoke" /\ 1 \in DOMAIN todo
        /\ todo[1].item \in Item /\ ran \in Seq(Nat) /\ Call = todo[1]
        /\ UNCHANGED <<queue, lost, at>> /\ setup \in Setups
    BY Called DEF InvokeBinding, Sound, Types, TypeOK, launch
  <1>2. Late => Late'
    BY QuietHas DEF Quietly, Late, Launching, Controls
  <1>3. PICK x \in Item : x = todo[1].item
    BY <1>1
  <1>4. PICK q : q = [ran EXCEPT ![x.run] = x.step]
    OBVIOUS
  <1>5. /\ q \in Seq(Nat) /\ Len(q) = Len(ran) /\ DOMAIN q = DOMAIN ran
        /\ \A r \in DOMAIN ran : q[r] = IF r = x.run THEN x.step ELSE ran[r]
    <2>1. PICK r0 \in DOMAIN ran, n \in Nat : r0 = x.run /\ n = x.step
      BY <1>3 DEF Item
    <2>2. q = [ran EXCEPT ![r0] = n]
      BY <1>4, <2>1
    <2>3. q \in Seq(Nat) /\ Len(q) = Len(ran) /\ DOMAIN q = DOMAIN ran
      BY <1>1, <2>2
    <2>4. \A r \in DOMAIN ran : q[r] = IF r = r0 THEN n ELSE ran[r]
      BY <1>1, <2>2
    <2> QED
      BY <2>1, <2>3, <2>4
  <1>6. CASE x.bind \in DOMAIN setup.dts
    <2>1. x.press \in BOOLEAN
      BY DEF Item
    <2>2. PICK c : c = Adds(Half(x.bind, x.press))
      OBVIOUS
    <2>3. /\ c \in Seq(Calls)
          /\ \A i \in 1 .. Len(c) :
               c[i].op = "add" /\ c[i].item.run = Len(ran) + 1 /\ c[i].item.step = i
      BY <1>1, <1>6, <2>1, <2>2, AddsType
    <2>4. Then(c) /\ ran' = Append(q, 0)
      BY <1>1, <1>3, <1>4, <1>6, <2>2 DEF InvokeBinding
    <2>5. /\ \A r \in DOMAIN q : r \in DOMAIN ran' /\ ran'[r] = q[r]
          /\ Len(q) + 1 \in DOMAIN ran' /\ ran'[Len(q) + 1] = 0
      BY <1>5, <2>4
    <2>6. \A r \in DOMAIN ran : r \in DOMAIN ran' /\
            ran'[r] = IF r = todo[1].item.run THEN todo[1].item.step ELSE ran[r]
      BY <1>3, <1>5, <2>5
    <2>7. Len(ran) + 1 \in DOMAIN ran' /\ ran'[Len(ran) + 1] = 0
      BY <1>5, <2>5
    <2> QED
      BY <1>1, <1>2, <2>3, <2>4, <2>6, <2>7
  <1>7. CASE x.bind \notin DOMAIN setup.dts
    <2>1. Then(<<>>) /\ ran' = q
      BY <1>1, <1>3, <1>4, <1>7 DEF InvokeBinding
    <2>2. \A r \in DOMAIN ran : r \in DOMAIN ran' /\
            ran'[r] = IF r = todo[1].item.run THEN todo[1].item.step ELSE ran[r]
      BY <1>3, <1>5, <2>1
    <2>3. PICK c \in Seq(Calls) : c = <<>> /\ Len(c) = 0
      BY CallSeqs
    <2>4. /\ Then(c) /\ ~(Len(c) > 0)
          /\ \A i \in 1 .. Len(c) :
               c[i].op = "add" /\ c[i].item.run = Len(ran) + 1 /\ c[i].item.step = i
      BY <2>1, <2>3
    <2> QED
      BY <1>1, <1>2, <2>2, <2>4
  <1> QED
    BY <1>6, <1>7

\* The next step to be run of a macro is the one behind the last that was, unless a full
\* queue left some out.
LEMMA InvokeNext ==
  ASSUME Sound, ThreadInv, OrderInv, LineInv, InvokeBinding
  PROVE  LET x == todo[1].item
         IN /\ x.run \in DOMAIN ran
            /\ x.step = ran[x.run] + 1 \/ (lost /\ x.step > ran[x.run])
            /\ \A y \in Item : InLine(y) => y = x \/ Before(x, y)
            /\ \A k \in DOMAIN queue : queue[k] # x
            /\ \A i \in DOMAIN todo : todo[i].op \in Items /\ todo[i].item = x => i = 1
  <1>1. /\ todo \in Seq(Calls) /\ todo # <<>> /\ todo[1].op = "invoke" /\ 1 \in DOMAIN todo
        /\ todo[1].item \in Item
    BY Called DEF InvokeBinding, Sound
  <1>2. PICK x \in Item : x = todo[1].item
    BY <1>1
  <1>3. InLine(x)
    BY <1>1, <1>2 DEF InLine, Items
  <1>4. ASSUME NEW y \in Item, InLine(y) PROVE y = x \/ Before(x, y)
    <2>1. ASSUME NEW k \in DOMAIN queue, queue[k] = y PROVE Before(x, y)
      BY <1>1, <1>2, <2>1 DEF OrderInv
    <2>2. ASSUME NEW i \in DOMAIN todo, todo[i].op = "add", todo[i].item = y PROVE Before(x, y)
      BY <1>1, <1>2, <2>2 DEF OrderInv
    <2>3. ASSUME NEW i \in DOMAIN todo, todo[i].op = "invoke", todo[i].item = y PROVE y = x
      BY <1>1, <1>2, <2>3 DEF ThreadInv, Running
    <2> QED
      BY <1>4, <2>1, <2>2, <2>3 DEF InLine, Items
  <1>5. Due(x)
    BY <1>3 DEF LineInv
  <1>6. ASSUME NEW y \in Item, InLine(y), y.run = x.run, y.step = x.step - 1 PROVE FALSE
    <2>1. x.step \in Nat
      BY DEF Item
    <2> QED
      BY <1>4, <1>6, <2>1 DEF Before
  <1>7. ~Before(x, x)
    <2>1. x.step \in Nat
      BY DEF Item
    <2> QED
      BY <2>1 DEF Before
  <1>8. \A k \in DOMAIN queue : queue[k] # x
    BY <1>1, <1>2, <1>7 DEF OrderInv
  <1>9. \A i \in DOMAIN todo : todo[i].op \in Items /\ todo[i].item = x => i = 1
    BY <1>1, <1>2, <1>7 DEF OrderInv, ThreadInv, Items, Running
  <1> QED
    BY <1>2, <1>4, <1>5, <1>6, <1>8, <1>9 DEF Due

LEMMA InvokeOrder ==
  ASSUME Sound, ThreadInv, OrderInv, LineInv, AtInv, InvokeBinding
  PROVE  OrderInv' /\ LineInv' /\ AtInv'
  <1>0. PICK x : x = todo[1].item
    OBVIOUS
  <1>1. /\ x.run \in DOMAIN ran /\ x.step > ran[x.run]
        /\ x.step = ran[x.run] + 1 \/ (lost /\ x.step > ran[x.run])
        /\ \A y \in Item : InLine(y) => y = x \/ Before(x, y)
        /\ \A k \in DOMAIN queue : queue[k] # x
        /\ \A i \in DOMAIN todo : todo[i].op \in Items /\ todo[i].item = x => i = 1
    <2>1. /\ x.run \in DOMAIN ran
          /\ x.step = ran[x.run] + 1 \/ (lost /\ x.step > ran[x.run])
          /\ \A y \in Item : InLine(y) => y = x \/ Before(x, y)
          /\ \A k \in DOMAIN queue : queue[k] # x
          /\ \A i \in DOMAIN todo : todo[i].op \in Items /\ todo[i].item = x => i = 1
      BY <1>0, InvokeNext
    <2>2. ran[x.run] \in Nat
      BY <2>1 DEF Sound, Types, TypeOK
    <2> QED
      BY <2>1, <2>2
  <1>2. /\ todo \in Seq(Calls) /\ todo # <<>> /\ todo[1].op = "invoke" /\ 1 \in DOMAIN todo
        /\ x \in Item /\ ran \in Seq(Nat)
        /\ UNCHANGED <<queue, lost, at>> /\ (Late => Late')
        /\ \A r \in DOMAIN ran : r \in DOMAIN ran' /\
             ran'[r] = IF r = x.run THEN x.step ELSE ran[r]
    BY <1>0, <1>1, InvokeFacts
  <1>3. PICK c \in Seq(Calls) :
          /\ Then(c)
          /\ \A i \in 1 .. Len(c) :
               c[i].op = "add" /\ c[i].item.run = Len(ran) + 1 /\ c[i].item.step = i
          /\ Len(c) > 0 => Len(ran) + 1 \in DOMAIN ran' /\ ran'[Len(ran) + 1] = 0
    BY <1>0, <1>1, InvokeFacts
  <1>4. /\ \A r \in DOMAIN ran : r # Len(ran) + 1 /\ ran[r] \in Nat
        /\ Len(c) \in Nat /\ Len(ran) \in Nat
    BY <1>2
  <1>5. \A y \in Item : InLine(y) => y.run \in DOMAIN ran
    BY DEF LineInv, Due
  <1>6. \A i \in 1 .. Len(c) : c[i].item \in Item
    BY <1>3, CallKinds
  <1>7. OrderInv'
    <2>1. \A k \in DOMAIN queue : queue[k].run # Len(ran) + 1
      <3>1. \A k \in DOMAIN queue : queue[k] \in Item
        BY DEF Sound, Types, TypeOK
      <3> QED
        BY <1>4, <1>5, <3>1 DEF InLine
    <2>2. \A j \in DOMAIN todo : todo[j].op \in Items => todo[j].item.run # Len(ran) + 1
      <3>1. \A j \in DOMAIN todo : todo[j].op \in Items => todo[j].item \in Item
        BY <1>2, CallKinds DEF Items
      <3> QED
        BY <1>4, <1>5, <3>1 DEF InLine
    <2>3. ASSUME NEW i \in 1 .. Len(c)
          PROVE  /\ c[i].op # "invoke"
                 /\ c[i].op = "add" =>
                      /\ \A k \in DOMAIN queue : Before(queue[k], c[i].item)
                      /\ \A j \in DOMAIN todo : j > 1 =>
                           /\ todo[j].op = "invoke" => Before(todo[j].item, c[i].item)
                           /\ todo[j].op = "add" => Before(c[i].item, todo[j].item)
                      /\ \A j \in 1 .. Len(c) : i < j /\ c[j].op = "add" =>
                           Before(c[i].item, c[j].item)
      BY <1>3, <2>1, <2>2 DEF Before, Items
    <2> QED
      BY <1>2, <1>3, <2>3, OrderThen
  <1>8. /\ \A y \in Item : InLine(y)' => InLine(y) \/ \E i \in 1 .. Len(c) : c[i].item = y
        /\ \A y \in Item : InLine(y) => InLine(y)' \/ x = y
        /\ \A i \in 1 .. Len(c) : InLine(c[i].item)'
    <2>1. \A i \in 1 .. Len(c) : c[i].op \in Items
      BY <1>3 DEF Items
    <2> QED
      BY <1>0, <1>2, <1>3, <2>1, LinedThen
  <1>9. ASSUME NEW y \in Item, InLine(y), y # x PROVE Due(y)'
    <2>1. Due(y) /\ y.run \in DOMAIN ran /\ y.step \in Nat /\ x.step \in Nat
      BY <1>2, <1>9 DEF LineInv, Due, Item
    <2>2. CASE y.run = x.run
      <3>1. x.step < y.step
        BY <1>1, <1>9, <2>2 DEF Before
      <3>2. y.run \in DOMAIN ran' /\ ran'[y.run] = x.step
        BY <1>2, <2>1, <2>2
      <3>3. \/ lost' \/ y.step = x.step + 1
            \/ \E z \in Item : InLine(z)' /\ z.run = y.run /\ z.step = y.step - 1
        <4>1. CASE lost
          BY <1>2, <4>1
        <4>2. CASE y.step = ran[y.run] + 1
          BY <1>1, <1>4, <2>1, <2>2, <3>1, <4>2
        <4>3. ASSUME NEW z \in Item, InLine(z), z.run = y.run, z.step = y.step - 1
              PROVE  \/ y.step = x.step + 1
                     \/ \E w \in Item : InLine(w)' /\ w.run = y.run /\ w.step = y.step - 1
          <5>1. CASE z = x
            BY <2>1, <4>3, <5>1
          <5>2. CASE z # x
            BY <1>8, <4>3, <5>2
          <5> QED
            BY <5>1, <5>2
        <4> QED
          BY <2>1, <4>1, <4>2, <4>3 DEF Due
      <3> QED
        BY <3>1, <3>2, <3>3 DEF Due
    <2>3. CASE y.run # x.run
      <3>1. y.run \in DOMAIN ran' /\ ran'[y.run] = ran[y.run]
        BY <1>2, <2>1, <2>3
      <3>2. \A z \in Item : InLine(z) /\ z.run = y.run => InLine(z)'
        BY <1>8, <2>3
      <3> QED
        BY <1>2, <2>1, <3>1, <3>2 DEF Due
    <2> QED
      BY <2>2, <2>3
  <1>10. ASSUME NEW i \in 1 .. Len(c) PROVE Due(c[i].item)'
    <2>1. /\ c[i].item \in Item /\ c[i].item.run = Len(ran) + 1 /\ c[i].item.step = i
          /\ Len(ran) + 1 \in DOMAIN ran' /\ ran'[Len(ran) + 1] = 0 /\ i \in Nat /\ i > 0
      BY <1>3, <1>4, <1>6
    <2>2. CASE i = 1
      BY <2>1, <2>2 DEF Due
    <2>3. CASE i # 1
      <3>1. i - 1 \in 1 .. Len(c)
        BY <1>4, <2>1, <2>3
      <3>2. /\ c[i - 1].item \in Item /\ InLine(c[i - 1].item)'
            /\ c[i - 1].item.run = Len(ran) + 1 /\ c[i - 1].item.step = i - 1
        BY <1>3, <1>6, <1>8, <3>1
      <3> QED
        BY <2>1, <3>2 DEF Due
    <2> QED
      BY <2>2, <2>3
  <1>11. LineInv'
    <2> SUFFICES ASSUME NEW y \in Item, InLine(y)' PROVE Due(y)'
      BY DEF LineInv
    <2>1. CASE \E i \in 1 .. Len(c) : c[i].item = y
      BY <1>10, <2>1
    <2>2. CASE InLine(y) /\ y # x
      BY <1>9, <2>2
    <2>3. CASE InLine(y) /\ y = x /\ ~\E i \in 1 .. Len(c) : c[i].item = y
      \* It is in line once.
      <3>1. /\ \A i \in 1 .. Len(c) : i \in DOMAIN todo' /\ todo'[i] = c[i]
            /\ \A i \in DOMAIN todo' : i \in 1 .. Len(c) \/
                 \E k \in DOMAIN todo : k > 1 /\ i = k + Len(c) - 1 /\ todo'[i] = todo[k]
        BY <1>2, <1>3, Positions
      <3>2. PICK i \in DOMAIN todo' : todo'[i].op \in Items /\ todo'[i].item = x
        BY <1>1, <1>2, <2>3 DEF InLine
      <3>3. i \notin 1 .. Len(c)
        BY <2>3, <3>1, <3>2
      <3>4. PICK k \in DOMAIN todo : k > 1 /\ todo'[i] = todo[k]
        BY <3>1, <3>3
      <3>5. k = 1
        BY <1>1, <3>2, <3>4
      <3> QED
        BY <3>4, <3>5
    <2> QED
      BY <1>8, <2>1, <2>2, <2>3
  <1>12. AtInv'
    <2> SUFFICES ASSUME at # None PROVE AtInv'
      BY <1>2 DEF AtInv
    <2>1. at.run \in DOMAIN ran' /\ at.run \in DOMAIN ran /\ at.run # Len(ran) + 1
      BY <1>2, <1>4 DEF AtInv
    <2> SUFFICES ASSUME ~Late
                 PROVE  /\ \A y \in Item : InLine(y)' /\ y.run = at.run => y.step <= at.step
                        /\ ran'[at.run] <= at.step
                        /\ \/ lost' \/ at.step = ran'[at.run]
                           \/ \E y \in Item : InLine(y)' /\ y.run = at.run /\ y.step = at.step
      BY <1>2, <2>1 DEF AtInv
    <2>2. /\ \A y \in Item : InLine(y) /\ y.run = at.run => y.step <= at.step
          /\ ran[at.run] <= at.step
          /\ \/ lost \/ at.step = ran[at.run]
             \/ \E y \in Item : InLine(y) /\ y.run = at.run /\ y.step = at.step
      BY DEF AtInv
    <2>3. \A y \in Item : InLine(y)' /\ y.run = at.run => y.step <= at.step
      BY <1>3, <1>8, <2>1, <2>2
    <2>4. InLine(x)
      BY <1>0, <1>2 DEF InLine, Items
    <2>5. CASE at.run = x.run
      <3>1. ran'[at.run] = x.step /\ x.step <= at.step
        BY <1>2, <2>1, <2>2, <2>4, <2>5
      <3>2. at.step # ran[at.run]
        <4>1. /\ at.step \in Nat /\ x.step \in Nat /\ ran[x.run] \in Nat
          BY <1>1, <1>2, <1>4 DEF Sound, Types, Item
        <4> QED
          BY <1>1, <2>5, <3>1, <4>1
      <3>3. ASSUME NEW y \in Item, InLine(y), y.run = at.run, y.step = at.step
            PROVE  \/ at.step = ran'[at.run]
                   \/ \E z \in Item : InLine(z)' /\ z.run = at.run /\ z.step = at.step
        BY <1>8, <3>1, <3>3
      <3> QED
        BY <1>2, <2>2, <2>3, <3>1, <3>2, <3>3
    <2>6. CASE at.run # x.run
      <3>1. ran'[at.run] = ran[at.run]
        BY <1>2, <2>1, <2>6
      <3>2. \A y \in Item : InLine(y) /\ y.run = at.run => InLine(y)'
        BY <1>8, <2>6
      <3> QED
        BY <1>2, <2>2, <2>3, <3>1, <3>2
    <2> QED
      BY <2>5, <2>6
  <1> QED
    BY <1>7, <1>11, <1>12

\* A launcher macro queues the items of a step behind all of its own.
LEMMA GrowOrder ==
  ASSUME Unmixed, Sound, LaunchInv, OrderInv, LineInv, AtInv, at # None, ~Late,
         todo \in Seq(Calls), todo # <<>>, todo[1].op \in {"feed", "send-end"},
         2 \in DOMAIN todo, todo[2].op \in {"exec-step", "done"},
         NEW c \in Seq(Calls), Then(c), UNCHANGED <<queue, ran, lost>>,
         \A i \in 1 .. Len(c) :
           c[i].op = "add" /\ c[i].item.run = at.run /\ c[i].item.step = at.step + i
  PROVE  /\ OrderInv' /\ LineInv' /\ at.run \in DOMAIN ran
         /\ \A y \in Item : InLine(y)' /\ y.run = at.run => y.step <= at.step + Len(c)
         /\ ran[at.run] <= at.step + Len(c)
         /\ \/ lost \/ at.step + Len(c) = ran[at.run]
            \/ \E y \in Item : InLine(y)' /\ y.run = at.run /\ y.step = at.step + Len(c)
  <1>1. /\ at \in [macro : DOMAIN setup.launcher, next : Nat, run : Nat \ {0}, step : Nat]
        /\ Len(c) \in Nat /\ at.run \in DOMAIN ran
        /\ ran[at.run] <= at.step /\ ran[at.run] \in Nat /\ at.step \in Nat
        /\ \A y \in Item : InLine(y) /\ y.run = at.run => y.step <= at.step
        /\ \/ lost \/ at.step = ran[at.run]
           \/ \E y \in Item : InLine(y) /\ y.run = at.run /\ y.step = at.step
    BY DEF Sound, Types, TypeOK, AtInv
  <1>2. \A i \in 1 .. Len(c) : c[i].item \in Item /\ c[i].op \in Items
    BY CallKinds DEF Items
  <1>3. \A i \in DOMAIN todo : todo[i].op # "add"
    <2> SUFFICES ASSUME NEW i \in DOMAIN todo, todo[i].op = "add" PROVE FALSE
      OBVIOUS
    <2>1. PICK j \in DOMAIN todo : i < j /\ todo[j].op \in {"exec-step", "done"}
      BY OneKind DEF LaunchInv
    <2>2. j = 2
      BY <2>1 DEF Sound, ControlInv, Controls
    <2>3. i = 1
      <3>1. i \in Nat \ {0} /\ i < 2
        BY <2>1, <2>2
      <3> QED
        BY <3>1
    <2> QED
      BY <2>3
  <1>4. \A y \in Item : InLine(y) /\ y.run = at.run => y.step < at.step + 1 /\ y.step \in Nat
    BY <1>1 DEF Item
  <1>5. /\ \A y \in Item : InLine(y)' => InLine(y) \/ \E i \in 1 .. Len(c) : c[i].item = y
        /\ \A y \in Item : InLine(y) => InLine(y)'
        /\ \A i \in 1 .. Len(c) : InLine(c[i].item)'
    <2>1. todo[1].op \notin Items
      BY DEF Items
    <2> QED
      BY <1>2, <2>1, LinedThen
  <1>6. OrderInv'
    <2>1. ASSUME NEW i \in 1 .. Len(c), NEW y \in Item, InLine(y) PROVE Before(y, c[i].item)
      <3>1. i \in Nat /\ i > 0
        BY <1>1
      <3> SUFFICES ASSUME y.run = at.run PROVE y.step < at.step + i
        BY DEF Before
      <3>2. y.step < at.step + 1 /\ y.step \in Nat
        BY <1>4, <2>1
      <3> QED
        BY <1>1, <3>1, <3>2
    <2>2. ASSUME NEW i \in 1 .. Len(c), NEW k \in DOMAIN queue PROVE Before(queue[k], c[i].item)
      <3>1. queue[k] \in Item /\ InLine(queue[k])
        BY DEF Sound, Types, TypeOK, InLine
      <3> QED
        BY <2>1, <3>1
    <2>3. ASSUME NEW i \in 1 .. Len(c), NEW j \in DOMAIN todo, todo[j].op = "invoke"
          PROVE  Before(todo[j].item, c[i].item)
      <3>1. todo[j].item \in Item /\ InLine(todo[j].item)
        BY <2>3, CallKinds DEF InLine, Items
      <3> QED
        BY <2>1, <3>1
    <2>4. ASSUME NEW i \in 1 .. Len(c), NEW j \in 1 .. Len(c), i < j
          PROVE  Before(c[i].item, c[j].item)
      <3>1. at.step + i < at.step + j
        BY <1>1, <2>4
      <3> QED
        BY <3>1 DEF Before
    <2>5. \A i \in 1 .. Len(c) : c[i].op # "invoke"
      OBVIOUS
    <2> QED
      BY <1>3, <2>2, <2>3, <2>4, <2>5, OrderThen
  <1>7. LineInv'
    <2> SUFFICES ASSUME NEW y \in Item, InLine(y)' PROVE Due(y)'
      BY DEF LineInv
    <2>1. CASE InLine(y)
      BY <1>5, <2>1, DueKept DEF LineInv
    <2>2. ASSUME NEW i \in 1 .. Len(c), c[i].item = y PROVE Due(y)'
      <3>1. /\ i \in Nat /\ i > 0 /\ y.run = at.run /\ y.step = at.step + i
            /\ y.run \in DOMAIN ran' /\ y.step > ran'[y.run]
        BY <1>1, <2>2
      <3>2. CASE i = 1
        <4>1. y.step - 1 = at.step
          BY <1>1, <3>1, <3>2
        <4>2. CASE lost
          BY <3>1, <4>2 DEF Due
        <4>3. CASE at.step = ran[at.run]
          <5>1. y.step = ran'[y.run] + 1
            BY <1>1, <3>1, <3>2, <4>3
          <5> QED
            BY <3>1, <5>1 DEF Due
        <4>4. ASSUME NEW z \in Item, InLine(z), z.run = at.run, z.step = at.step PROVE Due(y)'
          <5>1. InLine(z)' /\ z.run = y.run /\ z.step = y.step - 1
            BY <1>5, <3>1, <4>1, <4>4
          <5> QED
            BY <3>1, <5>1 DEF Due
        <4> QED
          BY <1>1, <4>2, <4>3, <4>4
      <3>3. CASE i # 1
        <4>1. i - 1 \in 1 .. Len(c) /\ at.step + (i - 1) = (at.step + i) - 1
          <5>1. PICK l, b : l = Len(c) /\ b = at.step
            OBVIOUS
          <5>2. l \in Nat /\ b \in Nat /\ i \in 1 .. l /\ i # 1
            BY <1>1, <3>3, <5>1
          <5>3. i - 1 \in 1 .. l /\ b + (i - 1) = (b + i) - 1
            BY ONLY <5>2
          <5> QED
            BY <5>1, <5>3
        <4>2. /\ c[i - 1].item \in Item /\ InLine(c[i - 1].item)'
              /\ c[i - 1].item.run = y.run /\ c[i - 1].item.step = y.step - 1
          BY <1>2, <1>5, <3>1, <4>1
        <4> QED
          BY <3>1, <4>2 DEF Due
      <3> QED
        BY <3>2, <3>3
    <2> QED
      BY <1>5, <2>1, <2>2
  <1>8. ASSUME NEW y \in Item, InLine(y)', y.run = at.run PROVE y.step <= at.step + Len(c)
    <2>1. CASE InLine(y)
      <3>1. y.step <= at.step /\ y.step \in Nat
        BY <1>1, <1>8, <2>1 DEF Item
      <3> QED
        BY <1>1, <3>1
    <2>2. ASSUME NEW i \in 1 .. Len(c), c[i].item = y PROVE y.step <= at.step + Len(c)
      BY <1>1, <2>2
    <2> QED
      BY <1>5, <1>8, <2>1, <2>2
  <1>9. \/ lost \/ at.step + Len(c) = ran[at.run]
        \/ \E y \in Item : InLine(y)' /\ y.run = at.run /\ y.step = at.step + Len(c)
    <2>1. CASE Len(c) = 0
      BY <1>1, <1>5, <2>1
    <2>2. CASE Len(c) # 0
      <3>1. Len(c) \in 1 .. Len(c)
        BY <1>1, <2>2
      <3> QED
        BY <1>2, <1>5, <3>1
    <2> QED
      BY <2>1, <2>2
  <1>10. ran[at.run] <= at.step + Len(c)
    BY <1>1
  <1> QED
    BY <1>1, <1>6, <1>7, <1>8, <1>9, <1>10

LEMMA FeedOrder ==
  ASSUME Unmixed, Sound, LaunchInv, OrderInv, LineInv, AtInv, FeedStep
  PROVE  OrderInv' /\ LineInv' /\ AtInv'
  <1>1. PICK c \in Seq(Calls) :
          /\ Then(c) /\ Len(c) \in 0 .. 2 /\ at' = [at EXCEPT !.step = at.step + Len(c)]
          /\ \A i \in 1 .. Len(c) :
               c[i].op = "add" /\ c[i].item.run = at.run /\ c[i].item.step = at.step + i
    BY FeedFacts
  <1>2. /\ todo \in Seq(Calls) /\ todo # <<>> /\ todo[1].op = "feed"
        /\ 2 \in DOMAIN todo /\ todo[2].op = "exec-step" /\ at # None
        /\ at \in [macro : DOMAIN setup.launcher, next : Nat, run : Nat \ {0}, step : Nat]
        /\ UNCHANGED <<queue, ran, lost>>
    BY FeedFacts
  <1>3. ~Late
    BY <1>2 DEF Late, Has, Sound, ControlInv, Controls
  <1>4. /\ OrderInv' /\ LineInv' /\ at.run \in DOMAIN ran
        /\ \A y \in Item : InLine(y)' /\ y.run = at.run => y.step <= at.step + Len(c)
        /\ ran[at.run] <= at.step + Len(c)
        /\ \/ lost \/ at.step + Len(c) = ran[at.run]
           \/ \E y \in Item : InLine(y)' /\ y.run = at.run /\ y.step = at.step + Len(c)
    BY <1>1, <1>2, <1>3, GrowOrder
  <1>5. at'.run = at.run /\ at'.step = at.step + Len(c)
    BY <1>1, <1>2
  <1>6. AtInv'
    BY <1>2, <1>4, <1>5 DEF AtInv
  <1> QED
    BY <1>4, <1>6

LEMMA SendEndOrder ==
  ASSUME Unmixed, Sound, LaunchInv, OrderInv, LineInv, AtInv, SendStringEnd
  PROVE  OrderInv' /\ LineInv' /\ AtInv'
  <1>1. PICK c \in Seq(Calls) :
          /\ Then(c)
          /\ \A i \in 1 .. Len(c) :
               c[i].op = "add" /\ c[i].item.run = at.run /\ c[i].item.step = at.step + i
    BY SendEndFacts
  <1>2. /\ todo \in Seq(Calls) /\ todo # <<>> /\ todo[1].op = "send-end" /\ 1 \in DOMAIN todo
        /\ 2 \in DOMAIN todo /\ todo[2].op = "done" /\ at # None
        /\ UNCHANGED <<queue, ran, lost, at>>
    BY SendEndFacts
  <1>3. ~Late
    BY <1>2 DEF Late, Has
  <1>4. OrderInv' /\ LineInv'
    BY <1>1, <1>2, <1>3, GrowOrder
  <1>5. Late'
    <2>1. Has({"done"})'
      BY <1>1, <1>2, StillCalled DEF Has
    <2>2. \A i \in DOMAIN todo : i # 1 => todo[i].op # "send-end"
      BY DEF Sound, ControlInv
    <2>3. \A i \in 1 .. Len(c) : c[i].op # "send-end"
      BY <1>1
    <2>4. ~Has({"send-end"})'
      BY <1>1, <1>2, <2>2, <2>3, NotCalled
    <2> QED
      BY <2>1, <2>4 DEF Late
  <1>6. AtInv'
    BY <1>2, <1>5 DEF AtInv
  <1> QED
    BY <1>4, <1>6

\* What starts when nothing else is being done.
LEMMA MacroKeyOrder ==
  ASSUME Unmixed, Sound, OrderInv, LineInv, NEW m \in DOMAIN setup.dts, MacroKey(m)
  PROVE  OrderInv' /\ LineInv' /\ AtInv' /\ \A r \in DOMAIN ran : ran'[r] = ran[r]
  <1>1. /\ todo = <<>> /\ UNCHANGED <<queue, at, lost>> /\ ran' = Append(ran, 0)
        /\ ran \in Seq(Nat) /\ setup \in Setups
    BY DEF MacroKey, Idle, launch, Sound, Types, TypeOK
  <1>2. PICK press \in BOOLEAN : todo' = Adds(Half(m, press))
    BY DEF MacroKey
  <1>3. PICK c : c = Adds(Half(m, press))
    OBVIOUS
  <1>4. /\ c \in Seq(Calls) /\ DOMAIN c = 1 .. Len(c) /\ todo' = c
        /\ \A i \in 1 .. Len(c) :
             c[i].op = "add" /\ c[i].item.run = Len(ran) + 1 /\ c[i].item.step = i
    BY <1>1, <1>2, <1>3, AddsType
  <1>5. /\ \A r \in DOMAIN ran : r \in DOMAIN ran' /\ ran'[r] = ran[r] /\ r # Len(ran) + 1
        /\ Len(ran) + 1 \in DOMAIN ran' /\ ran'[Len(ran) + 1] = 0 /\ Len(c) \in Nat
    BY <1>1, <1>4
  <1>6. at = None
    BY OneKind
  <1>7. \A i \in 1 .. Len(c) : c[i].item \in Item
    BY <1>4, CallKinds
  <1>8. \A y \in Item : InLine(y)' <=> InLine(y) \/ \E i \in 1 .. Len(c) : c[i].item = y
    <2>1. ASSUME NEW y \in Item, InLine(y)'
          PROVE  InLine(y) \/ \E i \in 1 .. Len(c) : c[i].item = y
      <3>1. CASE \E k \in DOMAIN queue' : queue'[k] = y
        BY <1>1, <3>1 DEF InLine
      <3>2. CASE \E i \in DOMAIN todo' : todo'[i].op \in Items /\ todo'[i].item = y
        BY <1>4, <3>2
      <3> QED
        BY <2>1, <3>1, <3>2 DEF InLine
    <2>2. ASSUME NEW y \in Item, InLine(y) PROVE InLine(y)'
      <3>1. \A i \in DOMAIN todo : FALSE
        BY <1>1
      <3> QED
        BY <1>1, <2>2, <3>1 DEF InLine
    <2>3. ASSUME NEW i \in 1 .. Len(c) PROVE InLine(c[i].item)'
      <3>1. i \in DOMAIN todo' /\ todo'[i] = c[i] /\ c[i].op \in Items
        BY <1>4 DEF Items
      <3> QED
        BY <3>1 DEF InLine
    <2> QED
      BY <2>1, <2>2, <2>3
  <1>9. \A k \in DOMAIN queue : queue[k].run # Len(ran) + 1
    <2>1. \A k \in DOMAIN queue : queue[k] \in Item
      BY DEF Sound, Types, TypeOK
    <2> QED
      BY <1>5, <2>1 DEF InLine, LineInv, Due
  <1>10. OrderInv'
    BY <1>1, <1>4, <1>9 DEF OrderInv, Before
  <1>11. LineInv'
    <2> SUFFICES ASSUME NEW y \in Item, InLine(y)' PROVE Due(y)'
      BY DEF LineInv
    <2>1. CASE InLine(y)
      BY <1>1, <1>5, <1>8, <2>1, DueKept DEF LineInv
    <2>2. ASSUME NEW i \in 1 .. Len(c), c[i].item = y PROVE Due(y)'
      <3>1. i \in Nat /\ i > 0 /\ y.run = Len(ran) + 1 /\ y.step = i
        BY <1>4, <1>5, <2>2
      <3>2. CASE i = 1
        BY <1>5, <3>1, <3>2 DEF Due
      <3>3. CASE i # 1
        <4>1. i - 1 \in 1 .. Len(c)
          BY <1>5, <3>1, <3>3
        <4>2. /\ c[i - 1].item \in Item /\ InLine(c[i - 1].item)'
              /\ c[i - 1].item.run = Len(ran) + 1 /\ c[i - 1].item.step = i - 1
          BY <1>4, <1>7, <1>8, <4>1
        <4> QED
          BY <1>5, <3>1, <4>2 DEF Due
      <3> QED
        BY <3>2, <3>3
    <2> QED
      BY <1>8, <2>1, <2>2
  <1> QED
    BY <1>1, <1>5, <1>6, <1>10, <1>11 DEF AtInv

LEMMA SendMacroOrder ==
  ASSUME Sound, OrderInv, LineInv, NEW m \in DOMAIN setup.launcher, SendMacro(m)
  PROVE  OrderInv' /\ LineInv' /\ AtInv' /\ \A r \in DOMAIN ran : ran'[r] = ran[r]
  <1>1. /\ todo = <<>> /\ UNCHANGED <<queue, lost>> /\ ran' = Append(ran, 0)
        /\ ran \in Seq(Nat) /\ todo' = <<Exec>> /\ Exec.op = "exec"
        /\ at'.run = Len(ran) + 1 /\ at'.step = 0
    BY DEF SendMacro, Idle, Sound, Types, TypeOK, Exec
  <1>2. DOMAIN todo' = {1} /\ todo'[1].op = "exec"
    BY <1>1
  <1>3. /\ \A r \in DOMAIN ran : r \in DOMAIN ran' /\ ran'[r] = ran[r] /\ r # Len(ran) + 1
        /\ Len(ran) + 1 \in DOMAIN ran' /\ ran'[Len(ran) + 1] = 0
    BY <1>1
  <1>4. \A y \in Item : InLine(y)' <=> InLine(y)
    BY <1>1, <1>2 DEF InLine, Items
  <1>5. OrderInv'
    BY <1>1, <1>2 DEF OrderInv
  <1>6. LineInv'
    <2> SUFFICES ASSUME NEW y \in Item, InLine(y)' PROVE Due(y)'
      BY DEF LineInv
    <2> QED
      BY <1>1, <1>3, <1>4, DueKept DEF LineInv
  <1>7. \A y \in Item : InLine(y)' => y.run # at'.run
    BY <1>1, <1>3, <1>4 DEF LineInv, Due
  <1>8. AtInv'
    BY <1>1, <1>3, <1>7 DEF AtInv
  <1> QED
    BY <1>3, <1>5, <1>6, <1>8

\* The queue is found empty.
LEMMA ProcessNothing == Sound /\ OrderInv /\ ProcessNext /\ queue = <<>> => OrderInv'
  <1> SUFFICES ASSUME Sound, OrderInv, ProcessNext, queue = <<>> PROVE OrderInv'
    OBVIOUS
  <1>1. /\ todo \in Seq(Calls) /\ todo # <<>> /\ todo[1].op = "process" /\ queue' = queue
    BY Called DEF ProcessNext, Sound
  <1>2. PICK c : Fits(c) /\ Then(c)
    BY RunFits DEF Run
  <1>3. c \in Seq(Calls) /\ \A i \in 1 .. Len(c) : c[i].op # "invoke" /\ c[i].op # "add"
    BY <1>1, <1>2 DEF Fits
  <1> QED
    BY <1>1, <1>2, <1>3, OrderThen

\* Calls without items that come in front, or none.
LEMMA WorkOrder ==
  ASSUME Sound, OrderInv, LineInv, AtInv, Work
  PROVE  OrderInv' /\ LineInv' /\ AtInv'
  <1>1. /\ todo = <<>> /\ UNCHANGED <<queue, ran, lost, at>> /\ todo' = <<Process, EndWork>>
        /\ Process.op = "process" /\ EndWork.op = "end-work"
    BY DEF Work, Idle, launch, history, Process, EndWork
  <1>2. DOMAIN todo' = {1, 2} /\ todo'[1].op = "process" /\ todo'[2].op = "end-work"
    BY <1>1
  <1>3. \A y \in Item : InLine(y)' <=> InLine(y)
    BY <1>1, <1>2 DEF InLine, Items
  <1>4. OrderInv'
    BY <1>1, <1>2 DEF OrderInv
  <1>5. ~Late
    BY <1>1 DEF Late, Has
  <1>6. AtInv'
    BY <1>1, <1>3, <1>5 DEF AtInv
  <1> QED
    BY <1>1, <1>3, <1>4, <1>6, LineKept

LEMMA TimerOrder ==
  ASSUME Sound, OrderInv, LineInv, AtInv, TimerInterrupt
  PROVE  OrderInv' /\ LineInv' /\ AtInv'
  <1>1. /\ Interposed(Exec, EndInterrupt) /\ UNCHANGED <<queue, ran, lost, at>>
        /\ timer /\ ~Interrupted /\ Exec.op = "exec" /\ EndInterrupt.op = "end-interrupt"
    BY Interposes, CallsMade
       DEF TimerInterrupt, Sound, Types, history, Exec, EndInterrupt
  <1>2. /\ \A i \in DOMAIN todo' : todo'[i].op \in Items =>
             i \in Nat /\ i - 2 \in DOMAIN todo /\ todo'[i] = todo[i - 2]
        /\ \A i \in DOMAIN todo : i + 2 \in DOMAIN todo' /\ todo'[i + 2] = todo[i]
    BY <1>1 DEF Interposed, Items
  <1>3. \A y \in Item : InLine(y)' <=> InLine(y)
    <2>1. ASSUME NEW y \in Item, InLine(y)' PROVE InLine(y)
      <3>1. CASE \E k \in DOMAIN queue' : queue'[k] = y
        BY <1>1, <3>1 DEF InLine
      <3>2. CASE \E i \in DOMAIN todo' : todo'[i].op \in Items /\ todo'[i].item = y
        BY <1>2, <3>2 DEF InLine
      <3> QED
        BY <2>1, <3>1, <3>2 DEF InLine
    <2>2. ASSUME NEW y \in Item, InLine(y) PROVE InLine(y)'
      <3>1. CASE \E k \in DOMAIN queue : queue[k] = y
        BY <1>1, <3>1 DEF InLine
      <3>2. CASE \E i \in DOMAIN todo : todo[i].op \in Items /\ todo[i].item = y
        BY <1>2, <3>2 DEF InLine
      <3> QED
        BY <2>2, <3>1, <3>2 DEF InLine
    <2> QED
      BY <2>1, <2>2
  <1>4. OrderInv'
    <2>1. ASSUME NEW i \in DOMAIN todo', NEW j \in DOMAIN todo',
                 todo'[i].op = "invoke", todo'[j].op = "add"
          PROVE  Before(todo'[i].item, todo'[j].item)
      <3>1. /\ i - 2 \in DOMAIN todo /\ todo'[i] = todo[i - 2]
            /\ j - 2 \in DOMAIN todo /\ todo'[j] = todo[j - 2]
        BY <1>2, <2>1 DEF Items
      <3> QED
        BY <2>1, <3>1 DEF OrderInv
    <2>2. ASSUME NEW i \in DOMAIN todo', NEW k \in DOMAIN queue, todo'[i].op \in Items
          PROVE  /\ todo'[i].op = "invoke" => Before(todo'[i].item, queue[k])
                 /\ todo'[i].op = "add" => Before(queue[k], todo'[i].item)
      <3>1. i - 2 \in DOMAIN todo /\ todo'[i] = todo[i - 2]
        BY <1>2, <2>2
      <3> QED
        BY <3>1 DEF OrderInv
    <2>3. ASSUME NEW i \in DOMAIN todo', NEW j \in DOMAIN todo', i < j,
                 todo'[i].op = "add", todo'[j].op = "add"
          PROVE  Before(todo'[i].item, todo'[j].item)
      <3>1. /\ i - 2 \in DOMAIN todo /\ todo'[i] = todo[i - 2] /\ i \in Nat
            /\ j - 2 \in DOMAIN todo /\ todo'[j] = todo[j - 2] /\ j \in Nat
        BY <1>2, <2>3 DEF Items
      <3>2. i - 2 < j - 2
        BY <2>3, <3>1
      <3> QED
        BY <2>3, <3>1, <3>2 DEF OrderInv
    <2>4. \A k, l \in DOMAIN queue : k < l => Before(queue[k], queue[l])
      BY DEF OrderInv
    <2> QED
      BY <1>1, <2>1, <2>2, <2>3, <2>4 DEF OrderInv, Items
  <1>5. ~Late
    BY <1>1 DEF Late, Has, Sound, ControlInv, Controls
  <1>6. AtInv'
    BY <1>1, <1>3, <1>5 DEF AtInv
  <1> QED
    BY <1>1, <1>3, <1>4, <1>6, LineKept

\* One step of the queue or of a macro, in the order of the items.
LEMMA OrderStep ==
  ASSUME Unmixed
  PROVE  Sound /\ LaunchInv /\ ThreadInv /\ OrderInv /\ LineInv /\ AtInv /\ [Next]_vars
           => OrderInv' /\ LineInv' /\ AtInv'
  <1> SUFFICES ASSUME Sound, LaunchInv, ThreadInv, OrderInv, LineInv, AtInv, [Next]_vars
               PROVE  OrderInv' /\ LineInv' /\ AtInv'
    OBVIOUS
  <1>1. CASE Run
    <2>1. CASE Put
      BY <2>1, PutOrder, PutLine
    <2>2. CASE ProcessNext
      BY <2>2, ProcessOrder, ProcessNothing, ProcessLine
    <2>3. CASE InvokeBinding
      BY <2>3, InvokeOrder
    <2>4. CASE Neutrally
      BY <2>4, NeutralOrder
    <2>5. CASE FeedStep
      BY <2>5, FeedOrder
    <2>6. CASE SendStringEnd
      BY <2>6, SendEndOrder
    <2> QED
      BY <1>1, <2>1, <2>2, <2>3, <2>4, <2>5, <2>6 DEF Run, Neutrally
  <1>2. CASE Work
    BY <1>2, WorkOrder
  <1>3. CASE CounterInterrupt \/ UNCHANGED vars
    <2>1. UNCHANGED <<queue, ran, lost, at, todo>>
      BY <1>3 DEF CounterInterrupt, vars, launch, history
    <2> QED
      BY <2>1 DEF OrderInv, LineInv, AtInv, Due, InLine, Late, Has
  <1>4. CASE TimerInterrupt
    BY <1>4, TimerOrder
  <1>5. CASE \E m \in DOMAIN setup.dts : MacroKey(m)
    BY <1>5, MacroKeyOrder
  <1>6. CASE \E m \in DOMAIN setup.launcher : SendMacro(m)
    BY <1>6, SendMacroOrder
  <1> QED
    BY <1>1, <1>2, <1>3, <1>4, <1>5, <1>6 DEF Next

LEMMA StepOrder ==
  ASSUME Unmixed, Sound, ThreadInv, OrderInv, LineInv, Next
  PROVE  \A r \in DOMAIN ran :
           ran'[r] = ran[r] \/ ran'[r] = ran[r] + 1 \/ (lost /\ ran'[r] > ran[r])
  <1>1. CASE InvokeBinding
    <2>1. /\ todo[1].item.run \in DOMAIN ran
          /\ \/ todo[1].item.step = ran[todo[1].item.run] + 1
             \/ lost /\ todo[1].item.step > ran[todo[1].item.run]
      BY <1>1, InvokeNext
    <2>2. \A r \in DOMAIN ran :
            ran'[r] = IF r = todo[1].item.run THEN todo[1].item.step ELSE ran[r]
      BY <1>1, <2>1, InvokeFacts
    <2> QED
      BY <2>1, <2>2
  <1>2. CASE \E m \in DOMAIN setup.dts : MacroKey(m)
    BY <1>2, MacroKeyOrder
  <1>3. CASE \E m \in DOMAIN setup.launcher : SendMacro(m)
    BY <1>3, SendMacroOrder
  <1>4. CASE (Run /\ ~InvokeBinding) \/ Work \/ CounterInterrupt \/ TimerInterrupt
    <2>1. ran' = ran
      BY <1>4 DEF Run, Put, CheckReady, ProcessNext, StartWait, CounterStarted, SetFlags,
           WorkDone, MacroExec, MacroStep, FeedStep, SendStringEnd, MacroDone, InterruptDone,
           Work, CounterInterrupt, TimerInterrupt, history
    <2> QED
      BY <2>1
  <1> QED
    BY <1>1, <1>2, <1>3, <1>4 DEF Next

\* On a keyboard whose macros are of one kind, the steps of every macro run in order, each
\* once, whichever macros interrupt it and however full the queue is; a step is skipped only
\* after the queue was full (behavior_queue.c, dynamic_keymap.c, send_string.c).
THEOREM RunsInOrder ==
  ASSUME Unmixed
  PROVE  Spec => StepsInOrder
  <1> DEFINE Inv == LaunchInv /\ ThreadInv /\ OrderInv /\ LineInv /\ AtInv
             InOrder == \A r \in DOMAIN ran :
               ran'[r] = ran[r] \/ ran'[r] = ran[r] + 1 \/ (lost /\ ran'[r] > ran[r])
  <1>1. Init => Inv
    <2>1. Init => todo = <<>> /\ queue = <<>> /\ at = None
      BY DEF Init
    <2>2. Init => \A i \in DOMAIN todo : FALSE
      BY <2>1
    <2>3. Init => \A i \in DOMAIN queue : FALSE
      BY <2>1
    <2> QED
      BY <2>1, <2>2, <2>3 DEF LaunchInv, ThreadInv, OrderInv, LineInv, AtInv, InLine, Has
  <1>2. Sound /\ Inv /\ [Next]_vars => Inv'
    BY LaunchStep, ThreadStep, OrderStep
  <1>3. Sound /\ Inv /\ [Next]_vars => [InOrder]_vars
    BY StepOrder
  <1>4. StepsInOrder <=> [][InOrder]_vars
    BY DEF StepsInOrder
  <1> HIDE DEF Inv, InOrder
  <1> QED
    BY <1>1, <1>2, <1>3, <1>4, OneMacro, PTL DEF Spec
=============================================================================
