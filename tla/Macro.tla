-------------------------------- MODULE Macro -------------------------------
(***************************************************************************)
(* The behavior queue and what fills it: the macros of the keymap          *)
(* (behavior_macro.c) and those of the launcher (dynamic_keymap_macro_send *)
(* and macro_exec in dynamic_keymap.c, the one-item lookahead of           *)
(* send_string.c). behavior_queue.c runs one step after another, each      *)
(* followed by its wait: a hardware counter, or none.                      *)
(*                                                                         *)
(* `todo` holds the calls still to be made, innermost first; a step is one *)
(* call. Key events and the work item start when it is empty: they share   *)
(* the system work queue. The interrupts of the counter and of the macro's *)
(* timer put their calls in front of those of the thread they preempt, and *)
(* do not preempt each other.                                              *)
(***************************************************************************)
EXTENDS Integers, Sequences, FiniteSets, SequencesExt

CONSTANTS
  None,
  Setups,     \* keyboards: bindings of the keymap's macros (dts), steps of the
              \* launcher's (launcher), whether its taps wait (wait)
  QueueSize,  \* CONFIG_ZMK_BEHAVIORS_QUEUE_SIZE
  MaxNum,     \* max_num: steps macro_exec takes at a time, items it leaves queued
  MaxKeys     \* bound: macro keys pressed and released

Mode == {"tap", "press", "release"}
Kind == Mode \cup {"tap-time", "wait-time", "pause", "key"}
Binding == [kind : Kind, wait : {0, 1}, key : STRING]
Code == {"tap", "down", "up", "delay", "bad"}
Step == [code : Code, key : STRING]
Launched == UNION {DOMAIN s.launcher : s \in Setups}

ASSUME MacroAssumption ==
  /\ QueueSize \in Nat \ {0} /\ MaxNum \in Nat \ {0}
  /\ MaxKeys \in Nat
  /\ None \notin [macro : Launched, next : Nat, run : Nat, step : Nat]
  /\ \A s \in Setups :
       /\ s.wait \in {0, 1}
       /\ \A m \in DOMAIN s.dts :
            s.dts[m] \in [bindings : Seq(Binding), tap : {0, 1}, wait : {0, 1}]
       /\ \A m \in DOMAIN s.launcher : s.launcher[m] \in Seq(Step) \ {<<>>}

VARIABLES
  setup,           \* the keyboard
  keys,            \* macro keys pressed and released so far
  down,            \* macro keys that are down
  queue,           \* zmk_behavior_queue_msgq
  counting,        \* the counter runs
  counterRunning,  \* counter_running
  work,            \* queue_work: its flags, among "queued" and "running"
  start, end,      \* macro_exec_start, macro_exec_end
  running,         \* macro_running
  dlps,            \* macro_enabled_dlps: the chip may sleep
  encrypted,       \* use_aes_enc
  at,              \* p_macro: the launcher macro and its next step, or None
  ahead,           \* zmk_macro_queue_msgq
  timer,           \* macro_timer is running
  todo,            \* calls still to be made
  held,            \* bindings that are pressed
  ran,             \* history: for each macro half so far, how many of its steps were run
  lost,            \* history: a step found the queue full
  failed           \* history: a launcher macro was malformed

launch == <<start, end, running, encrypted, at, ahead, timer>>
device == <<counting, counterRunning, work, dlps>>
history == <<ran, lost, failed>>
env == <<setup, keys, down>>
vars == <<setup, keys, down, queue, counting, counterRunning, work, start, end, running,
          dlps, encrypted, at, ahead, timer, todo, held, ran, lost, failed>>

Init ==
  /\ setup \in Setups
  /\ keys = 0 /\ down = {}
  /\ queue = <<>> /\ counting = FALSE /\ counterRunning = FALSE /\ work = {}
  /\ start = FALSE /\ end = FALSE /\ running = FALSE /\ dlps = TRUE /\ encrypted = TRUE
  /\ at = None /\ ahead = <<>> /\ timer = FALSE
  /\ todo = <<>> /\ held = {}
  /\ ran = <<>> /\ lost = FALSE /\ failed = FALSE

\* Calls
Add(item) == [op |-> "add", item |-> item]
Check == [op |-> "check"]
Process == [op |-> "process"]
Invoke(item) == [op |-> "invoke", item |-> item]
Wait(w) == [op |-> "wait", wait |-> w]
Started == [op |-> "started"]
Flags == [op |-> "flags"]
EndWork == [op |-> "end-work"]
EndInterrupt == [op |-> "end-interrupt"]
Exec == [op |-> "exec"]
ExecStep(count) == [op |-> "exec-step", count |-> count]
Feed(step) == [op |-> "feed", step |-> step]
SendEnd == [op |-> "send-end"]
Done == [op |-> "done"]

Idle == todo = <<>>
Calling(op) == todo # <<>> /\ Head(todo).op = op
Call == Head(todo)
Then(calls) == todo' = calls \o Tail(todo)
Interrupted == \E i \in DOMAIN todo : todo[i] = EndInterrupt
-----------------------------------------------------------------------------
(* behavior_macro.c *)

\* handle_control_binding, and queue_macro's loop: each binding changes the mode or
\* a time, or adds the steps the mode asks for. A step is followed by its wait.
Trigger(mode, tap, wait) == [mode |-> mode, tap |-> tap, wait |-> wait, items |-> <<>>]

AddBinding(t, b) ==
  LET item(press, wait) == [bind |-> b.key, press |-> press, wait |-> wait]
  IN CASE b.kind \in Mode -> [t EXCEPT !.mode = b.kind]
       [] b.kind = "tap-time" -> [t EXCEPT !.tap = b.wait]
       [] b.kind = "wait-time" -> [t EXCEPT !.wait = b.wait]
       [] b.kind = "pause" -> t
       [] OTHER ->
            [t EXCEPT !.items = @ \o
               CASE t.mode = "tap" -> <<item(TRUE, t.tap), item(FALSE, t.wait)>>
                 [] t.mode = "press" -> <<item(TRUE, t.wait)>>
                 [] t.mode = "release" -> <<item(FALSE, t.wait)>>]

Through(trigger, bindings) ==
  LET after[n \in 0 .. Len(bindings)] ==
        IF n = 0 THEN trigger ELSE AddBinding(after[n - 1], bindings[n])
  IN after[Len(bindings)]

\* behavior_macro_init: press_bindings_count, release_state. What is set before the
\* pause holds for the release; what is not starts from zero, not from the default.
PauseAt(bindings) ==
  LET i == SelectInSeq(bindings, LAMBDA b : b.kind = "pause")
  IN IF i = 0 THEN Len(bindings) + 1 ELSE i
BeforePause(bindings) == SubSeq(bindings, 1, PauseAt(bindings) - 1)
AfterPause(bindings) == SubSeq(bindings, PauseAt(bindings) + 1, Len(bindings))

PressItems(m) ==
  Through(Trigger("tap", m.tap, m.wait), BeforePause(m.bindings)).items
ReleaseItems(m) ==
  LET atPause == Through(Trigger("tap", 0, 0), BeforePause(m.bindings))
  IN Through([atPause EXCEPT !.items = <<>>], AfterPause(m.bindings)).items

\* queue_macro: one half of a macro goes to the queue.
Half(m, press) == IF press THEN PressItems(setup.dts[m]) ELSE ReleaseItems(setup.dts[m])
Adds(items) ==
  [i \in DOMAIN items |->
     Add([bind |-> items[i].bind, press |-> items[i].press, wait |-> items[i].wait,
          run |-> Len(ran) + 1, step |-> i])]
-----------------------------------------------------------------------------
(* behavior_queue.c *)

\* zmk_behavior_queue_add: nobody looks at the error of a full queue.
Put ==
  /\ Calling("add")
  /\ IF Len(queue) = QueueSize
     THEN lost' = TRUE /\ Then(<<>>) /\ UNCHANGED queue
     ELSE queue' = Append(queue, Call.item) /\ Then(<<Check>>) /\ UNCHANGED lost
  /\ UNCHANGED <<env, device, launch, held, ran, failed>>

\* Mutant: it waits for the counter only.
ReadyCounter == ~counterRunning

\* k_work_delayable_is_pending is true of a handler that runs as well.
Ready == ~counterRunning /\ work = {}

CheckReady ==
  /\ Calling("check")
  /\ Then(IF Ready THEN <<Process>> ELSE <<>>)
  /\ UNCHANGED <<env, queue, device, launch, held, history>>

\* behavior_queue_process_next
ProcessNext ==
  /\ Calling("process")
  /\ IF queue = <<>>
     THEN Then(<<Flags>>) /\ UNCHANGED queue
     ELSE /\ queue' = Tail(queue)
          /\ Then(<<Invoke(Head(queue)), Wait(Head(queue).wait), Flags>>)
  /\ UNCHANGED <<env, device, launch, held, history>>

\* behavior_keymap_binding_pressed or released; the binding may be a macro.
InvokeBinding ==
  /\ Calling("invoke")
  /\ LET item == Call.item
     IN /\ IF item.bind \in DOMAIN setup.dts
           THEN /\ ran' = Append([ran EXCEPT ![item.run] = item.step], 0)
                /\ Then(Adds(Half(item.bind, item.press)))
                /\ UNCHANGED held
           ELSE /\ ran' = [ran EXCEPT ![item.run] = item.step]
                /\ held' = IF item.press THEN held \cup {item.bind} ELSE held \ {item.bind}
                /\ Then(<<>>)
  /\ UNCHANGED <<env, queue, device, launch, lost, failed>>

\* The wait after a step: k_work_schedule, or rtk_counter_start.
StartWait ==
  /\ Calling("wait")
  /\ IF Call.wait = 0
     THEN work' = work \cup {"queued"} /\ Then(<<>>) /\ UNCHANGED counting
     ELSE counting' = TRUE /\ Then(<<Started>>) /\ UNCHANGED work
  /\ UNCHANGED <<env, queue, counterRunning, dlps, launch, held, history>>

\* Mutant: the chip may sleep while the counter runs.
CounterSleeps ==
  /\ Calling("started")
  /\ counterRunning' = TRUE
  /\ Then(<<>>)
  /\ UNCHANGED <<env, queue, counting, work, dlps, launch, held, history>>

\* rtk_counter_start
CounterStarted ==
  /\ Calling("started")
  /\ counterRunning' = TRUE /\ dlps' = FALSE
  /\ Then(<<>>)
  /\ UNCHANGED <<env, queue, counting, work, launch, held, history>>

\* The end of behavior_queue_process_next, ppt_macro_end
SetFlags ==
  /\ Calling("flags")
  /\ Then(<<>>)
  /\ IF queue # <<>>
     THEN /\ dlps' = (dlps /\ ~start) /\ running' = (running \/ start)
          /\ UNCHANGED <<counting, counterRunning, start, end, encrypted>>
     ELSE IF end
     THEN /\ running' = FALSE /\ start' = FALSE /\ end' = FALSE /\ encrypted' = TRUE
          /\ counting' = FALSE /\ counterRunning' = FALSE /\ dlps' = TRUE
     ELSE UNCHANGED <<dlps, running, counting, counterRunning, start, end, encrypted>>
  /\ UNCHANGED <<env, queue, work, at, ahead, timer, held, history>>

\* queue_work runs.
Work ==
  /\ Idle /\ "queued" \in work
  /\ work' = {"running"}
  /\ todo' = <<Process, EndWork>>
  /\ UNCHANGED <<env, queue, counting, counterRunning, dlps, launch, held, history>>

WorkDone ==
  /\ Calling("end-work")
  /\ work' = work \ {"running"}
  /\ Then(<<>>)
  /\ UNCHANGED <<env, queue, counting, counterRunning, dlps, launch, held, history>>

\* Mutant: it stops the counter and leaves it at that.
CounterOnly ==
  /\ counting /\ ~Interrupted /\ ~Calling("started")
  /\ counterRunning' = FALSE /\ counting' = FALSE
  /\ UNCHANGED <<env, queue, work, dlps, launch, todo, held, history>>

\* counter_interrupt_fn, at a time of its own; never between counter_start and the
\* assignments behind it, which take less than any wait. The counter goes on, and
\* interrupts again, when the work is pending.
CounterInterrupt ==
  /\ counting /\ ~Interrupted /\ ~Calling("started")
  /\ counterRunning' = FALSE
  /\ IF work = {}
     THEN work' = {"queued"} /\ counting' = FALSE /\ dlps' = TRUE
     ELSE UNCHANGED <<work, counting, dlps>>
  /\ UNCHANGED <<env, queue, launch, todo, held, history>>
-----------------------------------------------------------------------------
(* The launcher's macros: dynamic_keymap.c, send_string.c *)

Steps == setup.launcher[at.macro]

\* dynamic_keymap_macro_send, ppt_macro_start: one launcher macro at a time.
SendMacro(m) ==
  /\ Idle /\ at = None /\ keys < MaxKeys
  /\ keys' = keys + 1 /\ ran' = Append(ran, 0)
  /\ at' = [macro |-> m, next |-> 1, run |-> Len(ran) + 1, step |-> 0]
  /\ dlps' = FALSE /\ start' = TRUE /\ end' = FALSE /\ encrypted' = FALSE
  /\ todo' = <<Exec>>
  /\ UNCHANGED <<setup, down, queue, counting, counterRunning, work, running, ahead, timer,
                 held, lost, failed>>

\* macro_exec: it comes back later while the queue or the radio has enough to do.
MacroExec ==
  /\ Calling("exec")
  /\ \/ /\ timer' = TRUE /\ Then(<<>>)
     \/ /\ Len(queue) <= MaxNum
        /\ Then(<<ExecStep(0)>>)
        /\ UNCHANGED timer
  /\ UNCHANGED <<env, queue, device, start, end, running, encrypted, at, ahead, held, history>>

\* One round of its loop: the next step, a malformed one, the end of the macro, or
\* enough for this time.
MacroStep ==
  /\ Calling("exec-step")
  /\ IF Call.count = MaxNum
     THEN timer' = TRUE /\ Then(<<>>) /\ UNCHANGED <<at, dlps, failed>>
     ELSE IF at.next > Len(Steps)
     THEN Then(<<SendEnd, Done>>) /\ UNCHANGED <<timer, at, dlps, failed>>
     ELSE IF Steps[at.next].code = "bad"
     THEN /\ at' = None /\ dlps' = TRUE /\ failed' = TRUE
          /\ Then(<<>>) /\ UNCHANGED timer
     ELSE /\ at' = [at EXCEPT !.next = @ + 1]
          /\ Then(<<Feed(Steps[at.next]), ExecStep(Call.count + 1)>>)
          /\ UNCHANGED <<timer, dlps, failed>>
  /\ UNCHANGED <<env, queue, counting, counterRunning, work, start, end, running, encrypted,
                 ahead, held, ran, lost>>

\* The items of one step, the last of which waits for the delay that follows it.
ItemsOf(s, wait) ==
  LET item(press, w, n) ==
        Add([bind |-> s.key, press |-> press, wait |-> w, run |-> at.run, step |-> at.step + n])
  IN CASE s.code = "tap" -> <<item(TRUE, setup.wait, 1), item(FALSE, wait, 2)>>
       [] s.code = "down" -> <<item(TRUE, wait, 1)>>
       [] s.code = "up" -> <<item(FALSE, wait, 1)>>
       [] OTHER -> <<>>

\* zmk_macro_queue_add: a step is sent when the one behind it is known.
FeedStep ==
  /\ Calling("feed")
  /\ LET s == Call.step
         delayed == s.code = "delay"
         items == ItemsOf(Head(ahead), IF delayed THEN 1 ELSE setup.wait)
     IN IF ahead = <<>>
        THEN ahead' = <<s>> /\ Then(<<>>) /\ UNCHANGED at
        ELSE /\ ahead' = IF delayed THEN <<>> ELSE <<s>>
             /\ at' = [at EXCEPT !.step = @ + Len(items)]
             /\ Then(items)
  /\ UNCHANGED <<env, queue, device, start, end, running, encrypted, timer, held, history>>

\* Mutant: the last step is forgotten.
NoSendEnd ==
  /\ Calling("send-end")
  /\ Then(<<>>)
  /\ UNCHANGED <<env, queue, device, launch, held, history>>

\* send_string_end: the step that waits for another is the last one.
SendStringEnd ==
  /\ Calling("send-end")
  /\ ahead' = <<>>
  /\ Then(IF ahead = <<>> THEN <<>> ELSE ItemsOf(Head(ahead), setup.wait))
  /\ UNCHANGED <<env, queue, device, start, end, running, encrypted, at, timer, held, history>>

\* Mutant: the end is not announced.
NoEnd ==
  /\ Calling("done")
  /\ start' = FALSE /\ at' = None
  /\ Then(<<>>)
  /\ UNCHANGED <<env, queue, device, end, running, encrypted, ahead, timer, held, history>>

\* macro_exec at the end of the macro
MacroDone ==
  /\ Calling("done")
  /\ start' = FALSE /\ end' = TRUE /\ at' = None
  /\ Then(<<>>)
  /\ UNCHANGED <<env, queue, device, running, encrypted, ahead, timer, held, history>>

\* macro_timer_expiry, in an interrupt
TimerInterrupt ==
  /\ timer /\ ~Interrupted
  /\ timer' = FALSE
  /\ todo' = <<Exec, EndInterrupt>> \o todo
  /\ UNCHANGED <<env, queue, device, start, end, running, encrypted, at, ahead, held, history>>

InterruptDone ==
  /\ Calling("end-interrupt")
  /\ Then(<<>>)
  /\ UNCHANGED <<env, queue, device, launch, held, history>>
-----------------------------------------------------------------------------
\* on_macro_binding_pressed, on_macro_binding_released
MacroKey(m) ==
  /\ Idle /\ keys < MaxKeys
  /\ keys' = keys + 1 /\ ran' = Append(ran, 0)
  /\ down' = IF m \in down THEN down \ {m} ELSE down \cup {m}
  /\ todo' = Adds(Half(m, m \notin down))
  /\ UNCHANGED <<setup, queue, device, launch, held, lost, failed>>

Run ==
  \/ Put \/ CheckReady \/ ProcessNext \/ InvokeBinding \/ StartWait \/ CounterStarted
  \/ SetFlags \/ WorkDone \/ MacroExec \/ MacroStep \/ FeedStep \/ SendStringEnd
  \/ MacroDone \/ InterruptDone

Next ==
  \/ Run \/ Work \/ CounterInterrupt \/ TimerInterrupt
  \/ \E m \in DOMAIN setup.dts : MacroKey(m)
  \/ \E m \in DOMAIN setup.launcher : SendMacro(m)

\* The processor goes on, with the thread too: between two interrupts of the macro's
\* timer there is time for it. A counter and a timer expire, work that is queued runs.
Fairness ==
  /\ WF_vars(Run) /\ SF_vars(Run /\ ~Interrupted)
  /\ SF_vars(Work) /\ SF_vars(CounterInterrupt) /\ SF_vars(TimerInterrupt)

Spec == Init /\ [][Next]_vars /\ Fairness
-----------------------------------------------------------------------------
Item == [bind : STRING, press : BOOLEAN, wait : {0, 1}, run : Nat \ {0}, step : Nat \ {0}]

TypeOK ==
  /\ setup \in Setups
  /\ keys \in 0 .. MaxKeys
  /\ down \subseteq DOMAIN setup.dts
  /\ queue \in Seq(Item) /\ Len(queue) <= QueueSize
  /\ counting \in BOOLEAN /\ counterRunning \in BOOLEAN /\ dlps \in BOOLEAN
  /\ start \in BOOLEAN /\ end \in BOOLEAN /\ running \in BOOLEAN /\ encrypted \in BOOLEAN
  /\ timer \in BOOLEAN /\ lost \in BOOLEAN /\ failed \in BOOLEAN
  /\ work \subseteq {"queued", "running"}
  /\ at # None => at.macro \in DOMAIN setup.launcher /\ at.next \in 1 .. Len(Steps) + 1
  /\ ahead \in Seq(Step) /\ Len(ahead) <= 1
  /\ ran \in Seq(Nat)

\* Nothing is left to do.
Rest ==
  Idle /\ queue = <<>> /\ ~counting /\ work = {} /\ at = None /\ down = {}

\* The steps of a macro run in its order, each once, whatever interrupts them and
\* whichever macros are mixed with it; a step is left out only by a full queue.
StepsInOrder ==
  [][\A r \in DOMAIN ran :
       ran'[r] = ran[r] \/ ran'[r] = ran[r] + 1 \/ (lost /\ ran'[r] > ran[r])]_vars

\* A macro that presses and releases leaves nothing pressed.
Balanced == Rest /\ ~lost /\ ~failed => held = {}

\* The types, and that.
MacroSound == TypeOK /\ Balanced

\* No step of the keymap's macros is left behind in the queue: somebody always comes
\* back for it. (An interrupt of a launcher macro may add one to an empty queue while
\* the work item is about to end, which looks pending: nobody does, then.)
QueueDrains == DOMAIN setup.launcher = {} => []<>(queue = <<>>)

\* The chip stays awake while the counter is to wake it.
AwakeToCount == counting /\ Idle /\ ~failed => ~dlps

\* When a launcher macro is over, reports are encrypted again and releases count
\* again as they should.
Restored == Rest /\ ~failed => encrypted /\ ~running
=============================================================================
