-------------------------------- MODULE Combo -------------------------------
(***************************************************************************)
(* Combos, app/src/combo.c: keys pressed together run a binding of their   *)
(* own. A press that may begin a combo is captured; it is released to the  *)
(* rest of the keyboard when no candidate is left, and the presses after   *)
(* it are raised anew, for each may begin another combo.                   *)
(*                                                                         *)
(* `todo` holds the calls still to be made, innermost first; a step is one *)
(* call, and input and the timer wait until it is empty: all of this runs  *)
(* on the system work queue. release_pressed_keys reads the array while    *)
(* nested calls fill it again from the front; they never reach the entry   *)
(* being read, so the events to raise are taken at once.                   *)
(***************************************************************************)
EXTENDS Integers, Sequences, FiniteSets, SequencesExt

CONSTANTS
  Key,         \* key positions
  Letter,      \* those whose keycode is no modifier
  LayerKey,    \* those that turn layer 1 on while the keymap sees them pressed
  Combo,       \* the combos
  Conf,        \* combo_cfg of each
  None,
  MaxPressed,  \* CONFIG_ZMK_COMBO_MAX_PRESSED_COMBOS
  MaxPerKey,   \* CONFIG_ZMK_COMBO_MAX_COMBOS_PER_KEY
  Late,        \* the work queue can be busy when the timer expires
  MaxEvents,   \* bound: key events
  MaxOthers,   \* bound: what other behaviors do
  MaxTime      \* bound: the clock

\* virtual is the order among combos of the same length; layers {} are all layers.
Config ==
  [keys : SUBSET Key, timeout : Nat \ {0}, idle : Int, slow : BOOLEAN,
   layers : SUBSET {0, 1}, virtual : Nat]

\* initialize_combo: the lookup of a key has room for its combos.
Lookup(k) == {c \in Combo : k \in Conf[c].keys}

ASSUME ComboAssumption ==
  /\ None \notin Combo /\ IsFiniteSet(Key)
  /\ MaxPressed \in Nat \ {0} /\ MaxPerKey \in Nat
  /\ Late \in BOOLEAN
  /\ MaxEvents \in Nat /\ MaxOthers \in Nat /\ MaxTime \in Nat \ {0}
  /\ Letter \subseteq Key /\ LayerKey \subseteq Key
  /\ Conf \in [Combo -> Config]
  /\ \A c, d \in Combo : Conf[c].virtual = Conf[d].virtual => c = d
  /\ \A c \in Combo : Conf[c].keys # {} /\ Cardinality(Conf[c].keys) < MaxPerKey
  /\ \A k \in Key : Cardinality(Lookup(k)) <= MaxPerKey

VARIABLES
  now,         \* k_uptime_get()
  events,      \* key events so far
  others,      \* doings of other behaviors so far
  down,        \* keys that are down
  pressed,     \* pressed_keys: the captured presses
  candidates,  \* for each candidate, its timeout_at
  full,        \* fully_pressed_combo
  active,      \* active_combos
  task,        \* when timeout_task is due, or Never
  taskAt,      \* timeout_task_timeout_at
  lastTapped,  \* last_tapped_timestamp
  lastCombo,   \* last_combo_timestamp
  todo,        \* calls still to be made
  passed,      \* keys the keymap sees pressed
  layer,       \* zmk_keymap_highest_layer_active()
  on,          \* combos whose binding is pressed
  scope,       \* history: the combos that applied when pressed_keys got its first key
  disturbed    \* history: since then, others changed the layer or tapped a letter

input == <<now, events, others, down>>
listener == <<pressed, candidates, full, active, task, taskAt, lastTapped, lastCombo>>
keymap == <<passed, layer, on>>
history == <<scope, disturbed>>
vars == <<now, events, others, down, pressed, candidates, full, active, task, taskAt, lastTapped,
          lastCombo, todo, passed, layer, on, scope, disturbed>>

\* LONG_MAX, 32 bits wide on the keyboard: some 24 days, and not LLONG_MAX.
LongMax == 1000
LLongMax == 2000
Never == 3000
LongAgo == 0 - 1000
Nobody == <<>>

Init ==
  /\ now = 1 /\ events = 0 /\ others = 0 /\ down = {}
  /\ pressed = <<>> /\ candidates = Nobody /\ full = None /\ active = <<>>
  /\ task = Never /\ taskAt = 0
  /\ lastTapped = LongAgo /\ lastCombo = LongAgo
  /\ todo = <<>>
  /\ passed = {} /\ layer = 0 /\ on = {}
  /\ scope = {} /\ disturbed = FALSE

Quiet == todo = <<>>
Size(c) == Cardinality(Conf[c].keys)

\* Calls. `then` is the release that waits for a cleanup to end.
Raise(e) == [op |-> "raise", event |-> e]
Pass(e) == [op |-> "pass", event |-> e]
Cleanup(then) == [op |-> "cleanup", then |-> then]
Flush(then) == [op |-> "flush", then |-> then]
KeyUp(e, n) == [op |-> "key-up", event |-> e, released |-> n]
Forget == [op |-> "forget"]
Update == [op |-> "update"]

NoEvent == <<>>
Calling(op) == todo # <<>> /\ Head(todo).op = op
Call == Head(todo)
Then(calls) == todo' = calls \o Tail(todo)
-----------------------------------------------------------------------------
\* combo_active_on_layer, is_quick_tap
ActiveOnLayer(c) == Conf[c].layers = {} \/ layer \in Conf[c].layers
IsQuickTap(c, time) == lastTapped + Conf[c].idle > time

\* Mutant: the layer is not looked at.
AnyLayer(e) ==
  [c \in {d \in Lookup(e.key) : ~IsQuickTap(d, e.time)} |-> e.time + Conf[c].timeout]

\* setup_candidates_for_first_keypress
FirstCandidates(e) ==
  [c \in {d \in Lookup(e.key) : ActiveOnLayer(d) /\ ~IsQuickTap(d, e.time)} |->
     e.time + Conf[c].timeout]

\* filter_timed_out_candidates, filter_candidates
Keep(S) == [c \in DOMAIN candidates \cap S |-> candidates[c]]
Unexpired(time) == {c \in DOMAIN candidates : candidates[c] > time}

\* candidates[0]: the shortest, then the lowest virtual position.
Foremost(S) ==
  CHOOSE c \in S : \A d \in S :
    \/ Size(c) < Size(d)
    \/ Size(c) = Size(d) /\ Conf[c].virtual <= Conf[d].virtual

\* first_candidate_timeout
FirstTimeout(live) ==
  CHOOSE t \in {live[c] : c \in DOMAIN live} \cup {LongMax} :
    \A c \in DOMAIN live : t <= live[c]

\* update_timeout_task. k_work_schedule leaves work that is scheduled alone.
UpdateTimeoutTask(live) ==
  LET first == FirstTimeout(live)
  IN IF taskAt = first THEN UNCHANGED <<task, taskAt>>
     ELSE IF first = LLongMax
     THEN task' = Never /\ taskAt' = 0
     ELSE /\ task' = IF task # Never THEN task ELSE IF first > now THEN first ELSE now
          /\ taskAt' = first
-----------------------------------------------------------------------------
\* position_state_down of a press that begins no combo
Bubble ==
  /\ Calling("raise") /\ Call.event.down
  /\ candidates = Nobody
  /\ DOMAIN FirstCandidates(Call.event) = {}
  /\ Then(<<Pass(Call.event)>>)
  /\ UNCHANGED <<input, listener, keymap, history>>

\* position_state_down, capture_pressed_key
Capture ==
  /\ Calling("raise") /\ Call.event.down
  /\ LET e == Call.event
         live == IF candidates = Nobody THEN FirstCandidates(e)
                 ELSE Keep(Unexpired(e.time) \cap Lookup(e.key))
         S == DOMAIN live
         fits == Len(pressed) # MaxPerKey
         complete == S # {} /\ Size(Foremost(S)) = Len(pressed')
         settled == S = {} \/ (Cardinality(S) = 1 /\ complete)
     IN /\ candidates # Nobody \/ S # {}
        /\ candidates' = live
        /\ UpdateTimeoutTask(live)
        /\ pressed' = IF fits THEN Append(pressed, e) ELSE pressed
        /\ full' = IF complete THEN Foremost(S) ELSE full
        /\ Then((IF settled THEN <<Cleanup(NoEvent)>> ELSE <<>>)
                \o (IF fits THEN <<>> ELSE <<Pass(e)>>))
        /\ IF pressed = <<>>
           THEN /\ scope' = {c \in Combo : ActiveOnLayer(c) /\ ~IsQuickTap(c, e.time)}
                /\ disturbed' = FALSE
           ELSE UNCHANGED history
  /\ UNCHANGED <<input, active, lastTapped, lastCombo, keymap>>

\* Mutant: a release does not flush the captured presses.
NoCleanup(e) == <<KeyUp(e, 0)>>

\* A release first cleans up.
OnUp(e) == <<Cleanup(e)>>

\* position_state_up
LetGo ==
  /\ Calling("raise") /\ ~Call.event.down
  /\ Then(OnUp(Call.event))
  /\ UNCHANGED <<input, listener, keymap, history>>

\* cleanup, activate_combo: the combo takes its keys, if there is room for it.
CleanUp ==
  /\ Calling("cleanup")
  /\ task' = Never
  /\ candidates' = Nobody
  /\ LET n == IF Len(pressed) < Size(full) THEN Len(pressed) ELSE Size(full)
     IN IF full = None
        THEN /\ Then(<<Flush(Call.then)>>)
             /\ UNCHANGED <<pressed, full, active, lastCombo, on>>
        ELSE IF Len(active) = MaxPressed
        THEN /\ Then(<<Flush(NoEvent), Forget, Flush(Call.then)>>)
             /\ UNCHANGED <<pressed, full, active, lastCombo, on>>
        ELSE /\ active' = Append(active, [combo |-> full,
                                          keys |-> {pressed[i].key : i \in 1 .. n}])
             /\ pressed' = SubSeq(pressed, n + 1, Len(pressed))
             /\ lastCombo' = pressed[1].time
             /\ on' = on \cup {full}
             /\ full' = None
             /\ Then(<<Flush(Call.then)>>)
  /\ UNCHANGED <<input, taskAt, lastTapped, passed, layer, history>>

\* cleanup after activate_combo failed
ForgetFull ==
  /\ Calling("forget")
  /\ full' = None
  /\ Then(<<>>)
  /\ UNCHANGED <<input, pressed, candidates, active, task, taskAt, lastTapped, lastCombo, keymap,
                 history>>

\* Mutant: the first press is raised anew as well.
AllAnew(i) == Raise(pressed[i])

\* The first captured press goes on, the others are raised anew.
Anew(i) == IF i = 1 THEN Pass(pressed[i]) ELSE Raise(pressed[i])

\* release_pressed_keys
ReleasePressedKeys ==
  /\ Calling("flush")
  /\ pressed' = <<>>
  /\ Then([i \in 1 .. Len(pressed) |-> Anew(i)]
          \o (IF Call.then = NoEvent THEN <<>> ELSE <<KeyUp(Call.then, Len(pressed))>>))
  /\ UNCHANGED <<input, candidates, full, active, task, taskAt, lastTapped, lastCombo, keymap,
                 history>>

\* deactivate_combo: the last one takes the place of the one that ends.
Without(i) ==
  SubSeq([active EXCEPT ![i] = active[Len(active)]], 1, Len(active) - 1)

\* Mutant: the release goes on at once.
UpAtOnce(e, n) == Pass(e)

\* After presses were raised anew, so is the release, to stay behind them.
UpBehind(e, n) == IF n > 1 THEN Raise(e) ELSE Pass(e)

\* The active combo that k is a key of, or 0: release_combo_key looks for it.
Taker(k) == SelectInSeq(active, LAMBDA a : k \in a.keys)

\* release_combo_key, and the end of position_state_up
ReleaseKey ==
  /\ Calling("key-up")
  /\ LET e == Call.event
         i == Taker(e.key)
         c == active[i].combo
         left == active[i].keys \ {e.key}
         ends == IF Conf[c].slow THEN left = {} ELSE active[i].keys = Conf[c].keys
     IN IF i # 0
        THEN /\ active' = IF left = {} THEN Without(i) ELSE [active EXCEPT ![i].keys = left]
             /\ on' = IF ends THEN on \ {c} ELSE on
             /\ Then(<<>>)
        ELSE /\ Then(<<UpBehind(e, Call.released)>>)
             /\ UNCHANGED <<active, on>>
  /\ UNCHANGED <<input, pressed, candidates, full, task, taskAt, lastTapped, lastCombo, passed,
                 layer, history>>

\* The keymap gets the event; the keycode it raises comes back to
\* keycode_state_changed_listener: store_last_tapped.
Deliver ==
  /\ Calling("pass")
  /\ LET e == Call.event
     IN /\ passed' = IF e.down THEN passed \cup {e.key} ELSE passed \ {e.key}
        /\ layer' = IF e.key \in LayerKey
                    THEN (IF passed' \cap LayerKey # {} THEN 1 ELSE 0)
                    ELSE layer
        /\ lastTapped' = IF e.down /\ e.key \in Letter /\ e.time > lastCombo THEN e.time
                         ELSE lastTapped
  /\ Then(<<>>)
  /\ UNCHANGED <<input, pressed, candidates, full, active, task, taskAt, lastCombo, on, history>>

\* The end of combo_timeout_handler
UpdateTask ==
  /\ Calling("update")
  /\ UpdateTimeoutTask(candidates)
  /\ Then(<<>>)
  /\ UNCHANGED <<input, pressed, candidates, full, active, lastTapped, lastCombo, keymap, history>>
-----------------------------------------------------------------------------
\* combo_timeout_handler
Due == task <= now
Timeout ==
  /\ Quiet /\ Due
  /\ task' = Never
  /\ IF taskAt = 0 \/ now < taskAt
     THEN UNCHANGED <<candidates, todo>>
     ELSE /\ candidates' = Keep(Unexpired(taskAt))
          /\ todo' = IF candidates' = Nobody THEN <<Cleanup(NoEvent), Update>> ELSE <<Update>>
  /\ UNCHANGED <<input, pressed, full, active, taskAt, lastTapped, lastCombo, keymap, history>>

\* The matrix driver's event: a key goes down or up.
KeyEvent(k) ==
  /\ Quiet /\ events < MaxEvents
  /\ events' = events + 1
  /\ down' = IF k \in down THEN down \ {k} ELSE down \cup {k}
  /\ todo' = <<Raise([key |-> k, down |-> k \notin down, time |-> now])>>
  /\ UNCHANGED <<now, others, listener, keymap, history>>

\* The timer of a sticky layer, a decided hold-tap, a macro, a step of the behavior
\* queue: they change the layer, or tap a letter whose timestamp may lie behind,
\* whatever the combos have captured, and also from within a call.
Elsewhere ==
  /\ others < MaxOthers
  /\ others' = others + 1
  /\ \/ layer' \in {0, 1} \ {layer} /\ UNCHANGED lastTapped
     \/ /\ lastTapped' \in {t \in 1 .. now : t > lastCombo}
        /\ UNCHANGED layer
  /\ disturbed' = TRUE
  /\ UNCHANGED <<now, events, down, pressed, candidates, full, active, task, taskAt, lastCombo, todo,
                 passed, on, scope>>

\* Time passes; if the work queue is not late, not beyond a timer that is due.
Tick ==
  /\ Quiet /\ now < MaxTime
  /\ Late \/ ~Due
  /\ now' = now + 1
  /\ UNCHANGED <<events, others, down, listener, todo, keymap, history>>

Run ==
  \/ Bubble \/ Capture \/ LetGo \/ CleanUp \/ ForgetFull \/ ReleasePressedKeys
  \/ ReleaseKey \/ Deliver \/ UpdateTask

Next == Run \/ Timeout \/ Tick \/ Elsewhere \/ \E k \in Key : KeyEvent(k)

\* The work queue goes on with what it has begun.
Spec == Init /\ [][Next]_vars /\ WF_vars(Run)
-----------------------------------------------------------------------------
Press == [key : Key, down : {TRUE}, time : 1 .. MaxTime]

TypeOK ==
  /\ now \in 1 .. MaxTime /\ events \in 0 .. MaxEvents /\ others \in 0 .. MaxOthers
  /\ down \subseteq Key
  /\ pressed \in Seq(Press) /\ Len(pressed) <= MaxPerKey
  /\ DOMAIN candidates \subseteq Combo /\ full \in Combo \cup {None}
  /\ active \in Seq([combo : Combo, keys : SUBSET Key]) /\ Len(active) <= MaxPressed
  /\ {task, taskAt, lastTapped, lastCombo} \subseteq Int
  /\ passed \subseteq Key /\ layer \in {0, 1} /\ on \subseteq Combo
  /\ scope \subseteq Combo /\ disturbed \in BOOLEAN

\* The events the listener holds, in the order they came in.
EventsOf(call) ==
  IF call.op \in {"raise", "pass", "key-up"} THEN <<call.event>>
  ELSE IF call.op \in {"cleanup", "flush"} /\ call.then # NoEvent THEN <<call.then>>
  ELSE <<>>
Held ==
  pressed \o FlattenSeq([i \in DOMAIN todo |-> EventsOf(todo[i])])

Taken == [c \in Combo |-> UNION {a.keys : a \in {b \in Range(active) : b.combo = c}}]

Outside == INSTANCE KeyPipe
  WITH Time <- 1 .. MaxTime, queue <- Held, passed <- passed, eaten <- Taken, on <- on
Pipe == Outside!Pipe

\* Once every key is up, every press has reached the keymap or a combo: the
\* release of a key flushes the captured presses, through all the nested raises.
AllDelivered == Quiet /\ down = {} => Held = <<>> /\ passed = {} /\ on = {} /\ active = <<>>

\* The types, and that.
ComboSound == TypeOK /\ AllDelivered

\* A combo is checked once, when the first of the captured keys is pressed. The one
\* that runs applied then; and, unless another behavior changed the layer or tapped
\* a letter since, it does when it runs: no call for the keys themselves moves the
\* layer or taps a letter between the check and the run.
StillApplies ==
  [][\A c \in on' \ on :
       /\ c \in scope
       /\ ~disturbed => ActiveOnLayer(c) /\ lastTapped + Conf[c].idle <= pressed[1].time]_vars

\* "limiting a combo to specific layers" (docs/docs/features/combos.md:30): a combo runs
\* only where one of its layers is the highest. False when another behavior leaves that
\* layer while the combo's keys are captured.
OnItsLayer == [][\A c \in on' \ on : ActiveOnLayer(c)]_vars

\* Raising captured presses anew, nested as deep as it may, comes to an end.
RaisingEnds == []<>Quiet

\* "the time after which this behavior should be removed from candidates": with a
\* work queue that is on time, no candidate is left once its time is over.
CandidatesExpire == Quiet => \A c \in DOMAIN candidates : now <= candidates[c]
=============================================================================
