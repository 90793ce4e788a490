------------------------------- MODULE HoldTap ------------------------------
(***************************************************************************)
(* The hold-tap behavior, app/src/behaviors/behavior_hold_tap.c: a key     *)
(* that is a modifier if it is held and a letter if it is tapped. Until it *)
(* is decided, position events (and modifiers) are captured; then they are *)
(* raised again, and may make the next hold-tap undecided in the middle of *)
(* the replay.                                                             *)
(*                                                                         *)
(* `todo` holds the calls still to be made, innermost first; a step is one *)
(* call. Input and timers wait until it is empty, for all of this runs on  *)
(* the system work queue. An event is stamped when it is processed. While  *)
(* events are replayed to an undecided hold-tap the code sleeps 10 ms each *)
(* time: that delays what comes next, as setup.late lets timers be late.   *)
(*                                                                         *)
(* A hold-tap's two bindings are &kp: "hold" a modifier, "tap" a letter.   *)
(***************************************************************************)
EXTENDS Integers, Sequences, FiniteSets, FiniteSetsExt, Calls

CONSTANTS
  Key,          \* key positions
  None,         \* no position, no event
  Setups,       \* keyboards: configuration of the hold-taps among the keys (conf),
                \* how many keys may be down (limit; the code's is 4), and whether
                \* the work queue can be busy when a timer expires (late)
  MaxHeld,      \* ZMK_BHV_HOLD_TAP_MAX_HELD
  MaxCaptured,  \* ZMK_BHV_HOLD_TAP_MAX_CAPTURED_EVENTS
  MaxEvents,    \* bound: key events
  MaxTime       \* bound: the clock

Flavors == {"hold-preferred", "balanced", "tap-preferred", "tap-unless-interrupted"}

\* behavior_hold_tap_config
Config ==
  [term : Nat, quick : Nat, idle : Nat, flavor : Flavors, hwu : BOOLEAN,
   linger : BOOLEAN, retro : BOOLEAN, onRelease : BOOLEAN, triggers : SUBSET Key]

\* Calls that may also be captured_events: a position event on its way, with a
\* number of its own, and a keycode event.
Moving == {"position", "listen", "capture", "keymap"}
PositionEvent(ops) ==
  [op : ops, key : Key, down : BOOLEAN, time : 0 .. MaxTime, n : 1 .. MaxEvents]
KeycodeEvent ==
  [op : {"keycode"}, key : Key, binding : {"hold", "tap", "plain"}, down : BOOLEAN,
   time : 0 .. MaxTime]

ASSUME HoldTapAssumption ==
  /\ MaxHeld \in Nat \ {0} /\ MaxCaptured \in Nat \ {0}
  /\ MaxEvents \in Nat /\ MaxTime \in Nat
  /\ None \notin Key \cup PositionEvent({"position"}) \cup KeycodeEvent
  /\ \A s \in Setups :
       /\ DOMAIN s.conf \subseteq Key /\ s.limit \in Nat /\ s.late \in BOOLEAN
       /\ \A p \in DOMAIN s.conf : s.conf[p] \in Config

Slot == 1 .. MaxHeld

VARIABLES
  setup,      \* the keyboard
  now,        \* k_uptime_get()
  events,     \* key events so far
  down,       \* keys that are down
  slots,      \* active_hold_taps
  undecided,  \* undecided_hold_tap: a slot, or 0
  captured,   \* captured_events
  timers,     \* slots whose work is scheduled
  last,       \* last_tapped
  todo,       \* calls still to be made
  on,         \* bindings the host sees pressed
  owed,       \* history: key events the keymap has not had yet, by number
  watch,      \* history: hold-tap presses the keymap has not had or decided yet,
              \* and what each should become
  faults      \* history: what went wrong, with the key it concerns

code == <<slots, undecided, captured, timers, last>>
history == <<owed, watch, faults>>
input == <<setup, now, events, down>>
vars == <<setup, now, events, down, slots, undecided, captured, timers, last, todo,
          on, owed, watch, faults>>

Free == [key |-> None, time |-> 0, status |-> "undecided", first |-> None]

Init ==
  /\ setup \in Setups
  /\ now = 0 /\ events = 0 /\ down = {}
  /\ slots = [i \in Slot |-> Free]
  /\ undecided = 0
  /\ captured = [n \in 1 .. MaxCaptured |-> None]
  /\ timers = {}
  /\ last = [key |-> None, time |-> 0 - 2 * MaxTime]
  /\ todo = <<>>
  /\ on = {}
  /\ owed = {} /\ watch = <<>> /\ faults = {}

Quiet == todo = <<>>
HoldTap == DOMAIN setup.conf
InUse == {i \in Slot : slots[i].key # None}
Conf(i) == setup.conf[slots[i].key]

\* find_hold_tap
Found(p) == {i \in InUse : slots[i].key = p}

\* Calls: an event reaches the listener, a decision, the replay from a captured
\* event on, the end of a release.
Position(p, isDown) ==
  [op |-> "position", key |-> p, down |-> isDown, time |-> now, n |-> events + 1]
Decide(i, moment) == [op |-> "decide", slot |-> i, moment |-> moment]
Replay(n) == [op |-> "replay", from |-> n]
Schedule(i) == [op |-> "schedule", slot |-> i]
Ending(i) == [op |-> "release", slot |-> i]
Keycode(p, binding, isDown, time) ==
  [op |-> "keycode", key |-> p, binding |-> binding, down |-> isDown, time |-> time]

HoldDown(i) == Keycode(slots[i].key, "hold", TRUE, slots[i].time)
HoldUp(i) == Keycode(slots[i].key, "hold", FALSE, slots[i].time)
TapDown(i) == Keycode(slots[i].key, "tap", TRUE, slots[i].time)
TapUp(i) == Keycode(slots[i].key, "tap", FALSE, slots[i].time)
-----------------------------------------------------------------------------
(* What each press should become: docs/docs/behaviors/hold-tap.mdx, said of *)
(* the keys as they are pressed, whenever the code gets to handle them.     *)

\* Another key decides for hold when pressed, when tapped, or not at all.
HoldsAtOnce == {"hold-preferred", "tap-unless-interrupted"}
AtTerm(c, first) ==
  IF c.flavor = "tap-unless-interrupted" \/ (c.triggers # {} /\ first \notin c.triggers \cup {None})
  THEN "tap" ELSE "hold"

Watched(p) ==
  [key |-> p, time |-> now, since |-> {}, first |-> None, ends |-> {}]

\* A press that is still open sees the next key event. At the very end of the
\* term the timer may come before or after the event.
Seen(w, p, isDown) ==
  LET c == setup.conf[w.key]
      first == IF w.first = None /\ c.onRelease # isDown THEN p ELSE w.first
      holds == \/ isDown /\ c.flavor \in HoldsAtOnce
               \/ ~isDown /\ p \in w.since /\ c.flavor = "balanced"
      timed == {AtTerm(c, w.first)}
      answer ==
        IF w.key = p THEN {"tap"}
        ELSE IF ~holds THEN {}
        ELSE IF c.triggers # {} /\ first \notin c.triggers \cup {None} THEN {"tap"}
        ELSE {"hold"}
  IN IF w.ends # {} THEN w
     ELSE IF now > w.time + c.term THEN [w EXCEPT !.ends = timed]
     ELSE IF answer = {}
     THEN [w EXCEPT !.first = first, !.since = IF isDown THEN @ \cup {p} ELSE @]
     ELSE [w EXCEPT !.ends = IF now = w.time + c.term THEN answer \cup timed ELSE answer]

\* The decision taken for the oldest press is right. A quick tap is not judged.
Right(i, moment, status) ==
  LET w == Head(watch)
      result == IF status = "tap" THEN "tap" ELSE "hold"
  IN /\ w.key = slots[i].key
     /\ \/ moment = "quick"
        \/ result \in w.ends
        \/ /\ w.ends = {} /\ now >= w.time + Conf(i).term
           /\ result = AtTerm(Conf(i), w.first)

\* The modifiers in force when a key goes down: held, decided, and on.
InForce == {p \in down \cap HoldTap :
              /\ <<p, "hold">> \in on
              /\ \E i \in Found(p) : slots[i].status # "undecided"}
-----------------------------------------------------------------------------
(* Input and time *)

KeyEvent(p, isDown) ==
  /\ Quiet /\ events < MaxEvents
  /\ events' = events + 1
  /\ todo' = <<Position(p, isDown)>>
  /\ owed' = owed \cup {[n |-> events + 1, key |-> p, down |-> isDown, under |-> InForce]}
  /\ UNCHANGED <<setup, now, code, on, faults>>

\* A press comes early enough for its term to end before the clock stops.
KeyDown(p) ==
  /\ p \notin down
  /\ \A q \in HoldTap : now + setup.conf[q].term <= MaxTime
  /\ down' = down \cup {p}
  /\ watch' = [n \in DOMAIN watch |-> Seen(watch[n], p, TRUE)]
                \o IF p \in HoldTap THEN <<Watched(p)>> ELSE <<>>
  /\ KeyEvent(p, TRUE)

KeyUp(p) ==
  /\ p \in down
  /\ down' = down \ {p}
  /\ watch' = [n \in DOMAIN watch |-> Seen(watch[n], p, FALSE)]
  /\ KeyEvent(p, FALSE)

IsDue(i) == now >= slots[i].time + Conf(i).term

\* Unless timers may be late, those that are due run before the clock goes on.
Tick ==
  /\ Quiet /\ now < MaxTime
  /\ setup.late \/ \A i \in timers : ~IsDue(i)
  /\ now' = now + 1
  /\ UNCHANGED <<setup, events, down, code, todo, on, history>>

\* behavior_hold_tap_timer_work_handler
Timer(i) ==
  /\ Quiet /\ i \in timers /\ IsDue(i)
  /\ timers' = timers \ {i}
  /\ todo' = <<Decide(i, "timer")>>
  /\ UNCHANGED <<input, slots, undecided, captured, last, on, history>>
-----------------------------------------------------------------------------
(* The position listener *)

\* update_hold_status_for_retro_tap
RetroNone(p) == {}
Retro(p) ==
  {i \in InUse : slots[i].key # p /\ Conf(i).retro /\ slots[i].status = "timer"}

\* Another key settles that retro-tap keys are held; it comes first.
Interrupt ==
  LET e == Head(todo)
      held == Retro(e.key)
  IN
  /\ ~Quiet /\ e.op = "position"
  /\ slots' = [i \in Slot |-> IF i \in held THEN [slots[i] EXCEPT !.status = "interrupt"]
                              ELSE slots[i]]
  /\ todo' = ForEach({i \in held : ~Conf(i).hwu}, HoldDown)
               \o <<[e EXCEPT !.op = "listen"]>> \o Tail(todo)
  /\ UNCHANGED <<input, undecided, captured, timers, last, on, history>>

\* position_of_first_other_key_pressed
FirstOther(i, e) ==
  IF slots[i].first = None /\ Conf(i).onRelease # e.down THEN e.key ELSE slots[i].first

\* An event newer than the term means that the timer is late or was never set.
TimedOut(i, e) == e.time > slots[i].time + Conf(i).term

Listen ==
  LET e == Head(todo)
      u == undecided
  IN
  /\ ~Quiet /\ e.op = "listen"
  /\ IF u = 0
     THEN /\ todo' = <<[e EXCEPT !.op = "keymap"]>> \o Tail(todo)
          /\ UNCHANGED slots
     ELSE /\ slots' = [slots EXCEPT ![u].first = FirstOther(u, e)]
          /\ todo' = (IF slots[u].key = e.key THEN <<[e EXCEPT !.op = "keymap"]>>
                      ELSE (IF TimedOut(u, e) THEN <<Decide(u, "timer")>> ELSE <<>>)
                             \o <<[e EXCEPT !.op = "capture"]>>) \o Tail(todo)
  /\ UNCHANGED <<input, undecided, captured, timers, last, on, history>>

\* have_captured_keydown_event: the search ends at the first gap.
CapturedDown(p) ==
  \E n \in DOMAIN captured :
    /\ \A m \in 1 .. n : captured[m] # None
    /\ captured[n].op = "position" /\ captured[n].key = p /\ captured[n].down

\* capture_event: the first gap; with no gap the event is lost.
CapturedAtEnd(e) ==
  [captured EXCEPT ![1 + Max({0} \cup {n \in DOMAIN captured : captured[n] # None})] = e]
Gaps == {n \in DOMAIN captured : captured[n] = None}
Captured(e) == IF Gaps = {} THEN captured ELSE [captured EXCEPT ![Min(Gaps)] = e]
Capturing(e) ==
  /\ captured' = Captured(e)
  /\ faults' = IF Gaps = {} THEN faults \cup {<<"lost", e.key>>} ELSE faults

\* The release of a key whose press has gone through goes through as well.
BubblesNever(e) == FALSE
Bubbles(e) == ~e.down /\ ~CapturedDown(e.key)

Capture ==
  LET e == Head(todo) IN
  /\ ~Quiet /\ e.op = "capture"
  /\ IF undecided = 0 \/ Bubbles(e)
     THEN /\ todo' = <<[e EXCEPT !.op = "keymap"]>> \o Tail(todo)
          /\ UNCHANGED <<captured, faults>>
     ELSE /\ Capturing([e EXCEPT !.op = "position"])
          /\ todo' = <<Decide(undecided, IF e.down THEN "other-down" ELSE "other-up")>>
                       \o Tail(todo)
  /\ UNCHANGED <<input, slots, undecided, timers, last, on, owed, watch>>
-----------------------------------------------------------------------------
(* The decision *)

\* decide_balanced and its like: what a moment decides.
VerdictNoTimer(flavor, moment) == IF moment = "key-up" THEN "tap" ELSE "undecided"
Verdict(flavor, moment) ==
  CASE moment \in {"key-up", "quick"} -> "tap"
    [] moment = "timer" -> IF flavor = "tap-unless-interrupted" THEN "tap" ELSE "timer"
    [] moment = "other-down" /\ flavor \in {"hold-preferred", "tap-unless-interrupted"}
         -> "interrupt"
    [] moment = "other-up" /\ flavor = "balanced" -> "interrupt"
    [] OTHER -> "undecided"

\* decide_positional_hold
Positional(i, verdict) ==
  IF Conf(i).triggers # {} /\ slots[i].first \notin Conf(i).triggers \cup {None}
  THEN "tap" ELSE verdict

\* press_binding and release_binding: a retro-tap key whose term is over waits.
PressBindingAtOnce(i, status) ==
  IF status \in {"timer", "interrupt"} THEN <<HoldDown(i)>> ELSE <<TapDown(i)>>
PressBinding(i, status) ==
  LET c == Conf(i) IN
  IF status = "timer" /\ c.retro THEN <<>>
  ELSE IF status \in {"timer", "interrupt"} THEN IF c.hwu THEN <<>> ELSE <<HoldDown(i)>>
  ELSE (IF c.hwu /\ ~c.linger THEN <<HoldUp(i)>> ELSE <<>>) \o <<TapDown(i)>>

ReleaseBinding(i, status) ==
  IF status = "timer" /\ Conf(i).retro THEN <<>>
  ELSE IF status \in {"timer", "interrupt"} THEN <<HoldUp(i)>>
  ELSE <<TapUp(i)>>

\* store_last_hold_tapped
TappedKey(i) == [key |-> slots[i].key, time |-> slots[i].time]

\* decide_hold_tap returns early, or holds the key while it is undecided.
Open(i) == slots[i].status = "undecided" /\ i = undecided
Holds(i, moment) == Conf(i).hwu /\ moment = "key-down"

DecideNothing ==
  LET d == Head(todo) IN
  /\ ~Quiet /\ d.op = "decide"
  /\ IF ~Open(d.slot) THEN todo' = Tail(todo)
     ELSE IF Holds(d.slot, d.moment) THEN todo' = <<HoldDown(d.slot)>> \o Tail(todo)
     ELSE /\ Verdict(Conf(d.slot).flavor, d.moment) = "undecided"
          /\ todo' = Tail(todo)
  /\ UNCHANGED <<input, code, on, history>>

\* decide_hold_tap decides: nothing is undecided any more, the binding is
\* pressed, and what was captured is raised again.
AfterDecision(i, status) == PressBinding(i, status) \o <<Replay(1)>>

DecideFinally ==
  LET d == Head(todo)
      i == d.slot
      verdict == Verdict(Conf(i).flavor, d.moment)
      status == Positional(i, verdict)
  IN
  /\ ~Quiet /\ d.op = "decide"
  /\ Open(i) /\ ~Holds(i, d.moment) /\ verdict # "undecided"
  /\ slots' = [slots EXCEPT ![i].status = status]
  /\ undecided' = 0
  /\ last' = IF status = "tap" THEN TappedKey(i) ELSE last
  /\ todo' = AfterDecision(i, status) \o Tail(todo)
  /\ watch' = Tail(watch)
  /\ faults' = IF Right(i, d.moment, status) THEN faults
               ELSE faults \cup {<<"decision", slots[i].key>>}
  /\ UNCHANGED <<input, captured, timers, on, owed>>

\* release_captured_events: from slot to slot until a gap.
ReplayFrom(n) == <<captured[n], Replay(n + 1)>>

ReplayNext ==
  LET n == Head(todo).from IN
  /\ ~Quiet /\ Head(todo).op = "replay"
  /\ IF (n = 1 /\ undecided # 0) \/ n > MaxCaptured \/ captured[n] = None
     THEN todo' = Tail(todo) /\ UNCHANGED captured
     ELSE /\ captured' = [captured EXCEPT ![n] = None]
          /\ todo' = ReplayFrom(n) \o Tail(todo)
  /\ UNCHANGED <<input, slots, undecided, timers, last, on, history>>
-----------------------------------------------------------------------------
(* The keymap and the binding *)

\* is_quick_tap
QuickTap(p, time) ==
  \/ last.time + setup.conf[p].idle > time
  \/ last.key = p /\ last.time + setup.conf[p].quick > time

\* The keymap must get key events in the order they happened, each of them once;
\* only the release of a key whose press it has had may come before its turn.
Delivered(e) ==
  LET own == {o \in owed : o.n = e.n}
      earlier == {o \in owed : o.n < e.n}
      inTurn == own # {} /\ \A o \in earlier : ~e.down /\ o.key # e.key
      absent == UNION {{p \in o.under : <<p, "hold">> \notin on} : o \in own}
  IN /\ owed' = owed \ own
     /\ faults' = faults
          \cup (IF inTurn THEN {} ELSE {<<"order", e.key>>})
          \cup (IF e.down /\ absent # {} THEN {<<"modifier", e.key>>} ELSE {})

\* A key that is not a hold-tap: &kp.
PlainKey ==
  LET e == Head(todo) IN
  /\ ~Quiet /\ e.op = "keymap" /\ e.key \notin HoldTap
  /\ Delivered(e)
  /\ todo' = <<Keycode(e.key, "plain", e.down, e.time)>> \o Tail(todo)
  /\ UNCHANGED <<input, code, on, watch>>

\* on_hold_tap_binding_pressed. The keyboard counts the keys that are down now,
\* not those that were when the key was pressed.
Ignored == Cardinality(down) > setup.limit \/ undecided # 0 \/ InUse = Slot

BindingPressed ==
  LET e == Head(todo)
      i == Min(Slot \ InUse)
  IN
  /\ ~Quiet /\ e.op = "keymap" /\ e.key \in HoldTap /\ e.down
  /\ Delivered(e)
  /\ IF Ignored
     THEN /\ todo' = Tail(todo)
          /\ watch' = Tail(watch)
          /\ UNCHANGED <<slots, undecided>>
     ELSE /\ slots' = [slots EXCEPT ![i] = [Free EXCEPT !.key = e.key, !.time = e.time]]
          /\ undecided' = i
          /\ todo' = (IF QuickTap(e.key, e.time) THEN <<Decide(i, "quick")>> ELSE <<>>)
                       \o <<Decide(i, "key-down"), Schedule(i)>> \o Tail(todo)
          /\ UNCHANGED watch
  /\ UNCHANGED <<input, captured, timers, last, on>>

\* The work is scheduled for what is left of the term, at once if nothing is.
StartTimer ==
  /\ ~Quiet /\ Head(todo).op = "schedule"
  /\ timers' = timers \cup {Head(todo).slot}
  /\ todo' = Tail(todo)
  /\ UNCHANGED <<input, slots, undecided, captured, last, on, history>>

\* on_hold_tap_binding_released. The key's own release decides it, if nothing
\* has; what was captured is replayed before the binding is released.
Stopped(i) == timers \ {i}

BindingReleased ==
  LET e == Head(todo)
      i == Min(Found(e.key))
  IN
  /\ ~Quiet /\ e.op = "keymap" /\ e.key \in HoldTap /\ ~e.down
  /\ Delivered(e)
  /\ IF Found(e.key) = {}
     THEN todo' = Tail(todo) /\ UNCHANGED timers
     ELSE /\ timers' = Stopped(i)
          /\ todo' = (IF TimedOut(i, e) THEN <<Decide(i, "timer")>> ELSE <<>>)
                       \o <<Decide(i, "key-up"), Ending(i)>> \o Tail(todo)
  /\ UNCHANGED <<input, slots, undecided, captured, last, on, watch>>

\* decide_retro_tap, the release by status, and the slot is free again.
Lingers(i) == Conf(i).hwu /\ Conf(i).linger
RetroTap(i) == Conf(i).retro /\ slots[i].status = "timer"

Release ==
  LET i == Head(todo).slot IN
  /\ ~Quiet /\ Head(todo).op = "release"
  /\ todo' = (IF RetroTap(i) THEN PressBinding(i, "tap") \o ReleaseBinding(i, "tap")
              ELSE ReleaseBinding(i, slots[i].status))
               \o (IF Lingers(i) THEN <<HoldUp(i)>> ELSE <<>>) \o Tail(todo)
  /\ last' = IF RetroTap(i) THEN TappedKey(i) ELSE last
  /\ slots' = [slots EXCEPT ![i] = Free]
  /\ UNCHANGED <<input, undecided, captured, timers, on, history>>
-----------------------------------------------------------------------------
(* The keycode listener *)

IsMod(e) == e.binding = "hold"

\* While a hold-tap is undecided, modifiers are captured, unless it holds its
\* own already.
CatchesModNever(e) == FALSE
CatchesMod(e) == IsMod(e) /\ undecided # 0 /\ ~Conf(undecided).hwu

KeycodeRaised ==
  LET e == Head(todo)
      pressed == <<e.key, e.binding>> \in on
  IN
  /\ ~Quiet /\ e.op = "keycode"
  /\ last' = IF e.down /\ ~IsMod(e) /\ e.time > last.time
             THEN [key |-> None, time |-> e.time] ELSE last
  /\ IF CatchesMod(e)
     THEN Capturing(e) /\ UNCHANGED on
     ELSE /\ on' = IF e.down THEN on \cup {<<e.key, e.binding>>} ELSE on \ {<<e.key, e.binding>>}
          /\ faults' = IF e.down = pressed THEN faults \cup {<<"pair", e.key>>} ELSE faults
          /\ UNCHANGED captured
  /\ todo' = Tail(todo)
  /\ UNCHANGED <<input, slots, undecided, timers, owed, watch>>
-----------------------------------------------------------------------------
Handle ==
  \/ Interrupt
  \/ Listen
  \/ Capture
  \/ DecideNothing
  \/ DecideFinally
  \/ ReplayNext
  \/ PlainKey
  \/ BindingPressed
  \/ StartTimer
  \/ BindingReleased
  \/ Release
  \/ KeycodeRaised

Next ==
  \/ \E p \in Key : KeyDown(p) \/ KeyUp(p)
  \/ Tick
  \/ \E i \in Slot : Timer(i)
  \/ Handle

Spec == Init /\ [][Next]_vars

\* Handlers return, time passes, a timer that is due runs; keys owe nothing.
FairSpec ==
  /\ Spec
  /\ WF_vars(Handle)
  /\ WF_vars(Tick)
  /\ \A i \in Slot : WF_vars(Timer(i))
-----------------------------------------------------------------------------
TypeOK ==
  /\ setup \in Setups
  /\ now \in 0 .. MaxTime /\ events \in 0 .. MaxEvents
  /\ down \subseteq Key
  /\ slots \in [Slot -> [key : HoldTap \cup {None}, time : 0 .. MaxTime,
                         status : {"undecided", "tap", "interrupt", "timer"},
                         first : Key \cup {None}]]
  /\ captured \in [1 .. MaxCaptured ->
                     {None} \cup PositionEvent({"position"}) \cup KeycodeEvent]
  /\ undecided \in Slot \cup {0}
  /\ undecided # 0 => slots[undecided].key # None /\ slots[undecided].status = "undecided"
  /\ timers \subseteq Slot
  /\ last.key \in HoldTap \cup {None} /\ last.time \in Int
  /\ on \subseteq Key \X {"hold", "tap", "plain"}

Fault(kind) == {f \in faults : f[1] = kind}

\* With nothing undecided nothing is held back: no captured event is left behind
\* the gaps that nested replays make.
Drained ==
  Quiet /\ undecided = 0 => owed = {} /\ \A n \in DOMAIN captured : captured[n] = None

\* Captured or not, replayed once or from inside another replay, key events reach
\* the keymap in the order they happened, releases of keys it knows excepted, and
\* none arrives twice or is left behind; unless one was lost for want of room.
InOrder == Fault("lost") = {} => Fault("order") = {} /\ Drained

\* No binding is pressed twice or released unpressed, however the term, the
\* retro tap and the release meet; holds while undecided are excepted.
Paired == \A f \in Fault("pair") : f[2] \in HoldTap /\ setup.conf[f[2]].hwu

\* With nothing undecided, what is pressed is what the keys that are down were
\* decided to be; so with all keys up nothing is.
Pressed(i) ==
  IF slots[i].status = "tap" THEN {"tap"} \cup (IF Lingers(i) THEN {"hold"} ELSE {})
  ELSE IF RetroTap(i) /\ ~Conf(i).hwu THEN {} ELSE {"hold"}
InSync ==
  Quiet /\ undecided = 0 =>
    /\ \A i \in InUse : slots[i].key \in down
    /\ on = {<<p, "plain">> : p \in down \ HoldTap}
            \cup UNION {{<<slots[i].key, b>> : b \in Pressed(i)} : i \in InUse}

\* The types, and that bindings agree with the keys.
HoldTapSound == TypeOK /\ Paired /\ InSync

\* behavior_hold_tap.c:693, "If these events were queued, the timer event may be
\* queued too late or not at all. We make a timer decision before the other key
\* events are handled": a hold-tap becomes what its own keys and term say,
\* whatever kept its events waiting.
DecisionRight == Fault("decision") = {}

\* behavior_hold_tap.c:707, "we'll catch modifiers later": a captured press has
\* the modifiers that were held when it happened, though their keys are released
\* before the decision. Not claimed when a hold-tap holds while undecided.
KeepsModifiers ==
  (\A p \in HoldTap : ~setup.conf[p].hwu) => Fault("modifier") = {}

\* A press reaches the keymap with every decided hold-tap pressed: captured keys
\* come after the hold they waited for, and a retro-tap key, whose hold waits to
\* see whether it stays alone, is held from the next key on.
HeldBeforeKeys ==
  ~Quiet /\ Head(todo).op = "keymap" /\ Head(todo).down =>
    \A i \in InUse : slots[i].status # "undecided" =>
      <<slots[i].key, IF slots[i].status = "tap" THEN "tap" ELSE "hold">> \in on

\* Every key event reaches the keymap in the end.
Delivers == owed # {} ~> owed = {}
=============================================================================
