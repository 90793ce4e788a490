------------------------------ MODULE StickyKey -----------------------------
(***************************************************************************)
(* The sticky-key behavior, app/src/behaviors/behavior_sticky_key.c: its   *)
(* slots, their timers, and the listener that presses and releases the     *)
(* sticky bindings around the key they modify.                             *)
(*                                                                         *)
(* Pressing or releasing a sticky binding (&kp) raises a keycode event     *)
(* from inside the handler, and that event runs the same listener for the  *)
(* other sticky keys. `todo` holds the calls still to be made, innermost   *)
(* first, so a step is one call and handlers nest as they do in the code.  *)
(* New input is taken only when todo is empty: handlers and timers share   *)
(* the system work queue.                                                  *)
(*                                                                         *)
(* k_work_cancel_delayable withdraws a timer even when it has expired and  *)
(* waits in the work queue; it never says -EINPROGRESS, so timer_cancelled *)
(* stays false.                                                            *)
(***************************************************************************)
EXTENDS Naturals, Sequences, FiniteSets, Calls

CONSTANTS
  Sticky,      \* positions bound to &sk
  Setup,       \* their configuration
  Key,         \* other sources of keycode events
  CodeOf,      \* the keycode of each of them
  Modifier,    \* the keycodes is_mod accepts
  None,        \* no keycode
  MaxHeld,     \* ZMK_BHV_STICKY_KEY_MAX_HELD
  MayBeLate    \* a release can be older than release-after-ms when handled

ASSUME StickyAssumption ==
  /\ MaxHeld \in Nat \ {0} /\ Sticky \cap Key = {}
  /\ MayBeLate \in BOOLEAN
  /\ \A p \in Sticky :
       /\ Setup[p].quick \in BOOLEAN /\ Setup[p].lazy \in BOOLEAN
       /\ Setup[p].ignoreMods \in BOOLEAN /\ Setup[p].code # None
  /\ \A k \in Key : CodeOf[k] # None

Slot == 1 .. MaxHeld
Code == {CodeOf[k] : k \in Key} \cup {Setup[p].code : p \in Sticky}

VARIABLES
  slots,    \* active_sticky_keys
  timers,   \* slots whose release_timer is pending
  todo,     \* calls still to be made
  down,     \* keys and positions that are down
  out,      \* how often each sticky binding is pressed (a release that finds it
            \* not pressed changes nothing in the HID counts)
  orphan,   \* history: the sticky keys with such a release
  reach     \* history: keys pressed under each sticky key after its tap

vars == <<slots, timers, todo, down, out, orphan, reach>>

Free == [used |-> FALSE, pos |-> None, started |-> FALSE, due |-> FALSE, late |-> FALSE,
         modified |-> None]

Init ==
  /\ slots = [i \in Slot |-> Free]
  /\ timers = {}
  /\ todo = <<>>
  /\ down = {}
  /\ out = [p \in Sticky |-> 0]
  /\ orphan = {}
  /\ reach = [p \in Sticky |-> 0]

Quiet == todo = <<>>
InUse == {i \in Slot : slots[i].used}
Conf(i) == Setup[slots[i].pos]

\* find_sticky_key
Found(p) == {i \in InUse : slots[i].pos = p}

\* The calls.
Event(code, isDown) == [op |-> "event", code |-> code, down |-> isDown]
Listen(code, isDown) == [op |-> "listen", code |-> code, down |-> isDown]
Pass(code, isDown, want) == [op |-> "pass", code |-> code, down |-> isDown, want |-> want]
PressSlot(i) == [op |-> "press", slot |-> i]
ReleaseSlot(i) == [op |-> "release", slot |-> i]
Store(p) == [op |-> "store", pos |-> p]

\* stop_timer
Stopped(S) == timers \ S

\* clear_sticky_key. No handler reads what a free slot held.
Kept(slot) == slot
Cleared(slot) == Free
-----------------------------------------------------------------------------
(* Input: handlers and timers *)

\* on_sticky_key_binding_pressed. A slot the position still has is released
\* first, whether its binding was pressed or not.
StickyPress(p) ==
  /\ Quiet /\ p \notin down
  /\ timers' = Stopped(Found(p))
  /\ todo' = ForEach(Found(p), ReleaseSlot) \o <<Store(p)>>
  /\ down' = down \cup {p}
  /\ UNCHANGED <<slots, out, orphan, reach>>

\* The key is up: its time runs, or is up already.
Tapped(slot, late) == [slot EXCEPT !.started = TRUE, !.due = late, !.late = late]

\* on_sticky_key_binding_released. The timer starts only if the time is not up
\* already; the event may have waited for a hold-tap.
StickyRelease(p) ==
  /\ Quiet /\ p \in down
  /\ down' = down \ {p}
  /\ \E late \in {FALSE, MayBeLate} :
       IF Found(p) = {}
       THEN UNCHANGED <<slots, timers, todo, reach>>
       ELSE LET i == CHOOSE j \in Found(p) : TRUE IN
            IF slots[i].modified # None
            THEN /\ todo' = <<ReleaseSlot(i)>>
                 /\ UNCHANGED <<slots, timers, reach>>
            ELSE /\ slots' = [slots EXCEPT ![i] = Tapped(slots[i], late)]
                 /\ timers' = IF late THEN timers ELSE timers \cup {i}
                 /\ reach' = [reach EXCEPT ![p] = 0]
                 /\ UNCHANGED todo
  /\ UNCHANGED <<out, orphan>>

\* Time passes release_at.
Due(i) ==
  /\ Quiet /\ i \in InUse /\ slots[i].started /\ ~slots[i].due
  /\ slots' = [slots EXCEPT ![i].due = TRUE]
  /\ UNCHANGED <<timers, todo, down, out, orphan, reach>>

\* on_sticky_key_timeout: a lazy key is forgotten, another is released.
OnTimeoutForget(i) == <<>>
OnTimeout(i) == IF Conf(i).lazy THEN <<>> ELSE <<ReleaseSlot(i)>>
Forgotten(S) ==
  [i \in Slot |-> IF i \in S /\ Conf(i).lazy THEN Cleared(slots[i])
                  ELSE slots[i]]

\* behavior_sticky_key_timer_handler
Timer(i) ==
  /\ Quiet /\ i \in timers /\ slots[i].due
  /\ timers' = timers \ {i}
  /\ IF i \in InUse
     THEN todo' = OnTimeout(i) /\ slots' = Forgotten({i})
     ELSE UNCHANGED <<todo, slots>>
  /\ UNCHANGED <<down, out, orphan, reach>>

\* Another key goes down or up: a keycode event.
KeyDown(k) ==
  /\ Quiet /\ k \notin down
  /\ down' = down \cup {k}
  /\ todo' = <<Event(CodeOf[k], TRUE)>>
  /\ UNCHANGED <<slots, timers, out, orphan, reach>>

KeyUp(k) ==
  /\ Quiet /\ k \in down
  /\ down' = down \ {k}
  /\ todo' = <<Event(CodeOf[k], FALSE)>>
  /\ UNCHANGED <<slots, timers, out, orphan, reach>>
-----------------------------------------------------------------------------
(* The listener, sticky_key_keycode_state_changed_listener *)

\* The slots a key-down concerns: not one of the key's own keycode, not one that
\* ignores modifiers if the key is one, not one in use for another key.
Catches(code) ==
  {i \in InUse : /\ Conf(i).code # code
                 /\ ~(Conf(i).ignoreMods /\ code \in Modifier)
                 /\ slots[i].modified = None}

\* A key-up ends the slots that were tapped and then used for that key.
EndsNone(code) == {}
Ends(code) ==
  {i \in InUse : Conf(i).code # code /\ slots[i].started /\ slots[i].modified = code}

\* First, slots whose time was up before the key went down time out now. The
\* event may be older than the time it is handled, so a slot that is due may
\* or may not be among them.
HandleEvent ==
  LET e == Head(todo) IN
  /\ ~Quiet /\ e.op = "event"
  /\ \E late \in SUBSET (IF e.down THEN {i \in Catches(e.code) : slots[i].due} ELSE {}) :
       /\ slots' = Forgotten(late)
       /\ timers' = timers \ late
       /\ todo' = ForEach({i \in late : ~Conf(i).lazy}, ReleaseSlot)
                    \o <<Listen(e.code, e.down)>> \o Tail(todo)
  /\ UNCHANGED <<down, out, orphan, reach>>

\* The slots released once the key-down has been passed on.
Quick(S) == {i \in S : slots[i].started /\ Conf(i).quick}

\* The other slots are put to use: lazy ones are pressed before the event goes
\* on, quick ones released after it.
AroundTooLate(code, caught) ==
  <<Pass(code, TRUE, {slots[i].pos : i \in caught})>>
    \o ForEach({i \in caught : Conf(i).lazy}, PressSlot)
    \o ForEach(Quick(caught), ReleaseSlot)
Around(code, caught) ==
  ForEach({i \in caught : Conf(i).lazy}, PressSlot)
    \o <<Pass(code, TRUE, {slots[i].pos : i \in caught})>>
    \o ForEach(Quick(caught), ReleaseSlot)

ListenDown ==
  LET e == Head(todo)
      caught == Catches(e.code)
  IN
  /\ ~Quiet /\ e.op = "listen" /\ e.down
  /\ slots' = [i \in Slot |-> IF i \in caught THEN [slots[i] EXCEPT !.modified = e.code]
                              ELSE slots[i]]
  /\ timers' = Stopped(caught)
  /\ todo' = Around(e.code, caught) \o Tail(todo)
  /\ UNCHANGED <<down, out, orphan, reach>>

\* A key-up: the sticky keys it ends are released after it.
ListenUp ==
  LET e == Head(todo) IN
  /\ ~Quiet /\ e.op = "listen" /\ ~e.down
  /\ timers' = Stopped(Ends(e.code))
  /\ todo' = <<Pass(e.code, FALSE, {})>> \o ForEach(Ends(e.code), ReleaseSlot) \o Tail(todo)
  /\ UNCHANGED <<slots, down, out, orphan, reach>>

\* The event reaches the listeners below.
PassOn ==
  LET e == Head(todo)
      under == {p \in Sticky : out[p] > 0 /\ \E i \in Found(p) : slots[i].started}
  IN
  /\ ~Quiet /\ e.op = "pass"
  /\ reach' = IF ~e.down \/ e.code \in Modifier THEN reach
              ELSE [p \in Sticky |-> IF p \in under /\ reach[p] < 2 THEN reach[p] + 1
                                     ELSE reach[p]]
  /\ todo' = Tail(todo)
  /\ UNCHANGED <<slots, timers, down, out, orphan>>

\* press_sticky_key_behavior
PressBinding ==
  LET i == Head(todo).slot IN
  /\ ~Quiet /\ Head(todo).op = "press"
  /\ out' = [out EXCEPT ![slots[i].pos] = @ + 1]
  /\ todo' = <<Event(Conf(i).code, TRUE)>> \o Tail(todo)
  /\ UNCHANGED <<slots, timers, down, orphan, reach>>

\* zmk_hid_unregister_mod refuses to count below zero.
Less(n) == IF n = 0 THEN 0 ELSE n - 1

\* release_sticky_key_behavior: the slot is freed, then the binding released.
ReleaseBinding ==
  LET i == Head(todo).slot IN
  /\ ~Quiet /\ Head(todo).op = "release"
  /\ slots' = [slots EXCEPT ![i] = Cleared(@)]
  /\ out' = [out EXCEPT ![slots[i].pos] = Less(@)]
  /\ orphan' = IF out[slots[i].pos] = 0 THEN orphan \cup {slots[i].pos} ELSE orphan
  /\ todo' = <<Event(Conf(i).code, FALSE)>> \o Tail(todo)
  /\ UNCHANGED <<timers, down, reach>>

\* store_sticky_key, and the press that follows unless the key is lazy.
NewSlot(p) == [Free EXCEPT !.used = TRUE, !.pos = p]
StoreSlot ==
  LET p == Head(todo).pos IN
  /\ ~Quiet /\ Head(todo).op = "store"
  /\ IF InUse = Slot
     THEN todo' = Tail(todo) /\ UNCHANGED slots
     ELSE LET i == CHOOSE j \in Slot \ InUse : \A n \in Slot \ InUse : j <= n IN
          /\ slots' = [slots EXCEPT ![i] = NewSlot(p)]
          /\ todo' = (IF Setup[p].lazy THEN <<>> ELSE <<PressSlot(i)>>) \o Tail(todo)
  /\ UNCHANGED <<timers, down, out, orphan, reach>>

Handle ==
  \/ HandleEvent
  \/ ListenDown
  \/ ListenUp
  \/ PassOn
  \/ PressBinding
  \/ ReleaseBinding
  \/ StoreSlot

Next ==
  \/ \E p \in Sticky : StickyPress(p) \/ StickyRelease(p)
  \/ \E k \in Key : KeyDown(k) \/ KeyUp(k)
  \/ \E i \in Slot : Due(i) \/ Timer(i)
  \/ Handle

Spec == Init /\ [][Next]_vars

\* Handlers return, time passes, timers run; keys owe nothing.
FairSpec ==
  /\ Spec
  /\ WF_vars(Handle)
  /\ \A i \in Slot : WF_vars(Due(i)) /\ WF_vars(Timer(i))
-----------------------------------------------------------------------------
TypeOK ==
  /\ slots \in [Slot -> [used : BOOLEAN, pos : Sticky \cup {None}, started : BOOLEAN,
                         due : BOOLEAN, late : BOOLEAN, modified : Code \cup {None}]]
  /\ timers \subseteq Slot
  /\ down \subseteq Sticky \cup Key
  /\ out \in [Sticky -> Nat]
  /\ orphan \subseteq Sticky
  /\ reach \in [Sticky -> 0 .. 2]

\* However handlers nest, a sticky binding is never pressed twice and, unless it
\* is lazy, never released when it is not pressed, which would take the modifier
\* away from a key that is holding it.
Paired ==
  /\ \A p \in Sticky : out[p] <= 1
  /\ \A p \in orphan : Setup[p].lazy

\* No sticky binding stays pressed for good: while one is, and its own key is up,
\* its timer runs or the key it was used for is still down; unless its release was
\* handled too late for a timer.
NoStuckBinding ==
  Quiet => \A p \in Sticky \ down : out[p] # 0 =>
    \E i \in Found(p) :
      \/ i \in timers \/ slots[i].late
      \/ slots[i].modified \in {CodeOf[k] : k \in Key \cap down}
                                 \cup {Setup[q].code : q \in {r \in Sticky : out[r] > 0}}

\* A timer is pending only for a sticky key that was tapped and has not been
\* used: no timer outlives its key and ends another one in the same slot.
TimerOwned ==
  Quiet => \A i \in timers : slots[i].used /\ slots[i].started /\ slots[i].modified = None

\* A slot is not freed while the listener has still to press or release it: both
\* loops go through pointers they took before other events were raised.
SlotsLive ==
  \A n \in DOMAIN todo : todo[n].op \in {"press", "release"} => todo[n].slot \in InUse

\* The types, and that presses, releases, timers and slots belong together.
StickySound == TypeOK /\ Paired /\ TimerOwned /\ SlotsLive

\* A tapped sticky key is in force for the key it was caught by: the key's press
\* goes on with the binding pressed, lazy or not, whatever the nesting.
NextKeyModified ==
  ~Quiet /\ Head(todo).op = "pass" => \A p \in Head(todo).want : out[p] = 1

\* docs/docs/behaviors/sticky-key.md, quick-release: "deactivate the sticky key on
\* the next key being pressed", so that no second key gets it.
OnlyOneKey == \A p \in Sticky : Setup[p].quick => reach[p] <= 1

\* The next key, and only it.
NextKeyOnly == NextKeyModified /\ OnlyOneKey

\* docs/docs/behaviors/sticky-key.md: "sticky keys stay pressed for a second if you
\* don't press any other key", and no longer: with every key up, every sticky
\* binding is released in the end, unless the release of one of them, for which
\* others may wait, was handled too late.
ReleasedInTheEnd ==
  \A p \in Sticky :
    <>[](down = {} /\ \A i \in InUse : ~slots[i].late) => <>[](out[p] = 0)
=============================================================================
