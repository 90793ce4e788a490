----------------------------- MODULE HidReport ------------------------------
(***************************************************************************)
(* The HID reports of the keyboard and who receives them: hid_keychron.c   *)
(* (modifier counts, the adaptive 6-key + NKRO keyboard report, consumer   *)
(* slots, mouse buttons), hid_listener.c (what a keycode event does to     *)
(* them) and the part of endpoints.c that sends them and changes endpoint. *)
(*                                                                         *)
(* The build modelled is the one of the Keychron boards                    *)
(* (CONFIG_ADAPATIVE_NKRO): the first KbSize keys are in the slots of the  *)
(* keyboard report, the keys beyond them are bits of a second report, and  *)
(* only a report flagged as changed is sent.                               *)
(*                                                                         *)
(* Every handler runs to its end on the system work queue, so each is one  *)
(* step. A send reaches the host: losing one is the transports' business.  *)
(***************************************************************************)
EXTENDS Naturals, FiniteSets

CONSTANTS
  Mod,           \* modifiers
  Key,           \* other usages of the keyboard page
  Wide,          \* those above ZMK_HID_KEYBOARD_NKRO_MAX_USAGE
  Media,         \* usages of the consumer page
  Button,        \* mouse buttons
  MaxClicks,     \* bound: keys mapped to the same button
  None,          \* an empty slot, no modifier
  KbSize,        \* CONFIG_ZMK_HID_KEYBOARD_REPORT_SIZE
  ByteSize,      \* values of the uint8_t keys_held (256)
  ConsumerSize,  \* CONFIG_ZMK_HID_CONSUMER_REPORT_SIZE
  Source,        \* whatever presses and releases a keycode (a key, a macro)
  Event,         \* the keycode event of each source
  Endpoint,      \* endpoint instances
  FirstEndpoint,
  Dropped        \* endpoints whose link is closed when they are left: BLE, PPT

KeycodeEvent ==
  [code : Mod \cup Key \cup Media, imp : SUBSET Mod, exp : Mod \cup {None}]

ASSUME HidAssumption ==
  /\ Mod \cap Key = {} /\ Media \cap (Mod \cup Key) = {}
  /\ None \notin Mod \cup Key \cup Media
  /\ Wide \subseteq Key
  /\ MaxClicks \in Nat /\ ByteSize \in Nat \ {0}
  /\ KbSize \in Nat \ {0} /\ ConsumerSize \in Nat \ {0}
  /\ IsFiniteSet(Source) /\ IsFiniteSet(Key)
  /\ Event \in [Source -> KeycodeEvent]
  /\ FirstEndpoint \in Endpoint

VARIABLES
  h,       \* the reports and the counters they are built from
  host,    \* what the host behind each endpoint was last told
  current, \* current_instance
  held,    \* sources that are pressed
  due,     \* history: sources whose key should be in the report
  crossed  \* history: the endpoint changed while a modifier was held

vars == <<h, host, current, held, due, crossed>>

Slot == 1 .. KbSize
MediaSlot == 1 .. ConsumerSize
NoInput == [mods |-> {}, keys |-> {}, bits |-> {}, media |-> {}, buttons |-> {}]
-----------------------------------------------------------------------------
(* Modifiers *)

\* SET_MODIFIERS, with no modifier masked (only mod-morph masks any).
SetModifiers(r) == [r EXCEPT !.mods = r.explicit \cup r.implicit]

FlagNever(r, before) == r
FlagIfModsChanged(r, before) ==
  IF r.mods = before.mods THEN r ELSE [r EXCEPT !.changed = @ \cup {"kb"}]

\* zmk_hid_register_mod
RegisterMod(r, m) ==
  FlagIfModsChanged(
    SetModifiers([r EXCEPT !.counts[m] = @ + 1, !.explicit = @ \cup {m}]), r)

\* zmk_hid_unregister_mod. Too many releases are refused.
UnregisterModForgets(r, m) ==
  FlagIfModsChanged(
    SetModifiers([r EXCEPT !.counts[m] = @ - 1, !.explicit = @ \ {m}]), r)
UnregisterMod(r, m) ==
  IF r.counts[m] = 0 THEN r
  ELSE LET left == r.counts[m] - 1 IN
       FlagIfModsChanged(
         SetModifiers([r EXCEPT !.counts[m] = left,
                                !.explicit = IF left = 0 THEN @ \ {m} ELSE @]), r)

\* zmk_hid_register_mods, zmk_hid_unregister_mods: an event carries at most
\* one explicit modifier here.
RegisterMods(r, m) == IF m = None THEN r ELSE RegisterMod(r, m)
UnregisterMods(r, m) == IF m = None THEN r ELSE UnregisterMod(r, m)

\* zmk_hid_implicit_modifiers_press / _release: no report is flagged.
SetImplicit(r, ms) == SetModifiers([r EXCEPT !.implicit = ms])
-----------------------------------------------------------------------------
(* Keys *)

SlotsOf(r, k) == {i \in Slot : r.slots[i] = k}
EmptySlots(r) == SlotsOf(r, None)
First(S) == CHOOSE i \in S : \A j \in S : i <= j
SlotKeys(r) == {r.slots[i] : i \in Slot} \ {None}
ReportKeys(r) == SlotKeys(r) \cup r.bits

\* select_keyboard_usage: a slot while there is one, then a bit.
SelectKey(r, k) ==
  IF r.kbCount = KbSize
  THEN IF k \in Wide THEN r
       ELSE [r EXCEPT !.bits = @ \cup {k}, !.bitCount = @ + 1,
                      !.changed = @ \cup {"nkro"}, !.keysHeld = (@ + 1) % ByteSize]
  ELSE [r EXCEPT
          !.slots = IF EmptySlots(r) = {} THEN @
                    ELSE [@ EXCEPT ![First(EmptySlots(r))] = k],
          !.kbCount = IF EmptySlots(r) = {} THEN @ ELSE @ + 1,
          !.changed = @ \cup {"kb"}, !.keysHeld = (@ + 1) % ByteSize]

\* deselect_keyboard_usage: the bit if there is one, or else every slot that
\* holds the key.
DeselectKeyOneReport(r, k) ==
  IF r.bitCount > 0
  THEN IF k \in r.bits
       THEN [r EXCEPT !.bits = @ \ {k}, !.bitCount = @ - 1, !.changed = @ \cup {"nkro"}]
       ELSE r
  ELSE [r EXCEPT
          !.slots = [i \in Slot |-> IF @[i] = k THEN None ELSE @[i]],
          !.kbCount = @ - Cardinality(SlotsOf(r, k)),
          !.changed = @ \cup {"kb"}, !.keysHeld = (@ + ByteSize - 1) % ByteSize]
DeselectKey(r, k) ==
  IF r.bitCount > 0 /\ k \in Wide THEN r
  ELSE IF r.bitCount > 0 /\ k \in r.bits
  THEN [r EXCEPT !.bits = @ \ {k}, !.bitCount = @ - 1, !.changed = @ \cup {"nkro"}]
  ELSE [r EXCEPT
          !.slots = [i \in Slot |-> IF @[i] = k THEN None ELSE @[i]],
          !.kbCount = @ - Cardinality(SlotsOf(r, k)),
          !.changed = @ \cup {"kb"}, !.keysHeld = (@ + ByteSize - 1) % ByteSize]

\* check_keyboard_usage: once a bit is set, only the bits are looked at.
KeyIsPressed(r, k) ==
  IF r.bitCount > 0 THEN k \in r.bits ELSE SlotsOf(r, k) # {}
-----------------------------------------------------------------------------
(* Consumer usages *)

MediaSlotsOf(r, c) == {i \in MediaSlot : r.media[i] = c}

\* zmk_hid_consumer_press: a usage that finds no slot is dropped.
PressMedia(r, c) ==
  IF MediaSlotsOf(r, None) = {} THEN r
  ELSE [r EXCEPT !.media[First(MediaSlotsOf(r, None))] = c]

\* zmk_hid_consumer_release
ReleaseMedia(r, c) ==
  [r EXCEPT !.media = [i \in MediaSlot |-> IF @[i] = c THEN None ELSE @[i]]]

ReportMedia(r) == {r.media[i] : i \in MediaSlot} \ {None}
-----------------------------------------------------------------------------
(* zmk_hid_press, zmk_hid_release and zmk_hid_is_pressed *)

HidPress(r, c) ==
  IF c \in Mod THEN RegisterMod(r, c)
  ELSE IF c \in Media THEN PressMedia(r, c) ELSE SelectKey(r, c)

HidRelease(r, c) ==
  IF c \in Mod THEN UnregisterMod(r, c)
  ELSE IF c \in Media THEN ReleaseMedia(r, c) ELSE DeselectKey(r, c)

HidIsPressed(r, c) ==
  IF c \in Media THEN MediaSlotsOf(r, c) # {} ELSE KeyIsPressed(r, c)

\* What a handler works on: the reports and what the current host was told.
With(x, r) == [x EXCEPT !.r = r]

\* send_keyboard_report: what is flagged reaches the host.
SendKeyboard(x) ==
  [r |-> [x.r EXCEPT !.changed = {}],
   view |-> [x.view EXCEPT
               !.mods = IF "kb" \in x.r.changed THEN x.r.mods ELSE @,
               !.keys = IF "kb" \in x.r.changed THEN SlotKeys(x.r) ELSE @,
               !.bits = IF "nkro" \in x.r.changed THEN x.r.bits ELSE @]]

\* send_consumer_report
SendMedia(x) == [x EXCEPT !.view.media = ReportMedia(x.r)]

\* zmk_endpoints_send_report, by usage page
Send(x, c) == IF c \in Media THEN SendMedia(x) ELSE SendKeyboard(x)

\* An event of the consumer page that changed modifiers sends the keyboard
\* report too.
SendModsOf(x, before, c) ==
  IF c \in Media /\ x.r.mods # before.mods THEN SendKeyboard(x) ELSE x
-----------------------------------------------------------------------------
Init ==
  /\ h = [counts |-> [m \in Mod |-> 0], explicit |-> {}, implicit |-> {}, mods |-> {},
          slots |-> [i \in Slot |-> None], bits |-> {}, kbCount |-> 0, bitCount |-> 0,
          changed |-> {}, keysHeld |-> 0, media |-> [i \in MediaSlot |-> None],
          buttons |-> {}, buttonCounts |-> [b \in Button |-> 0]]
  /\ host = [e \in Endpoint |-> NoInput]
  /\ current = FirstEndpoint
  /\ held = {}
  /\ due = {}
  /\ crossed = FALSE

Now == [r |-> h, view |-> host[current]]
Become(x) == h' = x.r /\ host' = [host EXCEPT ![current] = x.view]

\* hid_listener_keycode_pressed. A key that is already in a report is released
\* there, and the host told, before it is pressed again.
PreRelease(x, c) ==
  IF c \notin Mod /\ HidIsPressed(x.r, c) THEN Send(With(x, HidRelease(x.r, c)), c) ELSE x

Pressed(x, e) ==
  LET pre == PreRelease(x, e.code)
      in == HidPress(pre.r, e.code)
      r == SetImplicit(RegisterMods(in, e.exp), e.imp)
  IN Send(SendModsOf(With(pre, r), in, e.code), e.code)

Press(s) ==
  /\ s \notin held
  /\ Become(Pressed(Now, Event[s]))
  /\ held' = held \cup {s}
  /\ due' = due \cup {s}
  /\ UNCHANGED <<current, crossed>>

\* hid_listener_keycode_released. A refused release of a modifier ends the
\* handler before anything is sent.
Released(x, e) ==
  IF e.code \in Mod /\ x.r.counts[e.code] = 0 THEN x
  ELSE LET out == HidRelease(x.r, e.code)
           r == SetImplicit(UnregisterMods(out, e.exp), {})
       IN Send(SendModsOf(With(x, r), out, e.code), e.code)

Release(s) ==
  /\ s \in held
  /\ Become(Released(Now, Event[s]))
  /\ held' = held \ {s}
  /\ due' = {t \in due : Event[t].code # Event[s].code}
  /\ UNCHANGED <<current, crossed>>

\* &mkp: zmk_hid_mouse_button_press / _release, then the mouse report.
Buttons(counts) == {b \in Button : counts[b] > 0}
Click(counts) ==
  /\ h' = [h EXCEPT !.buttonCounts = counts, !.buttons = Buttons(counts)]
  /\ host' = [host EXCEPT ![current].buttons = Buttons(counts)]
  /\ UNCHANGED <<current, held, due, crossed>>

MousePress(b) ==
  h.buttonCounts[b] < MaxClicks /\ Click([h.buttonCounts EXCEPT ![b] = @ + 1])

MouseRelease(b) ==
  h.buttonCounts[b] > 0 /\ Click([h.buttonCounts EXCEPT ![b] = @ - 1])

\* zmk_hid_keyboard_clear, zmk_hid_consumer_clear and zmk_hid_mouse_clear: the
\* report bodies are zeroed, the counts behind them are not, and a keyboard
\* report is flagged only if it held a key.
ClearedKeepsFlags(r) ==
  [r EXCEPT !.mods = {}, !.slots = [i \in Slot |-> None], !.bits = {},
            !.kbCount = 0, !.bitCount = 0,
            !.media = [i \in MediaSlot |-> None], !.buttons = {}]
Cleared(r) ==
  [r EXCEPT !.mods = {}, !.slots = [i \in Slot |-> None], !.bits = {},
            !.kbCount = 0, !.bitCount = 0,
            !.changed = @ \cup (IF r.kbCount > 0 THEN {"kb"} ELSE {})
                          \cup (IF r.bitCount > 0 THEN {"nkro"} ELSE {}),
            !.media = [i \in MediaSlot |-> None], !.buttons = {}]

\* update_current_endpoint, another endpoint having been selected:
\* disconnect_current_endpoint clears the reports, sends the keyboard and the
\* consumer one, and closes the link of a wireless endpoint.
SwitchEndpoint(e) ==
  LET x == SendMedia(SendKeyboard(With(Now, Cleared(h)))) IN
  /\ e # current
  /\ h' = x.r
  /\ host' = [host EXCEPT ![current] = IF current \in Dropped THEN NoInput ELSE x.view]
  /\ current' = e
  /\ due' = {}
  /\ crossed' = (crossed \/ h.explicit # {})
  /\ UNCHANGED held

Next ==
  \/ \E s \in Source : Press(s) \/ Release(s)
  \/ \E b \in Button : MousePress(b) \/ MouseRelease(b)
  \/ \E e \in Endpoint : SwitchEndpoint(e)

Spec == Init /\ [][Next]_vars
-----------------------------------------------------------------------------
TypeOK ==
  /\ h \in [counts : [Mod -> Nat], explicit : SUBSET Mod, implicit : SUBSET Mod,
            mods : SUBSET Mod, slots : [Slot -> Key \cup {None}],
            bits : SUBSET (Key \ Wide), kbCount : 0 .. KbSize, bitCount : 0 .. Cardinality(Key),
            changed : SUBSET {"kb", "nkro"}, keysHeld : 0 .. ByteSize - 1,
            media : [MediaSlot -> Media \cup {None}],
            buttons : SUBSET Button, buttonCounts : [Button -> 0 .. MaxClicks]]
  /\ host \in [Endpoint -> [mods : SUBSET Mod, keys : SUBSET Key, bits : SUBSET Key,
                            media : SUBSET Media, buttons : SUBSET Button]]
  /\ current \in Endpoint
  /\ held \subseteq Source
  /\ due \subseteq held
  /\ crossed \in BOOLEAN

\* The modifiers an event registers explicitly.
ModsOf(s) == ({Event[s].code} \cap Mod) \cup ({Event[s].exp} \ {None})

\* The explicit modifiers are those some pressed source wants, however their
\* presses and releases overlap and whatever endpoint changes come between
\* (hid_keychron.c:45, "Only release the modifier if the count is 0").
ModsExact == \A m \in Mod : (m \in h.explicit) <=> (\E s \in held : m \in ModsOf(s))

\* kb_keys_count and nkro_bits_count agree with the reports: the choice
\* between slot and bit, and between the two on a release, rests on them.
CountsExact ==
  /\ h.kbCount = Cardinality(Slot \ EmptySlots(h))
  /\ h.bitCount = Cardinality(h.bits)

\* The types, and what the reports are built from.
HidSound == TypeOK /\ ModsExact /\ CountsExact

\* Keys move between the slots and the bits as the slots fill. None is lost: a
\* key pressed since the endpoint was selected, and not released by any source
\* since, is in a report. None stays behind: a key in a report is pressed by some
\* source. Usages too large for the bit report are left out.
ReportExact ==
  /\ {Event[s].code : s \in due} \cap (Key \ Wide) \subseteq ReportKeys(h)
  /\ ReportKeys(h) \ Wide \subseteq {Event[s].code : s \in held}

\* After every handler the current host knows exactly the keys and the consumer
\* usages of the reports, although only flagged reports are sent.
HostKeysInSync ==
  /\ host[current].keys = SlotKeys(h)
  /\ host[current].bits = h.bits
  /\ host[current].media = ReportMedia(h)

\* ... and it knows the modifiers: &kp LS(A) is LEFT_SHIFT+A, also when the slots are
\* taken and the A goes to the bits (docs/docs/codes/modifiers.mdx:38). A modifier held while the endpoint changes is
\* left out: OldEndpointReleased is about it.
HostModsInSync == ~crossed => host[current].mods = h.mods

HostInSync == HostKeysInSync /\ HostModsInSync

\* Changing endpoint leaves no key, no consumer usage held on the old one ...
OldEndpointKeysReleased ==
  \A e \in Endpoint \ {current} :
    host[e].keys = {} /\ host[e].bits = {} /\ host[e].media = {}

\* ... and neither does it leave a modifier or a mouse button (endpoints.c:541,
\* "Cancel all current keypresses so keys don't stay held on the old endpoint").
OldEndpointReleased ==
  \A e \in Endpoint \ {current} : host[e] = NoInput

=============================================================================
