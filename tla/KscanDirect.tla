---------------------------- MODULE KscanDirect -----------------------------
(***************************************************************************)
(* The driver of switches wired directly to inputs, kscan_gpio_direct.c,   *)
(* which the boards use for the mode switch and the like. A pin that rests *)
(* pressed must not keep the keyboard awake, so when no debounce counter   *)
(* runs the driver arms, on every pin, the level the pin does not have.    *)
(*                                                                         *)
(* A read is two steps here, the debouncing and the arming, because the    *)
(* pins are read once more for the arming and may move in between. What    *)
(* the matrix driver has too is called Direct... here.                     *)
(***************************************************************************)
EXTENDS Debounce, FiniteSets

CONSTANTS
  Pin,
  DirectConfig,   \* the debounce times
  DirectScanMs    \* debounce-scan-period-ms

ASSUME DirectAssumption ==
  IsFiniteSet(Pin) /\ DirectScanMs \in Nat \ {0} /\ DirectConfig \in Config

VARIABLES
  closedPins, \* the pins whose switch is closed
  pinState,  \* pin_state
  phase,     \* "read": the work item is queued; "delay": it is scheduled for
             \* later; "arm": it is about to arm the pins; "wait": they are armed
  wakeOn,    \* the pins whose interrupt comes when the switch is closed
  dlps,      \* kscan_enabled_dlps: deep sleep is allowed
  reported   \* what the callback was last told: the pins that are pressed

directVars == <<closedPins, pinState, phase, wakeOn, dlps, reported>>

\* Armed by the reads of kscan_direct_enable; the flag is first set by the
\* work handler.
DirectInit ==
  /\ closedPins = {}
  /\ pinState = [p \in Pin |-> Open]
  /\ phase = "wait"
  /\ wakeOn = Pin
  /\ dlps = FALSE
  /\ reported = {}

\* A switch opens or closes.
DirectMove(p) ==
  /\ closedPins' = IF p \in closedPins THEN closedPins \ {p} ELSE closedPins \cup {p}
  /\ UNCHANGED <<pinState, phase, wakeOn, dlps, reported>>

\* The scan goes on while a counter runs, whether or not a switch is closed.
\* (zmk_debounce_is_active would go on while one is closed.)
GoesOnNever(new) == FALSE
GoesOnWhilePressed(new) == \E p \in Pin : IsActive(new[p])
GoesOn(new) == \E p \in Pin : new[p].counter > 0

\* kscan_direct_work_handler and kscan_direct_read, up to the decision to go on.
DirectRead ==
  LET new == [p \in Pin |-> Update(pinState[p], p \in closedPins, DirectScanMs, DirectConfig)] IN
  /\ phase = "read"
  /\ pinState' = new
  /\ reported' = (reported \ {p \in Pin : pinState[p].pressed /\ ~new[p].pressed})
                   \cup {p \in Pin : ~pinState[p].pressed /\ new[p].pressed}
  /\ phase' = IF GoesOn(new) THEN "delay" ELSE "arm"
  /\ dlps' = ~GoesOn(new)
  /\ UNCHANGED <<closedPins, wakeOn>>

\* The end of kscan_direct_read: the raw level of every pin is read again, and
\* the interrupt set for the other one.
Opposite(pressed) == Pin \ pressed
Arm ==
  /\ phase = "arm"
  /\ wakeOn' = Opposite(closedPins)
  /\ phase' = "wait"
  /\ UNCHANGED <<closedPins, pinState, dlps, reported>>

\* The delay of kscan_direct_read_continue is over.
DirectTimeout ==
  /\ phase = "delay"
  /\ phase' = "read"
  /\ UNCHANGED <<closedPins, pinState, wakeOn, dlps, reported>>

\* kscan_direct_irq_callback_handler: some pin has the level it is armed for.
DirectIrq ==
  /\ phase = "wait" /\ \E p \in Pin : (p \in closedPins) = (p \in wakeOn)
  /\ phase' = "read"
  /\ UNCHANGED <<closedPins, pinState, wakeOn, dlps, reported>>

DirectNext ==
  \/ \E p \in Pin : DirectMove(p)
  \/ DirectRead
  \/ Arm
  \/ DirectTimeout
  \/ DirectIrq

DirectSpec == DirectInit /\ [][DirectNext]_directVars
DirectFairSpec ==
  /\ DirectSpec
  /\ WF_directVars(DirectRead) /\ WF_directVars(Arm)
  /\ WF_directVars(DirectTimeout) /\ WF_directVars(DirectIrq)
-----------------------------------------------------------------------------
DirectTypeOK ==
  /\ closedPins \subseteq Pin
  /\ pinState \in [Pin -> Switch]
  /\ phase \in {"read", "delay", "arm", "wait"}
  /\ wakeOn \subseteq Pin
  /\ dlps \in BOOLEAN
  /\ reported \subseteq Pin

\* Deep sleep is allowed only between reads that left no counter running, and
\* what was reported is then the debounced state of every pin: going to sleep
\* never cuts a debounce short (kscan_gpio_direct.c:184, 284).
SleepIsSafe ==
  dlps /\ phase # "read" =>
    \A p \in Pin : pinState[p].counter = 0 /\ (p \in reported <=> pinState[p].pressed)

\* The types, and that.
DirectSound == DirectTypeOK /\ SleepIsSafe

\* When the pins stop moving the driver stops polling, even with a switch left
\* closed: the mode switch must not drain the battery.
Quiesces == \A S \in SUBSET Pin : <>[](closedPins = S) => <>[](phase = "wait")

=============================================================================
