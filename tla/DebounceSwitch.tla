--------------------------- MODULE DebounceSwitch ---------------------------
(***************************************************************************)
(* One switch and its debouncer, read by a kscan driver at whatever times  *)
(* the driver manages to, while the launcher changes the debounce times    *)
(* (user_set_debounce in kscan_gpio_matrix.c). The switch may bounce in    *)
(* any way: every read finds it open or closed.                            *)
(***************************************************************************)
EXTENDS Debounce

CONSTANTS
  Times,     \* the debounce configurations that may be set
  Elapsed,   \* the times between two reads, in ms
  Horizon    \* bound: where the clock of the history variable stops

ASSUME SwitchAssumption ==
  /\ Times \subseteq Config /\ Times # {}
  /\ Elapsed \subseteq Nat
  /\ Horizon \in Nat /\ CounterMax <= Horizon

VARIABLES
  switch,   \* matrix_state[index]
  cfg,      \* user_debounce.debounce_config
  dwell,    \* history: ms read since the state last changed
  steady    \* history: ms of consecutive reads that differ from the state

switchVars == <<switch, cfg, dwell, steady>>

SwitchInit ==
  /\ switch = Open
  /\ cfg \in Times
  /\ dwell = 0
  /\ steady = 0

Later(t, e) == IF t + e > Horizon THEN Horizon ELSE t + e

\* One read of the matrix, for this switch.
SwitchRead(active, e) ==
  LET new == Update(switch, active, e, cfg) IN
  /\ switch' = new
  /\ dwell' = IF new.pressed # switch.pressed THEN 0 ELSE Later(dwell, e)
  /\ steady' = IF active = switch.pressed \/ new.pressed # switch.pressed
               THEN 0 ELSE steady + e
  /\ UNCHANGED cfg

\* user_set_debounce, with whatever is in the counter at that moment.
SetDebounce(c) ==
  /\ c # cfg
  /\ cfg' = c
  /\ UNCHANGED <<switch, dwell, steady>>

SwitchNext ==
  \/ \E active \in BOOLEAN, e \in Elapsed : SwitchRead(active, e)
  \/ \E c \in Times : SetDebounce(c)

SwitchSpec == SwitchInit /\ [][SwitchNext]_switchVars
-----------------------------------------------------------------------------
SwitchTypeOK ==
  /\ switch \in Switch
  /\ cfg \in Times
  /\ dwell \in 0 .. Horizon
  /\ steady \in Nat

\* Chatter never gets through: between two changes of the state the driver has
\* spent at least the debounce time reading the switch, however it bounced,
\* however the time between reads varied and whenever the debounce times were
\* changed (debounce.c: the counter starts again from zero at every change).
MinDwell ==
  [][switch'.pressed # switch.pressed => dwell >= Threshold(switch, cfg)]_switchVars

\* A change is never missed: when the switch has been read in its new position,
\* without a break, for the debounce time, the next such read changes the
\* state. The saturating 14-bit counter does not get in the way
\* (docs/docs/features/debouncing.md: "decides that a key is pressed or
\* released after the input is stable").
StableDecides ==
  [][\A e \in Elapsed :
       SwitchRead(~switch.pressed, e) /\ steady >= Threshold(switch, cfg)
         => switch'.pressed = ~switch.pressed]_switchVars
=============================================================================
