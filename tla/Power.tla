-------------------------------- MODULE Power -------------------------------
(***************************************************************************)
(* What the two radio links share: activity.c, which puts the keyboard to  *)
(* sleep, and the delayed work (sleep_work in ble.c) with which a link     *)
(* that has given up asks for it. Times are abstracted: a delayed work     *)
(* that is scheduled may run at any moment, and the keyboard may find      *)
(* itself unused for max_sleep_time at any. A key goes down and up at      *)
(* once: held, it only puts off the sleep.                                 *)
(***************************************************************************)
EXTENDS Integers, Sequences, FiniteSets, SequencesExt

CONSTANT
  MaxRequests  \* bound: keys the user presses, the ones that select and pair among them

ASSUME PowerAssumption == MaxRequests \in Nat

VARIABLES
  transport,   \* zmk_endpoints_selected().transport, "ble" or "ppt"
  sleepWork,   \* sleep_work is scheduled
  forceSleep,  \* force_sleep
  asleep,      \* last_sleep_state: sleeping, the next key resets the chip
  requests     \* keys so far

power == <<transport, sleepWork, forceSleep, asleep, requests>>
awake == <<transport, forceSleep, asleep, requests>>  \* without sleepWork

PowerOn(t) ==
  transport = t /\ forceSleep = FALSE /\ asleep = FALSE /\ requests = 0

\* sleep_worker
SleepWorker ==
  /\ sleepWork /\ sleepWork' = FALSE /\ forceSleep' = TRUE
  /\ UNCHANGED <<transport, asleep, requests>>

\* The listener of a key press, besides asking the link to come back
Active ==
  /\ ~asleep /\ requests < MaxRequests /\ requests' = requests + 1
  /\ forceSleep' = FALSE /\ UNCHANGED <<transport, asleep>>

\* The user selects or pairs: the macro that stands for a long press runs
\* when the listener is done.
Requested ==
  /\ ~asleep /\ requests < MaxRequests /\ requests' = requests + 1
  /\ UNCHANGED <<transport, forceSleep, asleep>>

\* activity_work_handler, without the disconnection of the link: unused for
\* max_sleep_time, as it may be at any moment, or told so by force_sleep,
\* which is not cleared here. A sleeping keyboard has no activity timer.
GoesToSleep ==
  /\ ~asleep /\ asleep' = TRUE
  /\ UNCHANGED <<transport, forceSleep, requests>>

\* The listener of a key press resets a sleeping chip; so does the switch
\* of the modes, at any moment.
Reset ==
  /\ requests < MaxRequests /\ requests' = requests + 1
  /\ asleep' = FALSE /\ forceSleep' = FALSE /\ UNCHANGED transport
-----------------------------------------------------------------------------
PowerTypeOK ==
  /\ transport \in {"ble", "ppt"} /\ {sleepWork, forceSleep, asleep} \subseteq BOOLEAN
  /\ requests \in 0 .. MaxRequests
=============================================================================
