------------------------------ MODULE Debounce ------------------------------
(***************************************************************************)
(* The debouncer of one switch: app/module/lib/zmk_debounce/debounce.c.    *)
(* The `changed` bit is the difference between two states, and not kept.   *)
(***************************************************************************)
EXTENDS Naturals

CONSTANT CounterMax   \* DEBOUNCE_COUNTER_MAX: 2^14 - 1

ASSUME CounterAssumption == CounterMax \in Nat

\* struct zmk_debounce_state and struct zmk_debounce_config
Switch == [pressed : BOOLEAN, counter : 0 .. CounterMax]
Config == [press : 0 .. CounterMax, release : 0 .. CounterMax]

Open == [pressed |-> FALSE, counter |-> 0]

\* get_threshold
Threshold(d, cfg) == IF d.pressed THEN cfg.release ELSE cfg.press

\* increment_counter, decrement_counter
IncrementWraps(n, elapsed) == (n + elapsed) % (CounterMax + 1)
Increment(n, elapsed) == IF n + elapsed > CounterMax THEN CounterMax ELSE n + elapsed
Decrement(n, elapsed) == IF n < elapsed THEN 0 ELSE n - elapsed

\* zmk_debounce_update: a read that agrees with the state lowers the counter,
\* one that does not raises it until it has reached the threshold, and then
\* flips the state.
UpdateKeepsCounter(d, active, elapsed, cfg) ==
  IF active = d.pressed
  THEN [d EXCEPT !.counter = Decrement(@, elapsed)]
  ELSE IF d.counter < Threshold(d, cfg)
  THEN [d EXCEPT !.counter = Increment(@, elapsed)]
  ELSE [d EXCEPT !.pressed = ~@]
Update(d, active, elapsed, cfg) ==
  IF active = d.pressed
  THEN [d EXCEPT !.counter = Decrement(@, elapsed)]
  ELSE IF d.counter < Threshold(d, cfg)
  THEN [d EXCEPT !.counter = Increment(@, elapsed)]
  ELSE [pressed |-> ~d.pressed, counter |-> 0]

\* zmk_debounce_is_active
IsActiveCounting(d) == d.counter > 0
IsActive(d) == d.pressed \/ d.counter > 0
=============================================================================
