----------------------------- MODULE MCHoldTap ------------------------------
(***************************************************************************)
(* Two hold-taps and a letter, as several keyboards.                       *)
(***************************************************************************)
EXTENDS HoldTap, TLC

MCKey == {"m1", "m2", "k"}

Plain ==
  [term |-> 1, quick |-> 0, idle |-> 0, flavor |-> "balanced", hwu |-> FALSE,
   linger |-> FALSE, retro |-> FALSE, onRelease |-> FALSE, triggers |-> {}]
Board(m1, m2, limit, late) ==
  [conf |-> "m1" :> m1 @@ "m2" :> m2, limit |-> limit, late |-> late]

\* Every flavor and option; and terms that differ, or timers that are late, where
\* no retro or positional hold-tap meets them.
MCSetups == {
  Board([Plain EXCEPT !.retro = TRUE, !.quick = 2],
        [Plain EXCEPT !.flavor = "hold-preferred", !.idle = 1], 3, FALSE),
  Board([Plain EXCEPT !.flavor = "tap-preferred", !.term = 2],
        [Plain EXCEPT !.hwu = TRUE, !.linger = TRUE, !.retro = TRUE], 2, TRUE),
  Board(Plain, [Plain EXCEPT !.flavor = "hold-preferred"], 3, TRUE),
  Board([Plain EXCEPT !.flavor = "tap-unless-interrupted"],
        [Plain EXCEPT !.triggers = {"k"}, !.flavor = "hold-preferred"], 3, FALSE),
  [conf |-> "m1" :> [Plain EXCEPT !.triggers = {"m2"}, !.onRelease = TRUE, !.hwu = TRUE],
   limit |-> 2, late |-> FALSE] }

\* One whose term is over when the events that waited for the other's arrive.
QueuedSetups == {
  Board([Plain EXCEPT !.flavor = "tap-preferred", !.term = 3],
        [Plain EXCEPT !.retro = TRUE], 3, FALSE) }
=============================================================================
