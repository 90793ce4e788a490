------------------------------- MODULE KeyPipe ------------------------------
(***************************************************************************)
(* What combos promise, app/src/combo.c seen from outside: key events go   *)
(* in at one end and reach the keymap at the other, in their order and     *)
(* unchanged. The only exception is a combo, which takes exactly its own   *)
(* keys, pressed together at the front of the line, and later the releases *)
(* of those keys; its binding is pressed in between.                       *)
(***************************************************************************)
EXTENDS Integers, Sequences, FiniteSets, SequencesExt

CONSTANTS
  Key,     \* key positions
  Time,    \* timestamps
  Combo,   \* the combos
  Conf     \* combo_cfg: for each, its keys, timeout and slow_release

VARIABLES
  queue,   \* key events that went in and did not come out
  passed,  \* keys the keymap sees pressed
  eaten,   \* for each combo, the keys it took that are still down
  on       \* combos whose binding is pressed

pipe == <<queue, passed, eaten, on>>

Event == [key : Key, down : BOOLEAN, time : Time]

Start ==
  /\ queue = <<>> /\ passed = {} /\ on = {}
  /\ eaten = [c \in Combo |-> {}]

\* The key is down, as far as the events that went in tell.
IsDown(k) ==
  LET latest == SelectLastInSeq(queue, LAMBDA e : e.key = k)
  IN IF latest # 0 THEN queue[latest].down
     ELSE k \in passed \/ \E c \in Combo : k \in eaten[c]

Enter(e) ==
  /\ e.down # IsDown(e.key)
  /\ queue' = Append(queue, e)
  /\ UNCHANGED <<passed, eaten, on>>

\* A press comes out, or the release of a press that came out.
Leave ==
  /\ queue # <<>>
  /\ LET e == Head(queue)
     IN /\ e.down # (e.key \in passed)
        /\ passed' = IF e.down THEN passed \cup {e.key} ELSE passed \ {e.key}
  /\ queue' = Tail(queue)
  /\ UNCHANGED <<eaten, on>>

\* A combo takes its keys: all of them, nothing else, pressed in time.
Eat(c) ==
  LET n == Cardinality(Conf[c].keys)
  IN /\ eaten[c] = {} /\ c \notin on
     /\ n <= Len(queue)
     /\ \A i \in 1 .. n : queue[i].down
     /\ {queue[i].key : i \in 1 .. n} = Conf[c].keys
     /\ queue[n].time < queue[1].time + Conf[c].timeout
     /\ queue' = SubSeq(queue, n + 1, Len(queue))
     /\ eaten' = [eaten EXCEPT ![c] = Conf[c].keys]
     /\ on' = on \cup {c}
     /\ UNCHANGED passed

\* It takes the release of one of them, ahead of other events if need be. The
\* first release ends the combo, or the last with slow_release.
EatUp(c, i) ==
  LET e == queue[i]
      left == eaten[c] \ {e.key}
  IN /\ ~e.down /\ e.key \in eaten[c]
     /\ queue' = RemoveAt(queue, i)
     /\ eaten' = [eaten EXCEPT ![c] = left]
     /\ on' = IF Conf[c].slow /\ left # {} THEN on ELSE on \ {c}
     /\ UNCHANGED passed

Flow ==
  \/ \E e \in Event : Enter(e)
  \/ Leave
  \/ \E c \in Combo : Eat(c)
  \/ \E c \in Combo : \E i \in DOMAIN queue : EatUp(c, i)

Pipe == Start /\ [][Flow]_pipe
=============================================================================
