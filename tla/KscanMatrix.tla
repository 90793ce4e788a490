---------------------------- MODULE KscanMatrix -----------------------------
(***************************************************************************)
(* From the switches of the matrix to position events: the interrupt and   *)
(* scan handshake of kscan_gpio_matrix.c, and the bounded message queue    *)
(* between its callback and the work item that raises the events           *)
(* (app/src/kscan.c, matrix_transform.c).                                  *)
(*                                                                         *)
(* The scan and the message processing are two items of the system work    *)
(* queue, first in, first out, each in it at most once; the interrupt and  *)
(* the timer that submit the scan come at any time. A scan reads every     *)
(* switch, then calls the callback for one key after another; an item that *)
(* runs is done before the next one starts. Switches move at any time: a   *)
(* scan reads each once, so moving between reads covers moving during one. *)
(***************************************************************************)
EXTENDS Debounce, Integers, Sequences, FiniteSets

CONSTANTS
  LastRow,     \* ZMK_MATRIX_ROWS - 1, whose first column is the mode switch
  Key,         \* the keys of the matrix, as <<row, column>>
  Mapped,      \* those the matrix transform gives a position
  QueueSize,   \* CONFIG_ZMK_KSCAN_EVENT_QUEUE_SIZE
  Config0,     \* the debounce times
  ScanMs       \* debounce-scan-period-ms

ASSUME KscanAssumption ==
  /\ LastRow \in Nat /\ IsFiniteSet(Key) /\ Key \subseteq (0 .. LastRow) \X Nat
  /\ Mapped \subseteq Key
  /\ QueueSize \in Nat \ {0} /\ ScanMs \in Nat \ {0}
  /\ Config0 \in Config

VARIABLES
  closed,   \* the switches that are closed
  deb,      \* matrix_state, the debouncer of each key
  armed,    \* the input interrupts are enabled
  timer,    \* the scan is scheduled for later
  scanning, \* the scan runs
  unsaid,   \* changed keys it has not come to yet
  work,     \* the system work queue: "scan", "process", which stays until done
  queue,    \* zmk_kscan_msgq
  seen,     \* matrix_rows: keys whose last raised event was a press
  count,    \* key_press_num
  noCheck,  \* pm_no_check_status_before_enter_wfi is in force
  lost      \* history: keys whose last report found the queue full

handshake == <<armed, timer, scanning>>
callback == <<queue, count, noCheck, lost>>
vars == <<closed, deb, armed, timer, scanning, unsaid, work, queue, seen, count, noCheck, lost>>

Init ==
  /\ closed = {}
  /\ deb = [k \in Key |-> Open]
  /\ armed = TRUE       \* kscan_matrix_enable, the first read having ended
  /\ timer = FALSE /\ scanning = FALSE
  /\ unsaid = {}
  /\ work = <<>>
  /\ queue = <<>>
  /\ seen = {}
  /\ count = 0
  /\ noCheck = FALSE
  /\ lost = {}

\* k_work_submit: an item already queued is not queued again.
Queued(item) == \E i \in 1 .. Len(work) : work[i] = item
Submit(item) == work' = IF Queued(item) THEN work ELSE Append(work, item)
Serves(item) == ~scanning /\ work # <<>> /\ Head(work) = item
-----------------------------------------------------------------------------
(* The callback, for one key whose state changed *)

\* key_press_num: rows before the last one only, and never below zero.
CountKey(n, m) ==
  IF m.key[1] = LastRow THEN n
  ELSE IF m.pressed THEN n + 1
  ELSE IF n > 0 THEN n - 1 ELSE 0

\* With the USB endpoint selected the first press turns the power check off
\* before idle; the last release turns it on again.
CheckKeyAnyRelease(off, n, m, usb) ==
  IF m.key[1] = LastRow THEN off
  ELSE IF m.pressed THEN TRUE
  ELSE off /\ CountKey(n, m) >= 0
CheckKey(off, n, m, usb) ==
  IF m.key[1] = LastRow THEN off
  ELSE IF m.pressed THEN off \/ usb
  ELSE off /\ CountKey(n, m) > 0

\* k_msgq_put without waiting: a full queue refuses the message.
PutDropsOldest(q, m) == IF Len(q) < QueueSize THEN Append(q, m) ELSE Append(Tail(q), m)
Put(q, m) == IF Len(q) < QueueSize THEN Append(q, m) ELSE q

\* The scan goes row by row.
RowMajor(a, b) == a[1] < b[1] \/ (a[1] = b[1] /\ a[2] < b[2])

\* zmk_kscan_callback; usb says that zmk_endpoints_selected() is the USB one.
Callback(k, usb) ==
  LET m == [key |-> k, pressed |-> deb[k].pressed]
  IN /\ queue' = Put(queue, m)
     /\ count' = CountKey(count, m)
     /\ noCheck' = CheckKey(noCheck, count, m, usb)
     /\ lost' = IF Len(queue) < QueueSize THEN lost \ {k} ELSE lost \cup {k}
     /\ Submit("process")
-----------------------------------------------------------------------------
\* A switch opens or closes.
Move(k) ==
  /\ closed' = IF k \in closed THEN closed \ {k} ELSE closed \cup {k}
  /\ UNCHANGED <<deb, handshake, unsaid, work, callback, seen>>

\* kscan_matrix_irq_callback_handler: the interrupt is a level one, so it comes
\* whenever it is enabled and some switch is closed.
Irq ==
  /\ armed /\ closed # {}
  /\ armed' = FALSE
  /\ timer' = FALSE
  /\ Submit("scan")
  /\ UNCHANGED <<closed, deb, scanning, unsaid, callback, seen>>

\* The delay of kscan_matrix_read_continue is over.
Timeout ==
  /\ timer
  /\ timer' = FALSE
  /\ Submit("scan")
  /\ UNCHANGED <<closed, deb, armed, scanning, unsaid, callback, seen>>

\* kscan_matrix_read: every switch is read and debounced.
Scan ==
  LET new == [k \in Key |-> Update(deb[k], k \in closed, ScanMs, Config0)] IN
  /\ Serves("scan")
  /\ scanning' = TRUE
  /\ work' = Tail(work)
  /\ deb' = new
  /\ unsaid' = {k \in Key : new[k].pressed # deb[k].pressed}
  /\ UNCHANGED <<closed, armed, timer, callback, seen>>

\* Its loop over the matrix: the next key that changed is reported.
Report(k) ==
  /\ scanning /\ k \in unsaid /\ \A j \in unsaid \ {k} : RowMajor(k, j)
  /\ unsaid' = unsaid \ {k}
  /\ \E usb \in BOOLEAN : Callback(k, usb)
  /\ UNCHANGED <<closed, deb, handshake, seen>>

\* Its end: the next scan is scheduled, or the interrupts are enabled again.
ScanEnd ==
  LET more == \E k \in Key : IsActive(deb[k]) IN
  /\ scanning /\ unsaid = {}
  /\ scanning' = FALSE
  /\ timer' = more
  /\ armed' = ~more
  /\ UNCHANGED <<closed, deb, unsaid, work, callback, seen>>

\* zmk_matrix_transform_row_column_to_position finds one.
HasPosition(k) == k \in Mapped

\* zmk_kscan_process_msgq: one message after another becomes an event; one whose
\* row and column have no position is skipped.
Process ==
  LET m == Head(queue) IN
  /\ Serves("process") /\ queue # <<>>
  /\ queue' = Tail(queue)
  /\ seen' = IF ~HasPosition(m.key) THEN seen
             ELSE IF m.pressed THEN seen \cup {m.key} ELSE seen \ {m.key}
  /\ UNCHANGED <<closed, deb, handshake, unsaid, work, count, noCheck, lost>>

ProcessEnd ==
  /\ Serves("process") /\ queue = <<>>
  /\ work' = Tail(work)
  /\ UNCHANGED <<closed, deb, handshake, unsaid, callback, seen>>

Work == Scan \/ ScanEnd \/ Process \/ ProcessEnd \/ \E k \in Key : Report(k)

Next ==
  \/ \E k \in Key : Move(k)
  \/ Irq
  \/ Timeout
  \/ Work

Spec == Init /\ [][Next]_vars

\* Interrupts and timers come, and the work queue is served.
FairSpec == Spec /\ WF_vars(Irq) /\ WF_vars(Timeout) /\ WF_vars(Work)
-----------------------------------------------------------------------------
Message == [key : Key, pressed : BOOLEAN]

TypeOK ==
  /\ closed \subseteq Key
  /\ deb \in [Key -> Switch]
  /\ {armed, timer, scanning, noCheck} \subseteq BOOLEAN
  /\ unsaid \subseteq Key
  /\ work \in Seq({"scan", "process"}) /\ Len(work) <= 2
  /\ queue \in Seq(Message) /\ Len(queue) <= QueueSize
  /\ seen \subseteq Mapped
  /\ count \in Nat
  /\ lost \subseteq Key

\* The keys of which the callback was last told that they are pressed.
Told == {k \in Key : deb[k].pressed # (k \in unsaid)}

\* What the keymap believes of a key once the queue is drained: what the last
\* message about it says.
About(k) == {i \in 1 .. Len(queue) : queue[i].key = k}
Believed(k) ==
  \/ k \in seen /\ About(k) = {}
  \/ \E i \in About(k) : queue[i].pressed /\ \A j \in About(k) : j <= i

\* Once the queue is drained, the keymap believes exactly of those keys that they
\* are down which the scan has said are down. Only a key whose last report
\* found the queue full may differ, and its next report repairs it
\* (kscan.c:103-106 drops the message and goes on).
NothingElseLost == \A k \in Mapped \ lost : Believed(k) <=> k \in Told

\* The work queue is in order, so a scan always starts with the message queue
\* empty: only more than QueueSize changes in one scan can overflow it. And
\* messages never wait without the work item that drains them being queued.
DrainedBeforeScan ==
  /\ Serves("scan") => queue = <<>>
  /\ queue # <<>> => Queued("process")

\* The number of pressed keys, which decides whether the chip may enter deep
\* sleep, is exact even when reports were dropped; the mode-switch row does
\* not count (kscan.c:76-93). And the power check is off only while a key is down.
CountExact ==
  /\ count = Cardinality({k \in Told : k[1] < LastRow})
  /\ noCheck => count > 0

\* The scan has one cause at a time to run: the interrupts, the delay, its place
\* in the work queue, or that it runs. Interrupts are enabled only when no key is
\* latched or undecided: an interrupt only says that a switch is closed, so
\* nobody would notice the release of a latched key.
OneCause ==
  /\ armed \/ timer \/ Queued("scan") \/ scanning
  /\ armed => ~timer /\ ~Queued("scan") /\ ~scanning
  /\ timer => ~Queued("scan") /\ ~scanning
  /\ Queued("scan") => ~scanning
ArmedWhenIdle == armed => \A k \in Key : deb[k] = Open

\* The types, the counts and the way to rest, together.
KscanSound == TypeOK /\ DrainedBeforeScan /\ CountExact /\ OneCause /\ ArmedWhenIdle

\* A switch that stays closed is at last seen as pressed by the keymap, and one
\* that stays open as released, whatever the others do, unless its last report
\* found the queue full.
Settles ==
  \A k \in Mapped :
    /\ <>[](k \in closed) => <>[](k \in seen \cup lost)
    /\ <>[](k \notin closed) => <>[](k \notin seen \/ k \in lost)
=============================================================================
