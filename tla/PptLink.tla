------------------------------- MODULE PptLink ------------------------------
(***************************************************************************)
(* The 2.4 GHz link: the state machine of keyboard_ppt_app.c over the      *)
(* radio library and the ring of reports of ppt_send.c. The library, which *)
(* is not in the repository, is the variables radio and slots: it reports  *)
(* one event per change, delivers packets in order while it is linked, and *)
(* starts a connection only when it is at rest, if at all.                 *)
(***************************************************************************)
EXTENDS Power

CONSTANTS
  PairMax,     \* PPT_PAIR_TIME_MAX_COUNT
  ReconnMax,   \* PPT_RECONNECT_TIME_MAX_COUNT
  RingSize,    \* reports zmk_ppt_msgs holds
  Quota,       \* packets the library takes
  Batch,       \* keyboard reports in a packet
  Keyboard,    \* the reports that are keyboard reports; the others go alone
  MaxReports,  \* bound: reports accepted; a report is its number
  MaxLosses    \* bound: links lost

ASSUME PptAssumption ==
  /\ {PairMax, ReconnMax, MaxReports, MaxLosses} \subseteq Nat
  /\ {RingSize, Quota, Batch} \subseteq Nat \ {0}

VARIABLES
  status,       \* keyboard_ppt_status
  bonded,       \* is_ppt_bond, and the address in bond_info
  pairCount,    \* pair_time_count
  reconnCount,  \* reconnect_time_count
  lostAt,       \* reconn_start_time: "none", "recent" (within a second) or "old"
  display,      \* led_is_display_bat
  radio,        \* the library: "off", "pairing", "connecting" or "linked"
  losses,       \* links lost so far
  ring,         \* zmk_ppt_msgs
  poll,         \* poll_timer is running
  kick,         \* a report was put and its sender has not polled yet
  slots,        \* packets the library has taken
  made,         \* reports accepted so far
  got,          \* history: reports the dongle received
  gaps          \* history: reports were discarded, with the ring or the link

link == <<status, bonded, pairCount, reconnCount, lostAt, display, radio, losses>>
reports == <<ring, poll, kick, slots, made, got, gaps>>
pptVars == <<status, bonded, pairCount, reconnCount, lostAt, display, radio, losses,
             ring, poll, kick, slots, made, got, gaps>>

\* zmk_ppt_init: a bonded keyboard tries to connect
PptInit ==
  /\ bonded \in BOOLEAN
  /\ \E tries \in BOOLEAN :
       /\ tries => bonded
       /\ status = IF tries THEN "connecting" ELSE "idle"
       /\ radio = IF tries THEN "connecting" ELSE "off"
  /\ pairCount = 0 /\ reconnCount = 1 /\ lostAt = "none" /\ display = FALSE /\ losses = 0
  /\ ring = <<>> /\ poll = FALSE /\ kick = FALSE /\ slots = <<>>
  /\ made = 0 /\ got = <<>> /\ gaps = FALSE

Free == ~kick  \* the thread is not in a sender
Ready == status \in {"paired", "connected"}

-----------------------------------------------------------------------------
\* The ring of reports

\* ringbuf_msg_put: a full ring discards its oldest report, and the new one
Put(r) == IF Len(ring) < RingSize THEN Append(ring, r) ELSE Tail(ring)

\* Reports that go into the next packet
Together(r) ==
  {n \in 1 .. Len(r) : n = 1 \/ (n <= Batch /\ \A k \in 1 .. n : r[k] \in Keyboard)}

\* One round of the polling loop
\* Mutant: the reports packed with the first one are left in the ring.
PacketPeeked(p) ==
  IF p.ring = <<>> \/ Len(p.slots) = Quota THEN p
  ELSE [ring  |-> Tail(p.ring),
        slots |-> Append(p.slots, SubSeq(p.ring, 1, Cardinality(Together(p.ring))))]
Packet(p) ==
  IF p.ring = <<>> \/ Len(p.slots) = Quota THEN p
  ELSE LET n == Cardinality(Together(p.ring))
       IN  [ring  |-> SubSeq(p.ring, n + 1, Len(p.ring)),
            slots |-> Append(p.slots, SubSeq(p.ring, 1, n))]

\* poll_timer_expiry_function, from the timer or from a sender
\* Mutant: the timer is started again only when something could be sent.
PollsAgainSent(after) == after.ring # <<>> /\ after.slots # slots
PollsAgain(after) == after.ring # <<>>
Polled(r) ==
  LET after == Packet(Packet(Packet([ring |-> r, slots |-> slots])))
  IN  ring' = after.ring /\ slots' = after.slots /\ poll' = PollsAgain(after)

\* zmk_ppt_send_keyboard_report and its likes: refused when the link is not
\* ready. The timer may run between the put and the poll.
SendReport ==
  /\ Ready /\ Free /\ made < MaxReports
  /\ made' = made + 1 /\ ring' = Put(made + 1) /\ kick' = TRUE
  /\ gaps' = (gaps \/ Len(ring) = RingSize)
  /\ UNCHANGED <<poll, slots, got, link, power>>
SenderPolls ==
  /\ kick /\ kick' = FALSE
  /\ IF poll THEN UNCHANGED <<ring, slots, poll>> ELSE Polled(ring)
  /\ UNCHANGED <<made, got, gaps, link, power>>
PollTimer ==
  /\ poll /\ Polled(ring)
  /\ UNCHANGED <<kick, made, got, gaps, link, power>>

AirDelivers ==
  /\ radio = "linked" /\ slots # <<>>
  /\ got' = got \o Head(slots) /\ slots' = Tail(slots)
  /\ UNCHANGED <<ring, poll, kick, made, gaps, link, power>>

\* The library is stopped, or loses its link: it may forget its packets.
SlotsKeptOrNot ==
  /\ slots' \in {slots, <<>>} /\ gaps' = (gaps \/ slots' # slots)
  /\ UNCHANGED <<ring, poll, kick, made, got>>

-----------------------------------------------------------------------------
\* keyboard_ppt_reconnect in the given status, the library in state rad;
\* ok says whether it accepts
Reconnect(st, rad, ok) ==
  LET starts == bonded /\ rad = "off" /\ ok
  IN  IF st = "connecting" THEN status' = st /\ radio' = rad /\ UNCHANGED sleepWork
      ELSE /\ status' = IF starts THEN "connecting" ELSE st
           /\ radio' = IF starts THEN "connecting" ELSE rad
           /\ sleepWork' = (sleepWork \/ ~starts)

\* zmk_ppt_reconn. k_uptime_delta moves reconn_start_time to the present, so
\* that a call within a second of another does nothing but put off the end of
\* that second.
PptReconn ==
  IF status \notin {"pairing", "connected"} /\ ~display /\ lostAt # "recent"
  THEN /\ lostAt' = "none" /\ reconnCount' = 1
       /\ \E ok \in BOOLEAN : Reconnect(status, radio, ok)
       /\ UNCHANGED <<bonded, pairCount, display, losses>>
  ELSE UNCHANGED <<link, sleepWork>>

PptKeyPress ==
  /\ Free /\ Active /\ PptReconn /\ UNCHANGED reports
PptSelect ==
  /\ Free /\ Requested /\ PptReconn /\ UNCHANGED reports
ASecondPasses ==
  /\ lostAt = "recent" /\ lostAt' = "old"
  /\ UNCHANGED <<status, bonded, pairCount, reconnCount, display, radio, losses, reports, power>>

\* keyboard_ppt_pair, the library accepting
PptPair ==
  /\ Free /\ Requested /\ SlotsKeptOrNot
  /\ status' = "pairing" /\ radio' = "pairing" /\ sleepWork' = FALSE
  /\ UNCHANGED <<bonded, pairCount, reconnCount, lostAt, display, losses>>

\* led_bat_display: stops an attempt to connect, and none is made meanwhile
BatDisplay ==
  /\ Free /\ ~asleep /\ ~display /\ display' = TRUE
  /\ IF status = "connecting"
     THEN status' = "idle" /\ radio' = "off" /\ SlotsKeptOrNot
     ELSE UNCHANGED <<status, radio, reports>>
  /\ UNCHANGED <<bonded, pairCount, reconnCount, lostAt, losses, power>>
BatDisplayOff ==
  /\ display /\ display' = FALSE
  /\ UNCHANGED <<status, bonded, pairCount, reconnCount, lostAt, radio, losses, reports, power>>

\* activity_work_handler with zmk_ppt_disconnect
PptSleep ==
  /\ Free /\ GoesToSleep /\ UNCHANGED sleepWork
  /\ status' = "idle" /\ radio' = "off" /\ SlotsKeptOrNot
  /\ UNCHANGED <<bonded, pairCount, reconnCount, lostAt, display, losses>>

\* The chip starts again, and zmk_ppt_init runs: the bond is stored.
PptReset ==
  /\ Reset
  /\ ring' = <<>> /\ slots' = <<>> /\ poll' = FALSE /\ kick' = FALSE
  /\ gaps' = (gaps \/ ring # <<>> \/ slots # <<>>)
  /\ \E tries \in BOOLEAN :
       /\ tries => bonded
       /\ status' = IF tries THEN "connecting" ELSE "idle"
       /\ radio' = IF tries THEN "connecting" ELSE "off"
       /\ sleepWork' = ~tries
  /\ pairCount' = 0 /\ reconnCount' = 1 /\ lostAt' = "none" /\ display' = FALSE
  /\ UNCHANGED <<bonded, losses, made, got>>

-----------------------------------------------------------------------------
\* zmk_ppt_sync_event_cb

\* The device information is a report of its own, no keyboard report.
Paired ==
  /\ radio = "pairing" /\ ~kick /\ made < MaxReports /\ made + 1 \notin Keyboard
  /\ radio' = "linked" /\ status' = "paired" /\ bonded' = TRUE /\ pairCount' = 0
  /\ made' = made + 1 /\ gaps' = (gaps \/ Len(ring) = RingSize)
  /\ IF poll THEN ring' = Put(made + 1) /\ UNCHANGED <<slots, poll>> ELSE Polled(Put(made + 1))
  /\ UNCHANGED <<kick, got, reconnCount, lostAt, display, losses, power>>

PairTimeout ==
  /\ radio = "pairing"
  /\ IF pairCount < PairMax
     THEN pairCount' = pairCount + 1 /\ UNCHANGED <<status, radio, sleepWork>>
     ELSE pairCount' = 0 /\ status' = "idle" /\ radio' = "off" /\ sleepWork' = TRUE
  /\ UNCHANGED <<bonded, reconnCount, lostAt, display, losses, reports, awake>>

Connected ==
  /\ radio = "connecting" \/ (radio = "linked" /\ status = "paired")
  /\ radio' = "linked" /\ status' = "connected" /\ reconnCount' = 0 /\ sleepWork' = FALSE
  /\ lostAt' = IF lostAt = "recent" THEN "recent" ELSE "none"
  /\ UNCHANGED <<bonded, pairCount, display, losses, reports, awake>>

\* Mutant: the counter wraps before it reaches its maximum.
CountedWraps == (reconnCount + 1) % ReconnMax
Counted == reconnCount + 1
ConnectTimeout ==
  /\ radio = "connecting"
  /\ IF reconnCount < ReconnMax
     THEN /\ \E ok \in BOOLEAN : Reconnect("idle", "off", ok)
          /\ reconnCount' = Counted /\ UNCHANGED reports
     ELSE /\ status' = "idle" /\ radio' = "off" /\ sleepWork' = TRUE
          /\ ring' = <<>> /\ gaps' = (gaps \/ ring # <<>>)
          /\ UNCHANGED <<reconnCount, poll, kick, slots, made, got>>
  /\ UNCHANGED <<bonded, pairCount, lostAt, display, losses, awake>>

ConnectLost ==
  /\ radio = "linked" /\ losses < MaxLosses /\ losses' = losses + 1
  /\ SlotsKeptOrNot
  /\ IF bonded /\ reconnCount < 1
     THEN /\ \E ok \in BOOLEAN : Reconnect("idle", "off", ok)
          /\ lostAt' = "recent" /\ reconnCount' = reconnCount + 1
     ELSE status' = "idle" /\ radio' = "off" /\ UNCHANGED <<lostAt, reconnCount, sleepWork>>
  /\ UNCHANGED <<bonded, pairCount, display, awake>>

-----------------------------------------------------------------------------
PptThread == SendReport \/ SenderPolls \/ PptKeyPress \/ PptSelect \/ PptPair
             \/ BatDisplay \/ BatDisplayOff \/ PptSleep \/ PptReset
PptRadio == Paired \/ PairTimeout \/ Connected \/ ConnectTimeout \/ ConnectLost
PptNext == PptThread \/ PptRadio \/ PollTimer \/ AirDelivers \/ ASecondPasses

\* The library answers, its packets arrive, timers run, senders go on.
PptFairness ==
  LET On(A) == transport = "ppt" /\ A
  IN  /\ WF_<<link, power>>(On(Paired \/ PairTimeout))
      /\ WF_<<link, power>>(On(radio = "connecting" /\ (Connected \/ ConnectTimeout)))
      /\ WF_reports(On(SenderPolls)) /\ WF_reports(On(PollTimer)) /\ WF_reports(On(AirDelivers))

-----------------------------------------------------------------------------
PptTypeOK ==
  /\ status \in {"idle", "pairing", "paired", "connecting", "connected"}
  /\ radio \in {"off", "pairing", "connecting", "linked"}
  /\ {bonded, display, poll, kick, gaps} \subseteq BOOLEAN
  /\ pairCount \in 0 .. PairMax /\ reconnCount \in Nat
  /\ lostAt \in {"none", "recent", "old"} /\ losses \in 0 .. MaxLosses
  /\ ring \in Seq(1 .. made) /\ Len(ring) <= RingSize
  /\ Len(slots) <= Quota /\ made \in 0 .. MaxReports

(***************************************************************************)
(* What the dongle has, what the library holds and what waits in the ring  *)
(* are, in this order, the reports accepted: each once and in order, and   *)
(* all of them unless a full ring or a lost link took some away. Reports   *)
(* are put by the thread, taken in packets of several by the timer's       *)
(* interrupt, between the two halves of a put.                             *)
(***************************************************************************)
Line == <<got>> \o slots \o <<ring>>
Delivered ==
  /\ \A i, j \in 1 .. Len(Line) :
       \A m \in 1 .. Len(Line[i]), n \in 1 .. Len(Line[j]) :
         i < j \/ (i = j /\ m < n) => Line[i][m] < Line[j][n]
  /\ ~gaps => \A r \in 1 .. made :
                \E i \in 1 .. Len(Line) : \E n \in 1 .. Len(Line[i]) : Line[i][n] = r

(***************************************************************************)
(* A report in the ring leaves it: while there is one, some poll is still  *)
(* to come, also when the library could not take it the last time.         *)
(***************************************************************************)
RingDrains == ring # <<>> ~> (ring = <<>> \/ ~Ready)

(***************************************************************************)
(* An attempt to pair or to connect comes to an end: the timeouts are      *)
(* counted, by two counters, one of which the keys and a lost link set     *)
(* back to one.                                                            *)
(***************************************************************************)
GivesUp == status \in {"pairing", "connecting"} ~> status \notin {"pairing", "connecting"}
=============================================================================
