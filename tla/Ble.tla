--------------------------------- MODULE Ble --------------------------------
(***************************************************************************)
(* The Bluetooth link: ble.c, its profiles, bonds and advertising, and the *)
(* part of endpoints.c that its events reach. Key presses, work items and  *)
(* timeouts run on one thread, the system work queue; todo is what is left *)
(* of the call it is in. The callbacks of the Bluetooth stack run on       *)
(* another, when this thread is idle or waits inside the stack.            *)
(* The stack and the hosts, which are not in the repository, are the       *)
(* variables bonds, air and conns.                                         *)
(***************************************************************************)
EXTENDS Power, Functions

CONSTANTS
  NProfiles,  \* ZMK_BLE_PROFILE_COUNT
  Hosts,
  AnyAddr,    \* BT_ADDR_LE_ANY
  Known,      \* the hosts of the first profiles, before
  MaxConns,   \* CONFIG_BT_MAX_CONN
  Waits,      \* the calls into the stack during which its callbacks may run
  MaxJoins    \* bound: connections the hosts make

BlePoints == {"stop", "start", "started", "transfer"}

ASSUME BleAssumption ==
  /\ {NProfiles, MaxConns, MaxJoins} \subseteq Nat \ {0}
  /\ AnyAddr \notin Hosts /\ Waits \subseteq BlePoints
  /\ Known \in Seq(Hosts) /\ Len(Known) <= NProfiles
  /\ \A i, j \in DOMAIN Known : Known[i] = Known[j] => i = j

VARIABLES
  profiles,  \* profiles: peer, bt_id and connected of each
  active,    \* active_profile
  flash,     \* ble/profiles and ble/active_profile as they are stored
  saving,    \* ble_save_work is scheduled
  bonds,     \* the stack's keys: the identity each host has a bond with, or 0.
             \* There is room for as many (CONFIG_BT_MAX_PAIRED), and a new
             \* bond takes the place of the host's old one.
  adv,       \* adv_state, advertising_status, and whether adv_timeout_work is scheduled
  air,       \* the identity the controller advertises, 0 for none
  conns,     \* the connections: host, identity, and being disconnected
  transfer,  \* transfer: adv_type, profile and disc_profile
  endpoint,  \* current_instance.ble.profile_index
  todo,      \* calls the thread has still to make
  works,     \* update_advertising_work and raise_profile_changed_event_work, queued
  joins,     \* connections made so far
  wanted,    \* history: the profile requested and not yet selected, -1 for
             \* none, or for one requested while a transfer waited
  mixed,     \* history: a host paired on two profiles, or was connected but
             \* not paired when the profile changed
  refused    \* history: hosts whose keys were forgotten when securing the link failed

Index == 0 .. NProfiles - 1
Base(p) == 2 * p + 1
Identities(p) == {Base(p), Base(p) + 1}

ghosts == <<wanted, mixed, refused>>
stack == <<bonds, air, conns, joins>>
bleVars == <<profiles, active, flash, saving, bonds, adv, air, conns, transfer, endpoint,
             todo, works, joins, wanted, mixed, refused>>

Idle == todo = <<>>
Calls(c) == ~Idle /\ Head(todo)[1] = c
Then(calls) == todo' = calls \o Tail(todo)
Reached == ~Idle => Head(todo)[1] \in Waits  \* callbacks may run

NoTransfer == [type |-> "none", profile |-> 0, disc |-> 0]
Bonded(i, h) == h # AnyAddr /\ bonds[h] = i
Open(p) == profiles[p].peer = AnyAddr

\* zmk_ble_profile_is_connected
Linked(p) == \E c \in conns : /\ c.host = profiles[p].peer /\ c.id = profiles[p].bt_id
                              /\ ~c.closing
\* bt_conn_disconnect of the connection to host h on identity i, if any
HungUpOn(h, i) == {[c EXCEPT !.closing = @ \/ (c.host = h /\ c.id = i)] : c \in conns}
\* zmk_ble_prof_disconnect
\* Mutant: the connection is looked up on the default identity.
HungUpDefault(p) ==
  {[c EXCEPT !.closing = @ \/ (c.host = profiles[p].peer /\ c.id = 0)] : c \in conns}
HungUp(p) == HungUpOn(profiles[p].peer, profiles[p].bt_id)

\* bt_id_reset: forgets the bonds of identity i, unless it is advertised
Forget(i, bs) == [h \in Hosts |-> IF bs[h] = i /\ i # air THEN 0 ELSE bs[h]]
\* ... and disconnects its hosts
ClosedOn(i, cs) ==
  {[c EXCEPT !.closing = @ \/ (c.id = i /\ i # air /\ Bonded(i, c.host))] : c \in cs}

\* k_work_submit
Submitted(w) == IF w \in Range(works) THEN works ELSE Append(works, w)

-----------------------------------------------------------------------------
\* load_identities: the identity stored with a profile, unless the host has
\* keys on one of the profile's own
Loaded(p) ==
  LET s == flash.profiles[p]
      own == {i \in Identities(p) : Bonded(i, s.peer)}
  IN  [peer |-> s.peer, bt_id |-> IF own = {} THEN s.bt_id ELSE CHOOSE i \in own : \A j \in own : i <= j,
       connected |-> FALSE]

\* zmk_ble_init, with what the chip has after a reset
BleBoot ==
  /\ profiles' = [p \in Index |-> Loaded(p)]
  /\ active' = flash.active /\ endpoint' = flash.active
  /\ adv' = [state |-> "reconn", status |-> FALSE, timer |-> FALSE]
  /\ air' = 0 /\ conns' = {} /\ saving' = FALSE /\ works' = <<>>
  /\ transfer' = NoTransfer
  /\ todo' = <<<<"update">>>>
  /\ wanted' = -1
  /\ sleepWork' = FALSE
  /\ UNCHANGED <<flash, bonds, joins, mixed, refused>>

\* A keyboard whose first profiles have hosts
BleInit ==
  /\ profiles = [p \in Index |->
       IF p < Len(Known) THEN [peer |-> Known[p + 1], bt_id |-> Base(p), connected |-> FALSE]
       ELSE [peer |-> AnyAddr, bt_id |-> 0, connected |-> FALSE]]
  /\ flash = [profiles |-> [p \in Index |-> [peer |-> profiles[p].peer, bt_id |-> profiles[p].bt_id]],
              active |-> 0]
  /\ bonds = [h \in Hosts |-> IF \E p \in Index : profiles[p].peer = h
                              THEN Base(CHOOSE p \in Index : profiles[p].peer = h) ELSE 0]
  /\ active = 0 /\ endpoint = 0 /\ saving = FALSE
  /\ adv = [state |-> "reconn", status |-> FALSE, timer |-> FALSE]
  /\ air = 0 /\ conns = {} /\ works = <<>> /\ todo = <<<<"update">>>> /\ joins = 0
  /\ transfer = NoTransfer
  /\ wanted = -1 /\ mixed = FALSE /\ refused = {}

\* set_profile_address of the active profile, which is stored as prof has it
Stored(prof) == [flash EXCEPT !.profiles[active] = [peer |-> prof[active].peer,
                                                    bt_id |-> prof[active].bt_id]]

-----------------------------------------------------------------------------
\* The calls of the thread

Done(p) == wanted' = IF wanted = p THEN -1 ELSE wanted

\* zmk_ble_prof_select ("reconn") and zmk_ble_prof_pair ("pair")
Switch ==
  /\ Calls("reconn") \/ Calls("pair")
  /\ LET kind == Head(todo)[1]
         p == Head(todo)[2]
         timer == adv.timer /\ kind # "pair"
     IN  IF Linked(active)
         THEN /\ adv' = [adv EXCEPT !.timer = timer]
              /\ IF kind = "reconn" /\ p = active
                 THEN Then(<<>>) /\ Done(p) /\ UNCHANGED conns
                 ELSE conns' = HungUp(active) /\ Then(<<<<"transfer", kind, p>>>>) /\ UNCHANGED wanted
              /\ UNCHANGED <<active, saving, mixed>>
         ELSE /\ active' = p /\ saving' = (saving \/ p # active)
              /\ adv' = [adv EXCEPT !.timer = timer, !.state = kind]
              /\ Then(<<<<"update">>, <<"raise">>>>) /\ Done(p) /\ UNCHANGED conns
              /\ mixed' = (mixed \/ (p # active /\ conns # {}))
  /\ UNCHANGED <<profiles, flash, bonds, air, joins, transfer, endpoint, works, refused, power>>

Transfer ==
  /\ Calls("transfer") /\ Then(<<>>)
  /\ transfer' = [type |-> Head(todo)[2], profile |-> Head(todo)[3], disc |-> active]
  /\ UNCHANGED <<profiles, active, flash, saving, stack, adv, endpoint, works, ghosts, power>>

\* get_reconn_bt_id; 0 when the active profile's host has no keys any more
ReconnId ==
  LET own == Base(active)
      has(i) == Bonded(i, profiles[active].peer)
  IN  CASE Open(active) -> own
        [] OTHER -> IF has(profiles[active].bt_id) THEN profiles[active].bt_id
                    ELSE IF has(own) THEN own ELSE IF has(own + 1) THEN own + 1 ELSE 0
\* get_pair_bt_id, which resets the identity it takes
\* Mutant: always the first identity of the profile.
PairIdFirst == Base(active)
PairId ==
  IF ~Open(active) /\ Bonded(Base(active), profiles[active].peer) THEN Base(active) + 1
  ELSE Base(active)

\* update_advertising
Update ==
  /\ Calls("update")
  /\ LET gone == adv.state = "reconn" /\ ReconnId = 0
         id == CASE adv.state = "pair" -> PairId
                 [] gone -> Base(active)
                 [] adv.state = "reconn" /\ ~gone -> ReconnId
                 [] OTHER -> profiles[active].bt_id
         resets == gone \/ (adv.state = "pair" /\ ~Open(active))
         next == [profiles EXCEPT ![active].bt_id = id, ![active].peer = IF gone THEN AnyAddr ELSE @]
         linked == \E c \in conns : c.host = next[active].peer /\ c.id = id /\ ~c.closing
     IN  /\ profiles' = next
         /\ bonds' = IF resets THEN Forget(id, bonds) ELSE bonds
         /\ conns' = IF resets THEN ClosedOn(id, conns) ELSE conns
         /\ flash' = IF gone THEN [flash EXCEPT !.profiles[active] =
                                     [peer |-> AnyAddr, bt_id |-> profiles[active].bt_id]] ELSE flash
         /\ works' = IF gone THEN Submitted("raise") ELSE works
         /\ Then((IF adv.status THEN <<<<"stop">>>> ELSE <<>>)
                 \o (IF linked THEN <<>> ELSE <<<<"start">>>>))
  /\ adv' = [adv EXCEPT !.timer = @ \/ adv.state # "none"]
  /\ sleepWork' = FALSE
  /\ UNCHANGED <<active, saving, air, joins, transfer, endpoint, ghosts, awake>>

\* bt_le_adv_stop
Stop ==
  /\ Calls("stop") /\ Then(<<>>)
  /\ air' = 0 /\ adv' = [adv EXCEPT !.status = FALSE]
  /\ UNCHANGED <<profiles, active, flash, saving, bonds, conns, joins, transfer, endpoint,
                 works, ghosts, power>>

\* bt_le_adv_start with the identity of the active profile: fails when it
\* advertises already or when there is no room for a connection
Start ==
  /\ Calls("start")
  /\ IF air = 0 /\ Cardinality(conns) < MaxConns
     THEN air' = profiles[active].bt_id /\ Then(<<<<"started">>>>)
     ELSE Then(<<>>) /\ UNCHANGED air
  /\ UNCHANGED <<profiles, active, flash, saving, bonds, conns, joins, adv, transfer, endpoint,
                 works, ghosts, power>>
Started ==
  /\ Calls("started") /\ Then(<<>>) /\ adv' = [adv EXCEPT !.status = TRUE]
  /\ UNCHANGED <<profiles, active, flash, saving, stack, transfer, endpoint, works, ghosts, power>>

\* raise_profile_changed_event: endpoint_listener hangs up on the profile it
\* had, and calls zmk_ble_init; then a transfer that waited is made
Raise ==
  /\ Calls("raise")
  /\ IF endpoint = active THEN Then(<<<<"check">>>>) /\ UNCHANGED conns
     ELSE conns' = HungUp(endpoint) /\ Then(<<<<"wake">>, <<"check">>>>)
  /\ endpoint' = active
  /\ UNCHANGED <<profiles, active, flash, saving, bonds, air, joins, adv, transfer, works,
                 ghosts, power>>
Check ==
  /\ Calls("check")
  /\ IF transfer.type # "none" /\ ~Linked(transfer.disc)
     THEN /\ Then(<<<<transfer.type, transfer.profile>>>>)
          /\ transfer' = NoTransfer
     ELSE Then(<<>>) /\ UNCHANGED transfer
  /\ UNCHANGED <<profiles, active, flash, saving, stack, adv, endpoint, works, ghosts, power>>

\* zmk_ble_reconn
Wake ==
  /\ Calls("wake")
  /\ Then(IF adv.state = "none" /\ ~profiles[active].connected
          THEN <<<<"reconn", active>>>> ELSE <<>>)
  /\ adv' = [adv EXCEPT !.timer = @ \/ adv.state = "reconn"]
  /\ UNCHANGED <<profiles, active, flash, saving, stack, transfer, endpoint, works, ghosts, power>>

\* adv_timeout_work_callback, after it has stopped advertising
Tired ==
  /\ Calls("tired") /\ Then(<<>>)
  /\ adv' = [adv EXCEPT !.state = "none"] /\ sleepWork' = TRUE
  /\ UNCHANGED <<profiles, active, flash, saving, stack, transfer, endpoint, works, ghosts,
                 awake>>

Thread == Switch \/ Transfer \/ Update \/ Stop \/ Start \/ Started \/ Raise \/ Check
          \/ Wake \/ Tired

-----------------------------------------------------------------------------
\* What the thread is called for

WorkRuns ==
  /\ Idle /\ works # <<>> /\ todo' = <<<<Head(works)>>>> /\ works' = Tail(works)
  /\ UNCHANGED <<profiles, active, flash, saving, stack, adv, transfer, endpoint, ghosts, power>>

AdvTimeout ==
  /\ Idle /\ adv.timer /\ todo' = <<<<"stop">>, <<"tired">>>>
  /\ adv' = [adv EXCEPT !.timer = FALSE]
  /\ UNCHANGED <<profiles, active, flash, saving, stack, transfer, endpoint, works, ghosts, power>>

\* ble_save_profile_work
Save ==
  /\ Idle /\ saving /\ saving' = FALSE /\ flash' = [flash EXCEPT !.active = active]
  /\ UNCHANGED <<profiles, active, stack, adv, transfer, endpoint, todo, works, ghosts, power>>

BleKeyPress ==
  /\ Idle /\ Active /\ UNCHANGED sleepWork /\ todo' = <<<<"wake">>>>
  /\ UNCHANGED <<profiles, active, flash, saving, stack, adv, transfer, endpoint, works, ghosts>>

\* BT_SEL and BT_PAIR
Request(kind, p) ==
  /\ Idle /\ Requested /\ UNCHANGED sleepWork /\ todo' = <<<<kind, p>>>>
  /\ wanted' = IF transfer.type = "none" THEN p ELSE -1
  /\ UNCHANGED <<profiles, active, flash, saving, stack, adv, transfer, endpoint, works, mixed, refused>>

\* BT_CLR, zmk_ble_clear_bonds: the bond it forgets is one of identity 0,
\* which no profile uses
Clear ==
  /\ Idle /\ Requested /\ UNCHANGED sleepWork /\ todo' = <<<<"update">>>>
  /\ profiles' = [profiles EXCEPT ![active].peer = AnyAddr]
  /\ IF Open(active) THEN UNCHANGED <<flash, works>>
     ELSE flash' = Stored(profiles') /\ works' = Submitted("raise")
  /\ wanted' = -1
  /\ UNCHANGED <<active, saving, stack, adv, transfer, endpoint, mixed, refused>>

\* activity_work_handler with zmk_ble_sleep
BleSleep ==
  /\ Idle /\ GoesToSleep /\ UNCHANGED sleepWork
  /\ conns' = HungUp(active) /\ adv' = [adv EXCEPT !.timer = FALSE] /\ air' = 0
  /\ UNCHANGED <<profiles, active, flash, saving, bonds, joins, transfer, endpoint, todo, works,
                 ghosts>>

\* A key wakes the chip, or the switch of the modes resets it.
BleReset == Reset /\ BleBoot

-----------------------------------------------------------------------------
\* The callbacks of the stack

\* A host answers the advertisement; connected(). Advertising ends by itself.
Joins(h) ==
  /\ Reached /\ air # 0 /\ joins < MaxJoins /\ Cardinality(conns) < MaxConns
  /\ \A c \in conns : c.host # h
  /\ conns' = conns \union {[host |-> h, id |-> air, closing |-> FALSE]}
  /\ air' = 0 /\ joins' = joins + 1
  /\ adv' = [state |-> "none", status |-> FALSE, timer |-> FALSE]
  /\ profiles' = [profiles EXCEPT ![active].connected = TRUE]
  /\ sleepWork' = FALSE
  /\ works' = IF h = profiles[active].peer THEN Submitted("raise") ELSE works
  /\ UNCHANGED <<active, flash, saving, bonds, transfer, endpoint, todo, ghosts, awake>>

\* update_bt_id with the identity of the connection, in C's arithmetic: the
\* identity whose bonds are forgotten
OtherId(i) == LET d == i - Base(active) + 1
              IN  Base(active) + (IF d < 0 THEN -(-d % 2) ELSE d % 2)
\* Its bonds are forgotten if it has any.
Updated(i, bs) == Forget(OtherId(i), bs)

\* security_changed: only an open profile takes the host
Encrypts(c) ==
  /\ Reached /\ ~c.closing /\ Bonded(c.id, c.host) /\ Open(active)
  /\ profiles' = [profiles EXCEPT ![active].peer = c.host]
  /\ flash' = Stored(profiles') /\ works' = Submitted("raise")
  /\ bonds' = Updated(c.id, bonds) /\ conns' = ClosedOn(OtherId(c.id), conns)
  /\ UNCHANGED <<active, saving, adv, air, joins, transfer, endpoint, todo, ghosts, power>>

\* auth_pairing_complete, with the security_changed before it, and
\* copy_profile_to_same_peer
Pairs(c) ==
  /\ Reached /\ ~c.closing /\ ~Bonded(c.id, c.host)
  /\ LET id == profiles[active].bt_id
         same(p) == p # active /\ profiles[p].peer = c.host /\ profiles[p].bt_id # id
     IN  /\ profiles' = [p \in Index |->
                           IF p = active THEN [profiles[p] EXCEPT !.peer = c.host]
                           ELSE IF same(p) THEN [profiles[p] EXCEPT !.bt_id = id]
                           ELSE profiles[p]]
         /\ flash' = [Stored(profiles') EXCEPT !.profiles = [p \in Index |->
                        IF same(p) THEN [peer |-> c.host, bt_id |-> id] ELSE @[p]]]
  /\ works' = Submitted("raise")
  /\ bonds' = Updated(c.id, [bonds EXCEPT ![c.host] = c.id]) /\ conns' = ClosedOn(OtherId(c.id), conns)
  /\ mixed' = (mixed \/ \E p \in Index \ {active} : profiles[p].peer = c.host)
  /\ refused' = refused \ {c.host}
  /\ UNCHANGED <<active, saving, adv, air, joins, transfer, endpoint, todo, wanted, power>>

\* security_changed with an error: one side has no keys for the other, or the host
\* asks for what the keyboard may not grant. bt_unpair forgets the keys that the
\* host has on the identity of the active profile, and hangs up on it there.
Refused(c) ==
  /\ Reached /\ ~c.closing
  /\ LET id == profiles[active].bt_id
         had == Bonded(id, c.host)
     IN  /\ bonds' = IF had THEN [bonds EXCEPT ![c.host] = 0] ELSE bonds
         /\ refused' = IF had THEN refused \cup {c.host} ELSE refused
         /\ conns' = HungUpOn(c.host, id)
  /\ UNCHANGED <<profiles, active, flash, saving, adv, air, joins, transfer, endpoint, todo,
                 works, wanted, mixed, power>>

\* disconnected(): the link was lost, or one side ended it. Whoever the host
\* is, it is the active profile that is no longer connected.
\* Mutant: only when it is its host that leaves.
FlagClearedOfPeer(c) ==
  [profiles EXCEPT ![active].connected = @ /\ c.host # profiles[active].peer]
FlagCleared(c) == [profiles EXCEPT ![active].connected = FALSE]
Leaves(c, lost) ==
  /\ Reached /\ (lost => ~c.closing) /\ conns' = conns \ {c}
  /\ profiles' = FlagCleared(c)
  /\ IF lost THEN adv' = [adv EXCEPT !.state = "reconn"] /\ UNCHANGED sleepWork
     ELSE sleepWork' = (sleepWork \/ transfer.type = "none") /\ UNCHANGED adv
  /\ works' = LET w == IF lost THEN Submitted("update") ELSE works
              IN  IF c.host = profiles[active].peer /\ "raise" \notin Range(w)
                  THEN Append(w, "raise") ELSE w
  /\ UNCHANGED <<active, flash, saving, bonds, air, joins, transfer, endpoint, todo, ghosts, awake>>

BleUser == BleKeyPress \/ Clear \/ \E p \in Index, kind \in {"reconn", "pair"} : Request(kind, p)
BleTimers == WorkRuns \/ AdvTimeout \/ Save \/ BleSleep \/ BleReset
BleStack == \/ \E h \in Hosts : Joins(h)
            \/ \E c \in conns : Encrypts(c) \/ Pairs(c) \/ Refused(c) \/ \E lost \in BOOLEAN : Leaves(c, lost)
BleNext == Thread \/ BleUser \/ BleTimers \/ BleStack

\* The thread runs, and a connection that is being ended ends.
BleFairness ==
  LET On(A) == transport = "ble" /\ A
  IN  /\ WF_bleVars(On(Thread)) /\ WF_bleVars(On(WorkRuns))
      /\ WF_bleVars(On(\E c \in conns : c.closing /\ Leaves(c, FALSE)))

-----------------------------------------------------------------------------
Profile == [peer : Hosts \cup {AnyAddr}, bt_id : Nat, connected : BOOLEAN]

BleTypeOK ==
  /\ profiles \in [Index -> Profile]
  /\ {active, endpoint, flash.active, transfer.profile, transfer.disc} \subseteq Index
  /\ flash.profiles \in [Index -> [peer : Hosts \cup {AnyAddr}, bt_id : Nat]]
  /\ bonds \in [Hosts -> Nat] /\ air \in Nat
  /\ adv \in [state : {"none", "reconn", "pair"}, status : BOOLEAN, timer : BOOLEAN]
  /\ conns \subseteq [host : Hosts, id : Nat, closing : BOOLEAN] /\ Cardinality(conns) <= MaxConns
  /\ transfer.type \in {"none", "reconn", "pair"}
  /\ works \in Seq({"update", "raise"}) /\ Len(works) <= 2
  /\ saving \in BOOLEAN /\ mixed \in BOOLEAN /\ joins \in 0 .. MaxJoins /\ refused \subseteq Hosts
  /\ wanted \in Index \cup {-1}

Quiet == Idle /\ works = <<>>

(***************************************************************************)
(* A keyboard without a host is either looking for one or on its way to    *)
(* sleep: it advertises, or a timer is running at whose end it gives up,   *)
(* or the sleep timer is. The advertising is started and stopped by the    *)
(* thread, ended by the stack with each connection, and refused by it      *)
(* while a connection lasts, so that a step out of order leaves the        *)
(* keyboard awake and invisible until its battery is empty.                *)
(***************************************************************************)
NoLimbo == Quiet /\ conns = {} /\ ~asleep /\ ~mixed =>
             adv.timer \/ sleepWork \/ forceSleep \/ air # 0

(***************************************************************************)
(* A keyboard that has no host and does not advertise listens to its keys: *)
(* zmk_ble_reconn starts advertising only for a profile whose connected    *)
(* flag is clear, and the flag is set and cleared for whatever profile is  *)
(* active when the stack calls, not for the one whose host it is.          *)
(***************************************************************************)
NotDeaf == Quiet /\ conns = {} /\ adv.state = "none" /\ ~mixed =>
             ~profiles[active].connected

\* A keyboard without a host finds one, or rests and can be woken.
Findable == NoLimbo /\ NotDeaf

(***************************************************************************)
(* A profile that has a host has its keys too, on one of its own two       *)
(* identities: pairing prepares the other identity and resets it, and      *)
(* forgets the old bond only when the new host has paired. Only a host     *)
(* that failed to secure its link loses its keys and stays in the profile, *)
(* until the keyboard looks for it again (ble.c:775).                      *)
(***************************************************************************)
PeerKept == Idle /\ ~mixed => \A p \in Index :
              LET peer == profiles[p].peer
              IN  Open(p) \/ peer \in refused \/ \E i \in Identities(p) : Bonded(i, peer)

(***************************************************************************)
(* The profile that the user selects or pairs becomes active, also when    *)
(* the host of the old one must be disconnected first, by an event that    *)
(* the thread waits for with a pending transfer.                           *)
(***************************************************************************)
Switches == wanted # -1 ~> (wanted = -1 \/ asleep)

(***************************************************************************)
(* A profile's host is not replaced by another one while the keyboard has  *)
(* keys for it: docs/docs/features/bluetooth.md says so of pairing.        *)
(***************************************************************************)
NotReplaced ==
  [][\A p \in Index :
       LET peer == profiles[p].peer
       IN  peer # AnyAddr /\ Bonded(profiles[p].bt_id, peer) =>
             profiles'[p].peer \in {AnyAddr, peer}]_bleVars
=============================================================================
