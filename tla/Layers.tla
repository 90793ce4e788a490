------------------------------- MODULE Layers -------------------------------
(***************************************************************************)
(* The layer state of the keymap (app/src/keymap.c), the conditional-layer *)
(* listener that reacts to every layer change (app/src/conditional_layer.c) *)
(* and the layer behaviors that change it (&mo, &tog, &to).                *)
(*                                                                         *)
(* Handlers run one after the other on the system work queue, but one      *)
(* handler changes layers several times (&to), and every change raises an  *)
(* event that runs the conditional-layer loop, which changes layers again. *)
(* The steps below are those nested changes: `todo` holds the calls of     *)
(* set_layer_state the running behavior has still to make, `loop` the      *)
(* progress of layer_state_changed_listener.                               *)
(***************************************************************************)
EXTENDS Naturals, Sequences, FiniteSets

CONSTANTS
  NumLayers,   \* ZMK_KEYMAP_LAYERS_LEN
  Position,    \* key positions
  Conds,       \* CONDITIONAL_LAYER_CFGS: records [ifs, then]
  Keymap0,     \* the keymap compiled in: [Layer -> [Position -> Binding]]
  Remaps       \* the <<layer, position, binding>> the launcher may write

Layer == 0 .. NumLayers - 1
Default == 0   \* _zmk_keymap_layer_default, which nothing assigns

Kinds == {"mo", "tog", "to", "kp", "trans"}
Binding == [kind : Kinds, arg : 0 .. NumLayers]   \* NumLayers: an index too large

ASSUME LayersAssumption ==
  /\ NumLayers \in Nat \ {0}
  /\ Conds \subseteq [ifs : SUBSET Layer, then : Layer]
  /\ \A c \in Conds : c.ifs # {} /\ c.then # Default
  /\ Keymap0 \in [Layer -> [Position -> Binding]]
  /\ Remaps \subseteq Layer \X Position \X Binding

NoLayer == NumLayers           \* "no layer took the press"
Idle == [running |-> FALSE, cursor |-> NumLayers, target |-> {}, needed |-> FALSE]

VARIABLES
  layers,      \* _zmk_keymap_layer_state, the set of layers whose bit is set
  recorded,    \* zmk_keymap_active_behavior_layer[position]
  keymap,      \* zmk_keymap[layer][position]
  todo,        \* set_layer_state calls the running behavior has still to make
  loop,        \* the conditional-layer listener: semaphore, loop state, flag
  down,        \* positions physically down
  took,        \* history: the layer whose binding took the last press
  stale,       \* history: positions remapped while down
  sticky       \* history: a &tog or &to, or a remapped key, has been used

vars == <<layers, recorded, keymap, todo, loop, down, took, stale, sticky>>
-----------------------------------------------------------------------------
(* What the code computes *)

\* zmk_keymap_layer_active_with_state
ActiveWith(l, s) == l \in s \/ l = Default

\* The layers that can handle a position, given the recorded state: active,
\* at or above the default layer, and not transparent there.
Takers(p, s) == {l \in Layer : ActiveWith(l, s) /\ keymap[l][p].kind # "trans"}

\* The first layer, going down, whose behavior does not ask to continue.
Taker(p, s) ==
  IF Takers(p, s) = {} THEN NoLayer
  ELSE CHOOSE l \in Takers(p, s) : \A m \in Takers(p, s) : m <= l

Set(l, on) == [layer |-> l, on |-> on]

\* The layer calls a press of binding b makes.
OnPress(b) ==
  CASE b.kind = "mo"  -> <<Set(b.arg, TRUE)>>
    [] b.kind = "tog" -> <<Set(b.arg, ~ActiveWith(b.arg, layers))>>
    [] b.kind = "to"  -> [i \in 1 .. NumLayers |-> Set(NumLayers - i, FALSE)]
                           \o <<Set(b.arg, TRUE)>>
    [] OTHER          -> <<>>

\* The layer calls a release of binding b makes.
OnReleaseNothing(b) == <<>>
OnRelease(b) == IF b.kind = "mo" THEN <<Set(b.arg, FALSE)>> ELSE <<>>

\* set_layer_state: an index past the last layer and the deactivation of the
\* default layer are refused.
AfterSet(s, l, on) ==
  IF l \notin Layer \/ (l = Default /\ ~on) THEN s
  ELSE IF on THEN s \cup {l} ELSE s \ {l}

Thens == {c.then : c \in Conds}

\* then_layer_state: the then-layers whose if-layers' bits are all set.
Target(s) == {c.then : c \in {d \in Conds : d.ifs \subseteq s}}
-----------------------------------------------------------------------------
Init ==
  /\ layers = {}
  /\ recorded = [p \in Position |-> {}]
  /\ keymap = Keymap0
  /\ todo = <<>>
  /\ loop = Idle
  /\ down = {}
  /\ took = [p \in Position |-> NoLayer]
  /\ stale = {}
  /\ sticky = FALSE

Quiet == todo = <<>> /\ ~loop.running

\* zmk_keymap_position_state_changed, a press: the layer state is recorded,
\* then the active layers are tried from the highest one down.
Press(p) ==
  /\ Quiet /\ p \notin down
  /\ recorded' = [recorded EXCEPT ![p] = layers]
  /\ LET l == Taker(p, layers) IN
       /\ took' = [took EXCEPT ![p] = l]
       /\ todo' = IF l = NoLayer THEN <<>> ELSE OnPress(keymap[l][p])
       /\ sticky' = (sticky \/ (l # NoLayer /\ keymap[l][p].kind \in {"tog", "to"}))
  /\ down' = down \cup {p}
  /\ UNCHANGED <<layers, keymap, loop, stale>>

\* A release goes to the layers recorded at the press.
ReleaseLayersNow(p) == layers
ReleaseLayers(p) == recorded[p]

Release(p) ==
  /\ Quiet /\ p \in down
  /\ LET l == Taker(p, ReleaseLayers(p)) IN
       /\ todo' = IF l = NoLayer THEN <<>> ELSE OnRelease(keymap[l][p])
       /\ took' = IF l = took[p] \/ p \in stale
                  THEN [took EXCEPT ![p] = NoLayer] ELSE took
  /\ down' = down \ {p}
  /\ stale' = stale \ {p}
  /\ sticky' = (sticky \/ p \in stale)
  /\ UNCHANGED <<layers, recorded, keymap, loop>>

\* set_layer_state, called by the running behavior. A change is announced:
\* the listener takes the semaphore and starts its loop.
SetLayer ==
  /\ todo # <<>> /\ ~loop.running
  /\ LET s == AfterSet(layers, Head(todo).layer, Head(todo).on) IN
       /\ layers' = s
       /\ loop' = IF s = layers THEN loop
                  ELSE [Idle EXCEPT !.running = TRUE, !.needed = TRUE]
  /\ todo' = Tail(todo)
  /\ UNCHANGED <<recorded, keymap, down, took, stale, sticky>>

\* Whether another round is due after a step of this one. A change re-enters
\* the listener, which finds the semaphore taken and only sets the flag.
NeededLost(changed) == loop.needed
NeededAlways(changed) == TRUE
Needed(changed) == loop.needed \/ changed

\* A new round of the loop: evaluate every configuration.
CondRound ==
  /\ loop.running /\ loop.cursor = NumLayers /\ loop.needed
  /\ loop' = [loop EXCEPT !.needed = FALSE, !.cursor = 0, !.target = Target(layers)]
  /\ UNCHANGED <<layers, recorded, keymap, todo, down, took, stale, sticky>>

\* One layer of the round: a then-layer is made to agree with the
\* target (conditional_layer_activate, conditional_layer_deactivate).
CondStep ==
  /\ loop.running /\ loop.cursor < NumLayers
  /\ LET l == loop.cursor
         s == IF l \in Thens /\ (l \in loop.target) # ActiveWith(l, layers)
              THEN AfterSet(layers, l, l \in loop.target) ELSE layers
     IN /\ layers' = s
        /\ loop' = [loop EXCEPT !.cursor = l + 1, !.needed = Needed(s # layers)]
  /\ UNCHANGED <<recorded, keymap, todo, down, took, stale, sticky>>

\* The loop ends and the semaphore is given back.
CondDone ==
  /\ loop.running /\ loop.cursor = NumLayers /\ ~loop.needed
  /\ loop' = Idle
  /\ UNCHANGED <<layers, recorded, keymap, todo, down, took, stale, sticky>>

\* The launcher rewrites a binding (update_zmk_keymap), whatever is held.
Remap(l, p, b) ==
  /\ <<l, p, b>> \in Remaps /\ keymap[l][p] # b
  /\ keymap' = [keymap EXCEPT ![l][p] = b]
  /\ stale' = IF p \in down THEN stale \cup {p} ELSE stale
  /\ UNCHANGED <<layers, recorded, todo, loop, down, took, sticky>>

Loop == CondRound \/ CondStep \/ CondDone

Next ==
  \/ \E p \in Position : Press(p) \/ Release(p)
  \/ SetLayer
  \/ CondRound
  \/ CondStep
  \/ CondDone
  \/ \E r \in Remaps : Remap(r[1], r[2], r[3])

Spec == Init /\ [][Next]_vars

\* The handler that is running goes on until it returns; keys owe nothing.
FairSpec == Spec /\ WF_vars(SetLayer) /\ WF_vars(Loop)
-----------------------------------------------------------------------------
TypeOK ==
  /\ layers \subseteq Layer
  /\ recorded \in [Position -> SUBSET Layer]
  /\ keymap \in [Layer -> [Position -> Binding]]
  /\ todo \in Seq([layer : 0 .. NumLayers, on : BOOLEAN])
  /\ loop \in [running : BOOLEAN, cursor : 0 .. NumLayers,
               target : SUBSET Layer, needed : BOOLEAN]
  /\ down \subseteq Position
  /\ took \in [Position -> Layer \cup {NoLayer}]
  /\ stale \subseteq down
  /\ sticky \in BOOLEAN

\* Whenever the conditional-layer listener is not running, a then-layer is
\* active exactly when all the if-layers of one of its configurations have
\* their bit set, whatever order the changes came in and even when a &mo or
\* &to touched the then-layer itself (conditional_layer.c: the loop repeats
\* until a round changes nothing).
ThenIff == ~loop.running => \A t \in Thens : (t \in layers) <=> (t \in Target(layers))

\* The release of a key reaches the layer whose binding took its press, even
\* when that layer was deactivated, or another activated, in between
\* (zmk_keymap_active_behavior_layer), unless the key was remapped while held.
ReleaseReachesPresser ==
  \A p \in Position \ down : took[p] = NoLayer

\* With every key up, no layer but the default one is left active, unless a
\* &tog or &to was used or a held key was remapped: momentary layers, and
\* conditional layers built on them, never leak.
NoLayerLeak == Quiet /\ down = {} /\ ~sticky => layers \subseteq {Default}

\* The conditional-layer loop terminates, as its comment claims.
LoopEnds == loop.running ~> ~loop.running

=============================================================================
