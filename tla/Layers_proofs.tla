--------------------------- MODULE Layers_proofs ----------------------------
(***************************************************************************)
(* Conditional layers are right whenever their listener is at rest, for    *)
(* every keymap, every set of configurations that does not name the        *)
(* default layer as a then-layer, and every number of keys. The release of *)
(* a key reaches the layer that took its press, and no layer leaks if no   *)
(* conditional layer keeps itself up.                                      *)
(***************************************************************************)
EXTENDS Layers, WellFoundedInduction, SequenceTheorems, TLAPS

\* A round that has changed nothing so far: its target is still the right one,
\* and the layers below the cursor agree with it. At rest, the loop is reset
\* and the answer is right.
LoopInv ==
  /\ ~loop.running => loop = Idle
  /\ loop.running /\ ~loop.needed =>
       /\ loop.target = Target(layers)
       /\ \A t \in Thens : t < loop.cursor => ((t \in layers) <=> (t \in loop.target))

IInv == TypeOK /\ LoopInv /\ ThenIff

Call == [layer : 0 .. NumLayers, on : BOOLEAN]

LEMMA ThensAreLayers == Thens \subseteq Layer \ {Default}
  BY LayersAssumption DEF Thens

LEMMA TargetsAreLayers == \A s : Target(s) \subseteq Layer
  BY LayersAssumption DEF Target

\* set_layer_state stays within the layers, and on a layer that is not the
\* default one it does what it is asked.
LEMMA AfterSetType ==
  ASSUME NEW s \in SUBSET Layer, NEW l, NEW on \in BOOLEAN
  PROVE  AfterSet(s, l, on) \in SUBSET Layer
  BY DEF AfterSet

LEMMA AfterSetDoes ==
  ASSUME NEW s \in SUBSET Layer, NEW l \in Layer \ {Default}, NEW on \in BOOLEAN
  PROVE  (l \in AfterSet(s, l, on)) <=> on
  BY DEF AfterSet

LEMMA OneCall ==
  ASSUME NEW S, NEW x \in S
  PROVE  <<x>> \in Seq(S)
  OBVIOUS

LEMMA FunctionIsSeq ==
  ASSUME NEW S, NEW n \in Nat, NEW f \in [1 .. n -> S]
  PROVE  f \in Seq(S)
  <1>1. f \in UNION {[1 .. m -> S] : m \in Nat}
    OBVIOUS
  <1> QED
    BY <1>1, SeqDef

LEMMA CallType ==
  ASSUME NEW l \in 0 .. NumLayers, NEW on \in BOOLEAN
  PROVE  Set(l, on) \in Call
  BY DEF Set, Call

\* The calls a press and a release make are calls of set_layer_state.
LEMMA PressCalls ==
  ASSUME NEW b \in Binding
  PROVE  OnPress(b) \in Seq(Call)
  <1>1. b.arg \in 0 .. NumLayers /\ NumLayers \in Nat
    BY LayersAssumption DEF Binding
  <1> DEFINE on == ~ActiveWith(b.arg, layers)
             clear == [i \in 1 .. NumLayers |-> Set(NumLayers - i, FALSE)]
  <1>2. on \in BOOLEAN
    BY DEF ActiveWith
  <1> HIDE DEF on
  <1>3. <<Set(b.arg, TRUE)>> \in Seq(Call)
    <2>1. Set(b.arg, TRUE) \in Call
      BY <1>1, CallType
    <2> QED
      BY <2>1, OneCall
  <1>4. <<Set(b.arg, on)>> \in Seq(Call)
    <2>1. Set(b.arg, on) \in Call
      BY <1>1, <1>2, CallType
    <2> QED
      BY <2>1, OneCall
  <1>5. clear \in Seq(Call)
    <2>1. ASSUME NEW i \in 1 .. NumLayers PROVE Set(NumLayers - i, FALSE) \in Call
      <3>1. NumLayers - i \in 0 .. NumLayers
        BY <1>1
      <3> QED
        BY <3>1, CallType
    <2> HIDE DEF Set, Call
    <2>2. clear \in [1 .. NumLayers -> Call]
      BY <2>1
    <2> HIDE DEF clear
    <2> QED
      BY <1>1, <2>2, FunctionIsSeq
  <1> HIDE DEF clear
  <1>6. clear \o <<Set(b.arg, TRUE)>> \in Seq(Call)
    BY <1>3, <1>5, ConcatProperties
  <1>7. <<>> \in Seq(Call)
    OBVIOUS
  <1>8. CASE b.kind = "mo"
    BY <1>3, <1>8 DEF OnPress
  <1>9. CASE b.kind = "tog"
    BY <1>4, <1>9 DEF OnPress, on
  <1>10. CASE b.kind = "to"
    BY <1>6, <1>10 DEF OnPress, clear
  <1>11. CASE b.kind \notin {"mo", "tog", "to"}
    BY <1>7, <1>11 DEF OnPress
  <1> QED
    BY <1>8, <1>9, <1>10, <1>11

LEMMA ReleaseCalls ==
  ASSUME NEW b \in Binding
  PROVE  OnRelease(b) \in Seq(Call)
  <1>1. Set(b.arg, FALSE) \in Call
    BY CallType DEF Binding
  <1>2. <<Set(b.arg, FALSE)>> \in Seq(Call)
    BY <1>1, OneCall
  <1>3. <<>> \in Seq(Call)
    OBVIOUS
  <1> QED
    BY <1>2, <1>3 DEF OnRelease

LEMMA LeastOne ==
  ASSUME NEW T \in SUBSET Nat, T # {}
  PROVE  \E n \in T : \A k \in T : n <= k
  <1>0. T \subseteq Nat
    OBVIOUS
  <1> DEFINE R == OpToRel(<, Nat)
  <1>1. IsWellFoundedOn(R, Nat)
    BY NatLessThanWellFounded
  <1>2. \A n, k \in Nat : n < k => <<n, k>> \in R
    BY DEF OpToRel
  <1> HIDE DEF R
  <1>3. PICK n \in T : \A k \in T : ~(<<k, n>> \in R)
    BY <1>1, WFMin
  <1>4. ASSUME NEW k \in T PROVE n <= k
    <2>1. n \in Nat /\ k \in Nat /\ ~(<<k, n>> \in R)
      BY <1>3
    <2>2. ~(k < n)
      BY <1>2, <2>1
    <2> QED
      BY <2>1, <2>2
  <1> QED
    BY <1>4

\* A nonempty set of layers has a highest one: the least distance from the top.
LEMMA HighestLayer ==
  ASSUME NEW S \in SUBSET Layer, S # {}
  PROVE  \E l \in S : \A m \in S : m <= l
  <1> DEFINE T == {n \in Nat : NumLayers - n \in S}
  <1>1. NumLayers \in Nat
    BY LayersAssumption
  <1>2. T \subseteq Nat /\ T # {}
    <2>1. PICK l \in S : TRUE
      OBVIOUS
    <2>2. l \in 0 .. NumLayers - 1
      BY <2>1 DEF Layer
    <2>3. NumLayers - l \in Nat /\ NumLayers - (NumLayers - l) = l
      BY <1>1, <2>2
    <2> QED
      BY <2>1, <2>3
  <1>3. PICK n \in T : \A k \in T : n <= k
    BY <1>2, LeastOne
  <1>4. ASSUME NEW m \in S PROVE m <= NumLayers - n
    <2>1. m \in 0 .. NumLayers - 1
      BY <1>4 DEF Layer
    <2>2. NumLayers - m \in Nat /\ NumLayers - (NumLayers - m) = m
      BY <1>1, <2>1
    <2>3. n <= NumLayers - m
      BY <1>3, <1>4, <2>2
    <2> QED
      BY <1>1, <1>2, <2>1, <2>3
  <1> QED
    BY <1>3, <1>4

LEMMA TakerType ==
  ASSUME NEW p, NEW s
  PROVE  Taker(p, s) \in Layer \cup {NoLayer}
  <1>1. CASE Takers(p, s) = {}
    BY <1>1 DEF Taker
  <1>2. CASE Takers(p, s) # {}
    <2>1. \E l \in Takers(p, s) : \A m \in Takers(p, s) : m <= l
      <3>1. Takers(p, s) \in SUBSET Layer
        BY DEF Takers
      <3> QED
        BY <1>2, <3>1, HighestLayer
    <2>2. Taker(p, s) \in Takers(p, s)
      BY <1>2, <2>1 DEF Taker
    <2> QED
      BY <2>2 DEF Takers
  <1> QED
    BY <1>1, <1>2
-----------------------------------------------------------------------------
LoopState == [running : BOOLEAN, cursor : 0 .. NumLayers,
              target : SUBSET Layer, needed : BOOLEAN]

LEMMA IdleType == Idle \in LoopState
  <1>1. NumLayers \in 0 .. NumLayers
    BY LayersAssumption
  <1>2. {} \in SUBSET Layer
    OBVIOUS
  <1> HIDE DEF Layer
  <1> QED
    BY <1>1, <1>2 DEF Idle, LoopState

LEMMA InitOK == Init => IInv
  <1> SUFFICES ASSUME Init PROVE IInv
    OBVIOUS
  <1>1. NumLayers \in Nat \ {0} /\ Keymap0 \in [Layer -> [Position -> Binding]]
    BY LayersAssumption
  <1>2. TypeOK
    <2>1. loop \in LoopState
      BY IdleType DEF Init
    <2>2. todo \in Seq(Call)
      BY DEF Init
    <2>3. layers \subseteq Layer /\ recorded \in [Position -> SUBSET Layer]
      BY DEF Init
    <2>4. /\ down \subseteq Position /\ stale \subseteq down /\ sticky \in BOOLEAN
          /\ took \in [Position -> Layer \cup {NoLayer}]
      BY DEF Init
    <2>5. keymap \in [Layer -> [Position -> Binding]]
      BY <1>1 DEF Init
    <2> QED
      BY <2>1, <2>2, <2>3, <2>4, <2>5 DEF TypeOK, LoopState, Call
  <1>3. LoopInv
    BY DEF Init, LoopInv, Idle
  <1>4. Target({}) = {}
    BY LayersAssumption DEF Target
  <1>5. ThenIff
    BY <1>4 DEF Init, ThenIff
  <1> QED
    BY <1>2, <1>3, <1>5 DEF IInv

\* The steps that leave the layers and the loop alone keep the loop's part.
LEMMA LoopUntouched ==
  ASSUME LoopInv, ThenIff, UNCHANGED <<layers, loop>>
  PROVE  LoopInv' /\ ThenIff'
  BY DEF LoopInv, ThenIff, Target

LEMMA PressOK ==
  ASSUME IInv, NEW p \in Position, Press(p)
  PROVE  IInv'
  <1>1. TypeOK /\ LoopInv /\ ThenIff
    BY DEF IInv
  <1>2. LoopInv' /\ ThenIff'
    BY <1>1, LoopUntouched DEF Press
  <1> DEFINE l == Taker(p, layers)
  <1>3. l \in Layer \cup {NoLayer}
    BY TakerType
  <1>4. todo' \in Seq(Call)
    <2>1. CASE l = NoLayer
      BY <2>1 DEF Press
    <2>2. CASE l # NoLayer
      <3>1. keymap[l][p] \in Binding
        BY <1>1, <1>3, <2>2 DEF TypeOK
      <3>2. OnPress(keymap[l][p]) \in Seq(Call)
        BY <3>1, PressCalls
      <3> QED
        BY <2>2, <3>2 DEF Press
    <2> QED
      BY <2>1, <2>2
  <1>5. took' \in [Position -> Layer \cup {NoLayer}]
    <2>1. took' = [took EXCEPT ![p] = l]
      BY DEF Press
    <2> HIDE DEF l
    <2> QED
      BY <1>1, <1>3, <2>1 DEF TypeOK
  <1>6. recorded' \in [Position -> SUBSET Layer]
    BY <1>1 DEF Press, TypeOK
  <1>7. sticky' \in BOOLEAN
    <2>1. sticky' = (sticky \/ (l # NoLayer /\ keymap[l][p].kind \in {"tog", "to"}))
      BY DEF Press
    <2> HIDE DEF l
    <2> QED
      BY <2>1
  <1>8. down' \subseteq Position /\ stale' \subseteq down'
    BY <1>1 DEF Press, TypeOK
  <1>9. UNCHANGED <<layers, keymap, loop>>
    BY DEF Press
  <1>10. TypeOK'
    BY <1>1, <1>4, <1>5, <1>6, <1>7, <1>8, <1>9 DEF TypeOK, Call
  <1> QED
    BY <1>2, <1>10 DEF IInv

LEMMA ReleaseOK ==
  ASSUME IInv, NEW p \in Position, Release(p)
  PROVE  IInv'
  <1>1. TypeOK /\ LoopInv /\ ThenIff
    BY DEF IInv
  <1>2. LoopInv' /\ ThenIff'
    BY <1>1, LoopUntouched DEF Release
  <1> DEFINE l == Taker(p, ReleaseLayers(p))
  <1>3. l \in Layer \cup {NoLayer}
    BY TakerType
  <1>4. todo' \in Seq(Call)
    <2>1. CASE l = NoLayer
      BY <2>1 DEF Release
    <2>2. CASE l # NoLayer
      <3>1. keymap[l][p] \in Binding
        BY <1>1, <1>3, <2>2 DEF TypeOK
      <3>2. OnRelease(keymap[l][p]) \in Seq(Call)
        BY <3>1, ReleaseCalls
      <3> QED
        BY <2>2, <3>2 DEF Release
    <2> QED
      BY <2>1, <2>2
  <1>5. took' \in [Position -> Layer \cup {NoLayer}]
    <2>1. took' = [took EXCEPT ![p] = NoLayer] \/ took' = took
      BY DEF Release
    <2> QED
      BY <1>1, <2>1 DEF TypeOK
  <1>6. sticky' \in BOOLEAN
    BY <1>1 DEF Release, TypeOK
  <1>7. down' \subseteq Position /\ stale' \subseteq down'
    BY <1>1 DEF Release, TypeOK
  <1>8. UNCHANGED <<layers, recorded, keymap, loop>>
    BY DEF Release
  <1>9. TypeOK'
    BY <1>1, <1>4, <1>5, <1>6, <1>7, <1>8 DEF TypeOK, Call
  <1> QED
    BY <1>2, <1>9 DEF IInv

LEMMA SetLayerOK ==
  ASSUME IInv, SetLayer
  PROVE  IInv'
  <1>1. TypeOK /\ LoopInv /\ ThenIff
    BY DEF IInv
  <1>2. todo \in Seq(Call) /\ todo # <<>> /\ ~loop.running
    BY <1>1 DEF SetLayer, TypeOK, Call
  <1>3. Head(todo) \in Call /\ Tail(todo) \in Seq(Call)
    BY <1>2, HeadTailProperties
  <1> DEFINE s == AfterSet(layers, Head(todo).layer, Head(todo).on)
             started == [Idle EXCEPT !.running = TRUE, !.needed = TRUE]
  <1>4. s \in SUBSET Layer
    BY <1>1, <1>3, AfterSetType DEF TypeOK, Call
  <1>5. layers' = s /\ loop' = (IF s = layers THEN loop ELSE started)
    BY DEF SetLayer
  <1>6. started \in [running : BOOLEAN, cursor : 0 .. NumLayers,
                     target : SUBSET Layer, needed : BOOLEAN]
        /\ started.running /\ started.needed
    <2>1. Idle \in LoopState
      BY IdleType
    <2> QED
      BY <2>1 DEF LoopState
  <1> HIDE DEF s, started
  <1>7. TypeOK'
    BY <1>1, <1>3, <1>4, <1>5, <1>6 DEF SetLayer, TypeOK, Call
  <1>8. CASE s = layers
    <2>1. UNCHANGED <<layers, loop>>
      BY <1>5, <1>8
    <2> QED
      BY <1>1, <1>7, <2>1, LoopUntouched DEF IInv
  <1>9. CASE s # layers
    <2>1. loop'.running /\ loop'.needed
      BY <1>5, <1>6, <1>9
    <2> QED
      BY <1>7, <2>1 DEF IInv, LoopInv, ThenIff
  <1> QED
    BY <1>8, <1>9

LEMMA CondRoundOK ==
  ASSUME IInv, CondRound
  PROVE  IInv'
  <1>1. TypeOK /\ NumLayers \in Nat \ {0}
    BY LayersAssumption DEF IInv
  <1>2. Target(layers) \in SUBSET Layer
    BY TargetsAreLayers
  <1>3. TypeOK'
    <2>1. loop' = [loop EXCEPT !.needed = FALSE, !.cursor = 0, !.target = Target(layers)]
      BY DEF CondRound
    <2>2. loop' \in LoopState
      <3>1. loop \in LoopState /\ 0 \in 0 .. NumLayers
        BY <1>1 DEF TypeOK, LoopState
      <3> QED
        BY <1>2, <2>1, <3>1 DEF LoopState
    <2> QED
      BY <1>1, <2>2 DEF CondRound, TypeOK, LoopState
  <1>4. /\ loop'.running /\ loop'.cursor = 0
        /\ loop'.target = Target(layers) /\ layers' = layers
    BY <1>1 DEF CondRound, TypeOK
  <1>5. Target(layers') = Target(layers)
    BY <1>4
  <1>6. \A t \in Thens : ~(t < 0)
    BY ThensAreLayers, <1>1 DEF Layer
  <1>7. LoopInv'
    BY <1>4, <1>5, <1>6 DEF LoopInv, Target, Thens
  <1>8. ThenIff'
    BY <1>4 DEF ThenIff
  <1> QED
    BY <1>3, <1>7, <1>8 DEF IInv

LEMMA CondStepOK ==
  ASSUME IInv, CondStep
  PROVE  IInv'
  <1>1. TypeOK /\ LoopInv /\ NumLayers \in Nat \ {0}
    BY LayersAssumption DEF IInv
  <1> DEFINE l == loop.cursor
             on == l \in loop.target
             s == IF l \in Thens /\ on # ActiveWith(l, layers)
                  THEN AfterSet(layers, l, on) ELSE layers
  <1>2. loop.running /\ l \in 0 .. NumLayers /\ l < NumLayers
    BY <1>1 DEF CondStep, TypeOK
  <1>3. l \in Layer
    BY <1>1, <1>2 DEF Layer
  <1>4. s \in SUBSET Layer
    <2>1. AfterSet(layers, l, on) \in SUBSET Layer
      <3>1. on \in BOOLEAN /\ layers \in SUBSET Layer
        BY <1>1 DEF TypeOK
      <3> HIDE DEF l, on
      <3> QED
        BY <3>1, AfterSetType
    <2> QED
      BY <1>1, <2>1 DEF TypeOK
  <1>5. /\ layers' = s
        /\ loop' = [loop EXCEPT !.cursor = l + 1, !.needed = Needed(s # layers)]
    BY DEF CondStep
  <1>6. loop'.running /\ loop'.cursor = l + 1 /\ loop'.target = loop.target
        /\ loop'.needed = (loop.needed \/ s # layers)
    BY <1>1, <1>2, <1>5 DEF TypeOK, Needed
  <1>7. l \in Thens => ((l \in s) <=> on)
    <2> SUFFICES ASSUME l \in Thens PROVE (l \in s) <=> on
      OBVIOUS
    <2>1. l \in Layer \ {Default}
      BY ThensAreLayers
    <2>2. CASE on = ActiveWith(l, layers)
      BY <2>1, <2>2 DEF ActiveWith
    <2>3. CASE on # ActiveWith(l, layers)
      <3>1. (l \in AfterSet(layers, l, on)) <=> on
        <4>1. on \in BOOLEAN /\ layers \in SUBSET Layer
          BY <1>1 DEF TypeOK
        <4> HIDE DEF l, on
        <4> QED
          BY <2>1, <4>1, AfterSetDoes
      <3> QED
        BY <2>3, <3>1
    <2> QED
      BY <2>2, <2>3
  <1>8. TypeOK'
    <2> HIDE DEF s, on
    <2>1. Needed(s # layers) \in BOOLEAN
      BY <1>1 DEF Needed, TypeOK
    <2>2. l + 1 \in 0 .. NumLayers
      BY <1>1, <1>2
    <2> HIDE DEF l, Needed
    <2> QED
      BY <1>1, <1>4, <1>5, <2>1, <2>2 DEF CondStep, TypeOK
  <1>9. LoopInv'
    <2> SUFFICES ASSUME ~loop'.needed
                 PROVE  /\ loop'.target = Target(layers')
                        /\ \A t \in Thens : t < loop'.cursor
                             => ((t \in layers') <=> (t \in loop'.target))
      BY <1>6 DEF LoopInv, Target, Thens
    <2>1. ~loop.needed /\ s = layers
      BY <1>6
    <2>2. /\ loop.target = Target(layers)
          /\ \A t \in Thens : t < l => ((t \in layers) <=> (t \in loop.target))
      BY <1>1, <1>2, <2>1 DEF LoopInv
    <2>3. ASSUME NEW t \in Thens, t < l + 1
          PROVE  (t \in layers) <=> (t \in loop.target)
      <3>1. t \in Nat /\ l \in Nat
        BY <1>1, <1>2, ThensAreLayers DEF Layer
      <3>2. CASE t < l
        BY <2>2, <3>2
      <3>3. CASE t = l
        BY <1>7, <2>1, <3>3
      <3> QED
        BY <2>3, <3>1, <3>2, <3>3
    <2> QED
      BY <1>5, <1>6, <2>1, <2>2, <2>3
  <1>10. ThenIff'
    BY <1>6 DEF ThenIff
  <1> QED
    BY <1>8, <1>9, <1>10 DEF IInv

LEMMA CondDoneOK ==
  ASSUME IInv, CondDone
  PROVE  IInv'
  <1>1. TypeOK /\ LoopInv /\ NumLayers \in Nat \ {0}
    BY LayersAssumption DEF IInv
  <1>2. loop.running /\ ~loop.needed /\ loop.cursor = NumLayers
        /\ loop' = Idle /\ layers' = layers
    BY DEF CondDone
  <1>3. TypeOK'
    BY <1>1 DEF CondDone, TypeOK, Idle
  <1>4. LoopInv'
    BY <1>2 DEF LoopInv, Idle
  <1>5. ASSUME NEW t \in Thens
        PROVE  (t \in layers) <=> (t \in Target(layers))
    <2>1. t < NumLayers
      BY <1>1, ThensAreLayers DEF Layer
    <2> QED
      BY <1>1, <1>2, <2>1 DEF LoopInv
  <1>6. ThenIff'
    BY <1>2, <1>5 DEF ThenIff, Target, Thens
  <1> QED
    BY <1>3, <1>4, <1>6 DEF IInv

LEMMA RemapOK ==
  ASSUME IInv, NEW r \in Remaps, Remap(r[1], r[2], r[3])
  PROVE  IInv'
  <1>1. TypeOK /\ LoopInv /\ ThenIff
    BY DEF IInv
  <1>2. r[1] \in Layer /\ r[2] \in Position /\ r[3] \in Binding
    BY LayersAssumption
  <1>3. keymap' \in [Layer -> [Position -> Binding]]
    <2>1. keymap' = [keymap EXCEPT ![r[1]][r[2]] = r[3]]
      BY DEF Remap
    <2> QED
      BY <1>1, <1>2, <2>1 DEF TypeOK
  <1>4. stale' \subseteq down' /\ down' = down
    BY <1>1, <1>2 DEF Remap, TypeOK
  <1>5. UNCHANGED <<layers, recorded, todo, loop, took, sticky>>
    BY DEF Remap
  <1>6. TypeOK'
    BY <1>1, <1>3, <1>4, <1>5 DEF TypeOK
  <1> QED
    BY <1>1, <1>5, <1>6, LoopUntouched DEF IInv

LEMMA StepOK == IInv /\ [Next]_vars => IInv'
  <1> SUFFICES ASSUME IInv, [Next]_vars PROVE IInv'
    OBVIOUS
  <1>1. CASE UNCHANGED vars
    BY <1>1 DEF vars, IInv, TypeOK, LoopInv, ThenIff, Target, Thens
  <1>2. CASE Next
    BY <1>2, PressOK, ReleaseOK, SetLayerOK, CondRoundOK, CondStepOK, CondDoneOK,
       RemapOK DEF Next
  <1> QED
    BY <1>1, <1>2

\* Every variable keeps its type: in particular set_layer_state never records
\* a layer that does not exist, whatever index a binding holds.
THEOREM TypeCorrect == Spec => []TypeOK
  <1>1. IInv => TypeOK
    BY DEF IInv
  <1> QED
    BY InitOK, StepOK, <1>1, PTL DEF Spec

\* When the conditional-layer listener (layer_state_changed_listener) is at
\* rest, every then-layer agrees with its configurations' if-layers.
THEOREM ConditionalLayersRight == Spec => []ThenIff
  <1>1. IInv => ThenIff
    BY DEF IInv
  <1> QED
    BY InitOK, StepOK, <1>1, PTL DEF Spec
-----------------------------------------------------------------------------
(* Releases *)

\* What the code looks up again at the release is what took the press.
TookInv ==
  /\ ReleaseReachesPresser
  /\ \A p \in down \ stale : took[p] = Taker(p, recorded[p])

\* The lookup of a position depends on the bindings of that position only.
LEMMA TakerSame ==
  ASSUME NEW p, NEW s, \A l \in Layer : keymap'[l][p] = keymap[l][p]
  PROVE  Taker(p, s)' = Taker(p, s)
  <1>1. Takers(p, s)' = Takers(p, s)
    BY DEF Takers, ActiveWith
  <1> QED
    BY <1>1 DEF Taker

LEMMA TookUntouched ==
  ASSUME TypeOK, TookInv, UNCHANGED <<recorded, keymap, down, took, stale>>
  PROVE  TookInv'
  <1>1. ASSUME NEW p \in down \ stale PROVE took'[p] = Taker(p, recorded[p])'
    <2>1. Taker(p, recorded[p])' = Taker(p, recorded[p])
      BY DEF Taker, Takers
    <2> QED
      BY <2>1 DEF TookInv
  <1> QED
    BY <1>1 DEF TookInv, ReleaseReachesPresser

LEMMA TookStep ==
  ASSUME TypeOK, TookInv, [Next]_vars
  PROVE  TookInv'
  <1>1. CASE SetLayer \/ CondRound \/ CondStep \/ CondDone \/ UNCHANGED vars
    <2>1. UNCHANGED <<recorded, keymap, down, took, stale>>
      BY <1>1 DEF SetLayer, CondRound, CondStep, CondDone, vars
    <2> QED
      BY <2>1, TookUntouched
  <1>2. ASSUME NEW p \in Position, Press(p) PROVE TookInv'
    <2>1. /\ p \notin down /\ p \notin stale /\ keymap' = keymap
          /\ down' = down \cup {p} /\ stale' = stale
          /\ recorded' = [recorded EXCEPT ![p] = layers]
          /\ took' = [took EXCEPT ![p] = Taker(p, layers)]
      BY <1>2 DEF Press, TypeOK
    <2>2. ASSUME NEW q \in down' \ stale' PROVE took'[q] = Taker(q, recorded[q])'
      <3>1. CASE q = p
        <4>1. took'[p] = Taker(p, layers) /\ recorded'[p] = layers
          BY <2>1 DEF TypeOK
        <4>2. Takers(p, recorded[p])' = Takers(p, layers)
          BY <2>1, <4>1 DEF Takers
        <4>3. Taker(p, recorded[p])' = Taker(p, layers)
          BY <4>2 DEF Taker
        <4> QED
          BY <3>1, <4>1, <4>3
      <3>2. CASE q # p
        <4>1. q \in down \ stale /\ took'[q] = took[q] /\ recorded'[q] = recorded[q]
          BY <2>1, <2>2, <3>2 DEF TypeOK
        <4>2. Takers(q, recorded[q])' = Takers(q, recorded[q])
          BY <2>1, <4>1 DEF Takers
        <4>3. Taker(q, recorded[q])' = Taker(q, recorded[q])
          BY <4>2 DEF Taker
        <4> QED
          BY <4>1, <4>3 DEF TookInv
      <3> QED
        BY <3>1, <3>2
    <2>3. ASSUME NEW q \in Position \ down' PROVE took'[q] = NoLayer
      BY <2>1, <2>3 DEF TookInv, ReleaseReachesPresser, TypeOK
    <2> QED
      BY <2>2, <2>3 DEF TookInv, ReleaseReachesPresser
  <1>3. ASSUME NEW p \in Position, Release(p) PROVE TookInv'
    <2>1. /\ p \in down /\ keymap' = keymap /\ recorded' = recorded
          /\ down' = down \ {p} /\ stale' = stale \ {p}
          /\ took' = IF Taker(p, recorded[p]) = took[p] \/ p \in stale
                     THEN [took EXCEPT ![p] = NoLayer] ELSE took
      BY <1>3 DEF Release, ReleaseLayers
    <2>2. took' = [took EXCEPT ![p] = NoLayer]
      BY <2>1 DEF TookInv
    <2>3. ASSUME NEW q \in down' \ stale' PROVE took'[q] = Taker(q, recorded[q])'
      <3>1. q \in down \ stale /\ q # p
        BY <2>1, <2>3
      <3>2. Taker(q, recorded[q])' = Taker(q, recorded[q])
        BY <2>1 DEF Taker, Takers
      <3> QED
        BY <2>2, <3>1, <3>2 DEF TookInv, TypeOK
    <2>4. ASSUME NEW q \in Position \ down' PROVE took'[q] = NoLayer
      BY <2>1, <2>2, <2>4 DEF TookInv, ReleaseReachesPresser, TypeOK
    <2> QED
      BY <2>3, <2>4 DEF TookInv, ReleaseReachesPresser
  <1>4. ASSUME NEW r \in Remaps, Remap(r[1], r[2], r[3]) PROVE TookInv'
    <2>1. /\ keymap' = [keymap EXCEPT ![r[1]][r[2]] = r[3]]
          /\ stale' = IF r[2] \in down THEN stale \cup {r[2]} ELSE stale
          /\ UNCHANGED <<recorded, down, took>>
      BY <1>4 DEF Remap
    <2>2. r[1] \in Layer /\ r[2] \in Position
      BY LayersAssumption
    <2>3. ASSUME NEW q \in down' \ stale' PROVE took'[q] = Taker(q, recorded[q])'
      <3>1. q \in down \ stale /\ q # r[2]
        BY <2>1, <2>3
      <3>2. \A l \in Layer : keymap'[l][q] = keymap[l][q]
        BY <2>1, <2>2, <3>1 DEF TypeOK
      <3>3. Taker(q, recorded[q])' = Taker(q, recorded[q])
        <4> DEFINE s == recorded[q]
        <4>1. \A t : Taker(q, t)' = Taker(q, t)
          BY <3>2, TakerSame
        <4> QED
          BY <2>1, <4>1
      <3> QED
        BY <2>1, <3>1, <3>3 DEF TookInv
    <2> QED
      BY <2>1, <2>3 DEF TookInv, ReleaseReachesPresser
  <1> QED
    BY <1>1, <1>2, <1>3, <1>4 DEF Next

\* Whatever layers change while a key is held, its release runs the binding that
\* took its press (zmk_keymap_active_behavior_layer in keymap.c).
THEOREM ReleasesReachPressers == Spec => []ReleaseReachesPresser
  <1>1. Init => TookInv
    BY DEF Init, TookInv, ReleaseReachesPresser
  <1>2. TypeOK /\ TookInv /\ [Next]_vars => TookInv'
    BY TookStep
  <1>3. TookInv => ReleaseReachesPresser
    BY DEF TookInv
  <1> QED
    BY <1>1, <1>2, <1>3, TypeCorrect, PTL DEF Spec
-----------------------------------------------------------------------------
(* Leaks *)

\* A key that is down holds a layer up if its &mo of that layer took the press,
\* or if it was remapped, when nothing is known of it.
Held(l) == \E p \in down :
  \/ p \in stale
  \/ took[p] # NoLayer /\ keymap[took[p]][p].kind = "mo" /\ keymap[took[p]][p].arg = l

\* Every active layer is a then-layer, or held, or about to be switched off, and
\* the call under way activates only a layer that is held.
LeakInv == ~sticky =>
  /\ \A l \in layers \ {Default} : l \in Thens \/ Held(l) \/ todo = <<Set(l, FALSE)>>
  /\ todo # <<>> => \E c \in Call : todo = <<c>> /\ (c.on => Held(c.layer))

\* No conditional layer keeps itself up: some order of the layers puts a layer
\* that a then-layer needs below it.
Grounded == \E rank \in [Layer -> Nat] :
  \A c \in Conds : \E i \in c.ifs \ {Default} : rank[i] < rank[c.then]

LEMMA LeakPress ==
  ASSUME TypeOK, LeakInv, NEW p \in Position, Press(p)
  PROVE  LeakInv'
  <1> SUFFICES ASSUME ~sticky' PROVE LeakInv'
    BY DEF LeakInv
  <1>0. PICK l0 : l0 = Taker(p, layers)
    OBVIOUS
  <1> DEFINE b == keymap[l0][p]
  <1>1. /\ todo = <<>> /\ p \notin down
        /\ took' = [took EXCEPT ![p] = l0]
        /\ todo' = IF l0 = NoLayer THEN <<>> ELSE OnPress(b)
        /\ ~sticky /\ (l0 = NoLayer \/ b.kind \notin {"tog", "to"})
        /\ down' = down \cup {p} /\ UNCHANGED <<layers, keymap, stale>>
    BY <1>0 DEF Press, Quiet
  <1>2. l0 \in Layer \cup {NoLayer}
    BY <1>0, TakerType
  <1>3. ASSUME NEW l, Held(l) PROVE Held(l)'
    <2>1. PICK q \in down :
            \/ q \in stale
            \/ took[q] # NoLayer /\ keymap[took[q]][q].kind = "mo" /\ keymap[took[q]][q].arg = l
      BY <1>3 DEF Held
    <2>2. q # p /\ took'[q] = took[q] /\ q \in down'
      BY <1>1, <2>1 DEF TypeOK
    <2> QED
      BY <1>1, <2>1, <2>2 DEF Held
  <1>4. ASSUME NEW l \in layers' \ {Default} PROVE l \in Thens \/ Held(l)'
    <2>1. todo # <<Set(l, FALSE)>>
      BY <1>1
    <2>2. l \in Thens \/ Held(l)
      BY <1>1, <1>4, <2>1 DEF LeakInv
    <2> QED
      BY <1>3, <2>2
  <1>5. ASSUME todo' # <<>>
        PROVE  \E c \in Call : todo' = <<c>> /\ (c.on => Held(c.layer)')
    <2>1. l0 \in Layer /\ l0 # NoLayer /\ todo' = OnPress(b)
      BY <1>1, <1>2, <1>5, LayersAssumption DEF NoLayer, Layer
    <2>2. b \in Binding
      BY <2>1 DEF TypeOK
    <2>3. b.kind = "mo" /\ todo' = <<Set(b.arg, TRUE)>>
      BY <1>1, <1>5, <2>1 DEF OnPress
    <2>4. PICK c \in Call : c = Set(b.arg, TRUE)
      BY <2>2, CallType DEF Binding
    <2>5. c.layer = b.arg
      BY <2>4 DEF Set
    <2>6. p \in down' /\ took'[p] = l0 /\ keymap'[l0][p] = b
      BY <1>1, <2>1 DEF TypeOK
    <2>7. Held(c.layer)'
      BY <2>1, <2>3, <2>5, <2>6 DEF Held, NoLayer
    <2> QED
      BY <2>3, <2>4, <2>7
  <1> QED
    BY <1>4, <1>5 DEF LeakInv, Thens, Call

LEMMA LeakRelease ==
  ASSUME TypeOK, TookInv, LeakInv, NEW p \in Position, Release(p)
  PROVE  LeakInv'
  <1> SUFFICES ASSUME ~sticky' PROVE LeakInv'
    BY DEF LeakInv
  <1> DEFINE l0 == took[p]
             b == keymap[l0][p]
  <1>1. /\ todo = <<>> /\ p \in down /\ ~sticky /\ p \notin stale
        /\ down' = down \ {p} /\ stale' = stale \ {p} /\ UNCHANGED <<layers, keymap>>
    BY DEF Release, Quiet
  <1>2. l0 = Taker(p, recorded[p])
    BY <1>1 DEF TookInv
  <1>3. /\ todo' = IF l0 = NoLayer THEN <<>> ELSE OnRelease(b)
        /\ took' = [took EXCEPT ![p] = NoLayer]
    BY <1>2 DEF Release, ReleaseLayers
  <1>4. ASSUME NEW l, Held(l)
        PROVE  Held(l)' \/ todo' = <<Set(l, FALSE)>>
    <2>1. PICK q \in down :
            \/ q \in stale
            \/ took[q] # NoLayer /\ keymap[took[q]][q].kind = "mo" /\ keymap[took[q]][q].arg = l
      BY <1>4 DEF Held
    <2>2. CASE q # p
      <3>1. took'[q] = took[q] /\ q \in down' /\ (q \in stale => q \in stale')
        BY <1>1, <1>3, <2>1, <2>2 DEF TypeOK
      <3> QED
        BY <1>1, <2>1, <3>1 DEF Held
    <2>3. CASE q = p
      BY <1>1, <1>3, <2>1, <2>3 DEF OnRelease
    <2> QED
      BY <2>2, <2>3
  <1>5. ASSUME NEW l \in layers' \ {Default}
        PROVE  l \in Thens \/ Held(l)' \/ todo' = <<Set(l, FALSE)>>
    <2>1. todo # <<Set(l, FALSE)>>
      BY <1>1
    <2>2. l \in Thens \/ Held(l)
      BY <1>1, <1>5, <2>1 DEF LeakInv
    <2> QED
      BY <1>4, <2>2
  <1>6. ASSUME todo' # <<>>
        PROVE  \E c \in Call : todo' = <<c>> /\ (c.on => Held(c.layer)')
    <2>1. l0 \in Layer
      BY <1>1, <1>3, <1>6 DEF TypeOK
    <2>2. b \in Binding
      BY <2>1 DEF TypeOK
    <2>3. todo' = <<Set(b.arg, FALSE)>>
      BY <1>3, <1>6 DEF OnRelease
    <2>4. Set(b.arg, FALSE) \in Call
      BY <2>2, CallType DEF Binding
    <2> QED
      BY <2>3, <2>4 DEF Set
  <1> QED
    BY <1>5, <1>6 DEF LeakInv, Thens, Call, Set

LEMMA LeakSetLayer ==
  ASSUME TypeOK, LeakInv, SetLayer
  PROVE  LeakInv'
  <1> SUFFICES ASSUME ~sticky' PROVE LeakInv'
    BY DEF LeakInv
  <1>1. /\ ~sticky /\ todo # <<>> /\ todo' = Tail(todo)
        /\ layers' = AfterSet(layers, Head(todo).layer, Head(todo).on)
        /\ UNCHANGED <<keymap, down, took, stale>>
    BY DEF SetLayer
  <1>2. PICK c \in Call : todo = <<c>> /\ (c.on => Held(c.layer))
    BY <1>1 DEF LeakInv
  <1>3. todo' = <<>> /\ layers' = AfterSet(layers, c.layer, c.on)
    BY <1>1, <1>2
  <1>4. ASSUME NEW l, Held(l) PROVE Held(l)'
    BY <1>1, <1>4 DEF Held
  <1>5. ASSUME NEW l \in layers' \ {Default} PROVE l \in Thens \/ Held(l)
    <2>1. CASE l \in layers
      <3>1. ASSUME todo = <<Set(l, FALSE)>> PROVE FALSE
        <4>1. c = Set(l, FALSE)
          <5>1. todo[1] = c
            BY <1>2
          <5>2. todo[1] = Set(l, FALSE)
            BY <3>1
          <5> QED
            BY <5>1, <5>2
        <4>2. l \in Layer /\ layers' = AfterSet(layers, l, FALSE)
          BY <1>3, <2>1, <4>1 DEF Set, TypeOK
        <4>3. l \notin AfterSet(layers, l, FALSE)
          BY <1>5, <4>2, AfterSetDoes DEF TypeOK
        <4> QED
          BY <1>5, <4>2, <4>3
      <3> QED
        BY <1>1, <1>5, <2>1, <3>1 DEF LeakInv
    <2>2. CASE l \notin layers
      BY <1>2, <1>3, <1>5, <2>2 DEF AfterSet
    <2> QED
      BY <2>1, <2>2
  <1> QED
    BY <1>3, <1>4, <1>5 DEF LeakInv, Thens

LEMMA LeakRest ==
  ASSUME TypeOK, LeakInv, UNCHANGED <<todo, down, took, sticky>>,
         layers' \subseteq layers \cup Thens,
         \A l : Held(l) => Held(l)'
  PROVE  LeakInv'
  BY DEF LeakInv, Thens, Call, Set

LEMMA LeakStep ==
  ASSUME TypeOK, TookInv, LeakInv, [Next]_vars
  PROVE  LeakInv'
  <1>1. CASE CondRound \/ CondStep \/ CondDone \/ UNCHANGED vars
    <2>1. UNCHANGED <<todo, keymap, down, took, stale, sticky>>
      BY <1>1 DEF CondRound, CondStep, CondDone, vars
    <2>2. layers' \subseteq layers \cup Thens
      BY <1>1 DEF CondRound, CondStep, CondDone, vars, AfterSet
    <2>3. \A l : Held(l) => Held(l)'
      BY <2>1 DEF Held
    <2> QED
      BY <2>1, <2>2, <2>3, LeakRest
  <1>2. ASSUME NEW r \in Remaps, Remap(r[1], r[2], r[3]) PROVE LeakInv'
    <2>1. /\ keymap' = [keymap EXCEPT ![r[1]][r[2]] = r[3]]
          /\ stale' = IF r[2] \in down THEN stale \cup {r[2]} ELSE stale
          /\ UNCHANGED <<layers, todo, down, took, sticky>>
      BY <1>2 DEF Remap
    <2>2. r[1] \in Layer /\ r[2] \in Position
      BY LayersAssumption
    <2>3. ASSUME NEW l, Held(l) PROVE Held(l)'
      <3>1. PICK q \in down :
              \/ q \in stale
              \/ took[q] # NoLayer /\ keymap[took[q]][q].kind = "mo" /\ keymap[took[q]][q].arg = l
        BY <2>3 DEF Held
      <3>2. CASE q = r[2]
        BY <2>1, <3>1, <3>2 DEF Held
      <3>3. CASE q # r[2]
        <4>1. took[q] # NoLayer => keymap'[took[q]][q] = keymap[took[q]][q]
          <5>1. q \in Position /\ took[q] \in Layer \cup {NoLayer}
            BY <3>1 DEF TypeOK
          <5> QED
            BY <2>1, <2>2, <3>3, <5>1 DEF TypeOK
        <4> QED
          BY <2>1, <3>1, <4>1 DEF Held
      <3> QED
        BY <3>2, <3>3
    <2> QED
      BY <2>1, <2>3, LeakRest
  <1> QED
    BY <1>1, <1>2, LeakPress, LeakRelease, LeakSetLayer DEF Next

\* With nothing held and nothing under way, every active layer is a then-layer
\* whose if-layers are active, so a lowest one in the order cannot exist.
LEMMA GroundedNoLeak ==
  ASSUME Grounded, TypeOK, ThenIff, LoopInv, LeakInv, Quiet, down = {}, ~sticky
  PROVE  layers \subseteq {Default}
  <1> SUFFICES ASSUME layers \ {Default} # {} PROVE FALSE
    OBVIOUS
  <1>1. PICK rank \in [Layer -> Nat] :
          \A c \in Conds : \E i \in c.ifs \ {Default} : rank[i] < rank[c.then]
    BY DEF Grounded
  <1>2. ASSUME NEW l \in layers \ {Default}
        PROVE  \E m \in layers \ {Default} : rank[m] < rank[l]
    <2>1. todo # <<Set(l, FALSE)>>
      BY DEF Quiet
    <2>2. l \in Thens
      BY <1>2, <2>1 DEF LeakInv, Held
    <2>3. l \in Target(layers)
      BY <1>2, <2>2 DEF ThenIff, Quiet
    <2>4. PICK c \in Conds : c.ifs \subseteq layers /\ c.then = l
      BY <2>3 DEF Target
    <2> QED
      BY <1>1, <2>4
  <1> DEFINE T == {rank[l] : l \in layers \ {Default}}
  <1>3. T \in SUBSET Nat /\ T # {}
    BY DEF TypeOK
  <1> HIDE DEF T
  <1>4. PICK n \in T : \A k \in T : n <= k
    BY <1>3, LeastOne
  <1> USE DEF T
  <1>5. PICK l \in layers \ {Default} : n = rank[l]
    BY <1>4
  <1>6. PICK m \in layers \ {Default} : rank[m] < rank[l]
    BY <1>2
  <1>7. rank[m] \in T
    BY <1>6
  <1> HIDE DEF T
  <1>8. rank[m] \in Nat /\ n \in Nat
    BY <1>3, <1>4, <1>7
  <1> QED
    BY <1>4, <1>5, <1>6, <1>7, <1>8

\* With every key up, momentary layers (&mo in behavior_momentary_layer.c) and
\* conditional layers built on them are off again, as long as no conditional
\* layer is among the layers it depends on itself.
THEOREM LayersNeverLeak ==
  ASSUME Grounded
  PROVE  Spec => []NoLayerLeak
  <1>1. Init => IInv /\ TookInv /\ LeakInv
    <2>1. Init => TookInv /\ LeakInv
      BY DEF Init, TookInv, ReleaseReachesPresser, LeakInv
    <2> QED
      BY <2>1, InitOK
  <1>2. IInv /\ TookInv /\ LeakInv /\ [Next]_vars => (IInv /\ TookInv /\ LeakInv)'
    <2>1. IInv => TypeOK
      BY DEF IInv
    <2> QED
      BY <2>1, StepOK, TookStep, LeakStep
  <1>3. IInv /\ TookInv /\ LeakInv => NoLayerLeak
    BY GroundedNoLeak DEF IInv, NoLayerLeak
  <1> QED
    BY <1>1, <1>2, <1>3, PTL DEF Spec
=============================================================================
