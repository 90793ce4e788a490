------------------------------ MODULE MCLayers ------------------------------
(***************************************************************************)
(* Small keymaps for Layers: three keys on five layers.                    *)
(***************************************************************************)
EXTENDS Layers, TLC

B(k, a) == [kind |-> k, arg |-> a]
T == B("trans", 0)
Kp == B("kp", 0)

MCNumLayers == 5
MCPosition == {"a", "b", "c"}

\* A lower and a raise key, and a third whose layer-0 function is &to 0. On
\* layer 1 the raise key is an ordinary key and on layer 2 the lower key is.
MCKeymap ==
  [l \in 0 .. 4 |->
    CASE l = 0 -> ("a" :> B("mo", 1) @@ "b" :> B("mo", 2) @@ "c" :> B("to", 0))
      [] l = 1 -> ("a" :> Kp @@ "b" :> T @@ "c" :> B("mo", 3))
      [] l = 2 -> ("a" :> T @@ "b" :> Kp @@ "c" :> B("tog", 1))
      [] l = 3 -> ("a" :> Kp @@ "b" :> Kp @@ "c" :> T)
      [] l = 4 -> ("a" :> T @@ "b" :> T @@ "c" :> Kp)]

\* Tri-layer: lower and raise together give adjust; adjust gives one more layer,
\* which the loop finds in a second round.
TriLayer == {[ifs |-> {1, 2}, then |-> 3], [ifs |-> {3}, then |-> 4]}

\* Two configurations that depend on each other.
MutualLayers == {[ifs |-> {1}, then |-> 2], [ifs |-> {2}, then |-> 1]}

\* The launcher turns the lower key into an ordinary one, into one that names
\* a layer that does not exist, and back.
MCRemaps == {<<0, "a", Kp>>, <<0, "a", B("mo", 5)>>, <<0, "a", B("mo", 1)>>}
NoRemaps == {}
=============================================================================
