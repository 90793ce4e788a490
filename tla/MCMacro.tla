------------------------------- MODULE MCMacro ------------------------------
(* Keyboards for TLC: a macro with two halves beside a launcher macro, one  *)
(* macro that runs another, a malformed launcher macro.                     *)
EXTENDS Macro, TLC

B(kind, wait) == [kind |-> kind, wait |-> wait, key |-> ""]
K(key) == [kind |-> "key", wait |-> 0, key |-> key]
S(code, key) == [code |-> code, key |-> key]
M(bindings) == [bindings |-> bindings, tap |-> 1, wait |-> 1]

Empty == [m \in {} |-> {}]

\* Press a key, tap another one; let go of the first on release.
Halves == M(<<B("press", 0), K("a"), B("tap", 0), B("wait-time", 0), K("b"),
              B("pause", 0), B("release", 0), K("a")>>)
Shifted == <<S("down", "s"), S("tap", "x"), S("delay", ""), S("up", "s")>>

MCSetups ==
  {[dts |-> Empty, launcher |-> "l" :> Shifted, wait |-> w] : w \in {0, 1}}
  \cup {[dts |-> "m" :> Halves @@ "n" :> M(<<K("c"), K("m")>>), launcher |-> Empty, wait |-> 1],
        [dts |-> Empty, launcher |-> "l" :> Shifted @@ "bad" :> <<S("down", "s"), S("bad", "")>>,
         wait |-> 1]}

\* Macros of both kinds at once.
MCBoth ==
  {[dts |-> "m" :> Halves, launcher |-> "l" :> Shifted, wait |-> 0]}
\* A launcher macro that ends with a wait.
Waiting == <<S("tap", "x"), S("delay", "")>>
MCWaits == {[dts |-> Empty, launcher |-> "l" :> Waiting, wait |-> 0]}
=============================================================================
