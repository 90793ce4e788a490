----------------------------- MODULE MCStickyKey ----------------------------
(***************************************************************************)
(* Three sticky modifiers, two letters and an ordinary shift key.          *)
(***************************************************************************)
EXTENDS StickyKey, TLC

CONSTANTS shift, ctrl, alt, a, b

C(code, quick, lazy, ignore) ==
  [code |-> code, quick |-> quick, lazy |-> lazy, ignoreMods |-> ignore]

MCModifier == {shift, ctrl, alt}
MCKey == {"A", "B", "Shift"}
MCCodeOf == "A" :> a @@ "B" :> b @@ "Shift" :> shift

ThreeSticky == {"sk1", "sk2", "sk3"}

\* A chaining one, a quick one, and a quick one that is lazy.
Three ==
  "sk1" :> C(shift, FALSE, FALSE, FALSE) @@ "sk2" :> C(ctrl, TRUE, FALSE, TRUE)
  @@ "sk3" :> C(alt, TRUE, TRUE, TRUE)

\* Three lazy ones that all put each other to use, and an ordinary ctrl key.
Circle ==
  "sk1" :> C(shift, FALSE, TRUE, FALSE) @@ "sk2" :> C(ctrl, FALSE, TRUE, FALSE)
  @@ "sk3" :> C(alt, FALSE, TRUE, FALSE)
CircleKey == {"Ctrl"}
CircleCodeOf == "Ctrl" :> ctrl
=============================================================================
