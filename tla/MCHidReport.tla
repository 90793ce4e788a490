----------------------------- MODULE MCHidReport ----------------------------
(***************************************************************************)
(* Small instances of HidReport: two key slots, one consumer slot.        *)
(***************************************************************************)
EXTENDS HidReport, TLC

CONSTANTS ctrl, shift, A, B, C, W, vol, mute, button1, usb, ble

Ev(code, imp, exp) == [code |-> code, imp |-> imp, exp |-> exp]

MCMod == {ctrl, shift}
MCKey == {A, B, C, W}
MCWide == {W}
MCMedia == {vol, mute}

\* Two keys for A, so that a key can be pressed twice; with W, which is too large
\* for the bit report, C fills the slots. &kp LS(LCTRL) and &kp LS(C_MUTE), were
\* their shift registered explicitly, share a modifier.
RolloverEvents ==
  "a1" :> Ev(A, {}, None) @@ "a2" :> Ev(A, {}, None) @@ "w" :> Ev(W, {}, None)
  @@ "c" :> Ev(C, {}, None) @@ "cs" :> Ev(ctrl, {}, shift) @@ "sm" :> Ev(mute, {}, shift)

\* Two letters that take the slots, and &kp LS(A).
ImplicitEvents ==
  "b" :> Ev(B, {}, None) @@ "c" :> Ev(C, {}, None) @@ "la" :> Ev(A, {shift}, None)

RolloverSources == DOMAIN RolloverEvents
ImplicitSources == DOMAIN ImplicitEvents

OneEndpoint == {usb}
TwoEndpoints == {usb, ble}
=============================================================================
