-------------------------------- MODULE Links -------------------------------
(***************************************************************************)
(* The keyboard on one of its radio links. The switch of the modes resets  *)
(* the chip (MOD_BLE and MOD_PPT of behavior_keychron.c), so a session has *)
(* one link; what the two share is Power, and each keeps its bonds.        *)
(***************************************************************************)
EXTENDS PptLink, Ble

vars == <<power, pptVars, bleVars>>

Init ==
  /\ \E t \in {"ble", "ppt"} : PowerOn(t)
  /\ PptInit /\ BleInit
  /\ sleepWork = (transport = "ppt" /\ status = "idle")
  /\ transport = "ble" => ~bonded

OnPpt == /\ transport = "ppt" /\ UNCHANGED bleVars
         /\ PptNext \/ (Free /\ SleepWorker /\ UNCHANGED pptVars)
OnBle == /\ transport = "ble" /\ UNCHANGED pptVars
         /\ BleNext \/ (Idle /\ SleepWorker /\ UNCHANGED bleVars)
Next == OnPpt \/ OnBle

Spec == Init /\ [][Next]_vars /\ PptFairness /\ BleFairness
-----------------------------------------------------------------------------
TypeOK == PowerTypeOK /\ PptTypeOK /\ BleTypeOK

\* The types, and the reports in their order.
LinksSound == TypeOK /\ Delivered
=============================================================================
