--------------------------- MODULE NotificationSlot ---------------------------
(***************************************************************************)
(* What a session's lock-screen slot promises, whatever queue feeds it:    *)
(* the herd's summaries are numbered as they are wanted, and the device    *)
(* moves only forward through them, skipping those that were overtaken or  *)
(* lost.                                                                   *)
(***************************************************************************)
EXTENDS Naturals

VARIABLES
  wanted,  \* number of the newest summary
  shown    \* number of the summary the device shows; 0: none yet

slotVars == <<wanted, shown>>

Init == wanted = 0 /\ shown = 0

Want == wanted' = wanted + 1 /\ shown' = shown

Show ==
  /\ shown' \in shown + 1 .. wanted
  /\ wanted' = wanted

Next == Want \/ Show

Spec == Init /\ [][Next]_slotVars
=============================================================================
