----------------------------- MODULE BleCommand -----------------------------
(***************************************************************************)
(* What src/stm32/esp_companion.h promises the application of a Bluetooth  *)
(* command: companionRequestVictronLoad takes one command at a time, the   *)
(* command ends once, with a result of the ESP or with the companion's own *)
(* timeout, and companionTakeVictronResult hands that result over once.    *)
(***************************************************************************)

CONSTANTS
    Codes,      \* the outcomes a command may have
    Nothing     \* no outcome

VARIABLES
    phase,      \* "idle", "running" or "done"
    outcome     \* the outcome that waits to be collected

Init == phase = "idle" /\ outcome = Nothing

Request ==
    /\ phase = "idle"
    /\ phase' = "running"
    /\ UNCHANGED outcome

Conclude ==
    /\ phase = "running"
    /\ phase' = "done"
    /\ outcome' \in Codes

Collect ==
    /\ phase = "done"
    /\ phase' = "idle"
    /\ outcome' = Nothing

Next == Request \/ Conclude \/ Collect

Spec == Init /\ [][Next]_<<phase, outcome>>

=============================================================================
