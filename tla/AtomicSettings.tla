---------------------------- MODULE AtomicSettings ----------------------------
(***************************************************************************)
(* What the settings portal of the STM32 promises of a save: the settings   *)
(* and the LoRaWAN credentials it carries take effect together or not at    *)
(* all, whenever power is lost, and what is reported as saved has taken     *)
(* effect.  A save reported as failed may still have.                      *)
(***************************************************************************)

CONSTANTS
    States      \* settings together with credentials

VARIABLES
    inForce,    \* what a boot would bring into force
    offer,      \* what the save under way carries, or nothing: a set
    report      \* "none", "done" or "failed": how the last save ended

Init == inForce \in States /\ offer = {} /\ report = "none"

(* A save begins.                                                          *)
Offer ==
    /\ offer = {}
    /\ \E state \in States : offer' = {state}
    /\ report' = "none"
    /\ UNCHANGED inForce

(* The save takes effect, whole, before it is reported.                     *)
Take ==
    /\ inForce' \in offer
    /\ UNCHANGED <<offer, report>>

(* The save is reported; it may take effect just then.                      *)
Conclude ==
    /\ offer # {}
    /\ inForce' \in {inForce} \cup offer
    /\ report' \in {"done", "failed"}
    /\ report' = "done" => inForce' \in offer
    /\ offer' = {}

(* A save that is refused at once.                                         *)
Refuse ==
    /\ offer = {}
    /\ report' = "failed"
    /\ UNCHANGED <<inForce, offer>>

PowerLoss ==
    /\ offer' = {} /\ report' = "none"
    /\ UNCHANGED inForce

Next == Offer \/ Take \/ Conclude \/ Refuse \/ PowerLoss

Spec == Init /\ [][Next]_<<inForce, offer, report>>

=============================================================================
