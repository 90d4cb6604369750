---------------------------- MODULE MCDeviceLoop ----------------------------
(* DeviceLoop with one rule for each edge and a queue that two commands     *)
(* fill.                                                                   *)
EXTENDS DeviceLoop

MCHold == [rising \in BOOLEAN |-> 1]
MCInputActions == [rising \in BOOLEAN |-> IF rising THEN {"relay_pulse", "uplink"} ELSE {"load"}]
MCCommands == {{"load", "uplink"}, {"relay_on", "uplink"}}

=============================================================================
