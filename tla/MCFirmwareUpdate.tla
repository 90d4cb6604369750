---------------------------- MODULE MCFirmwareUpdate ----------------------------
(* FirmwareUpdate and the USB tunnel on one new bundle "b", whose file may   *)
(* be good or hold a damaged image for the ESP8684.                         *)
EXTENDS FirmwareUpdate

MCFiles == {[bundle |-> "b", control |-> "b", esp |-> "b"],
            [bundle |-> "b", control |-> "b", esp |-> "damaged"]}
=============================================================================
