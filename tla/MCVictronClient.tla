--------------------------- MODULE MCVictronClient ---------------------------
(* VictronClient with one request of each kind.                            *)
EXTENDS VictronClient

Asks(profile, mode, pairing, known, instance, attempts) ==
    [profile |-> profile, mode |-> mode, pairing |-> pairing, known |-> known,
     instance |-> instance, attempts |-> attempts]
MCRequests == {Asks("mppt", "on", FALSE, FALSE, 0, 2), Asks("mppt", "auto", FALSE, TRUE, 1, 1),
               Asks("battery", "off", FALSE, TRUE, 0, 1),
               Asks("write", "on", FALSE, FALSE, 0, 1), Asks("reread", "on", TRUE, TRUE, 0, 2)}
MCDevices == {[mode |-> "on", output |-> "dark", matches |-> TRUE],
              [mode |-> "auto", output |-> "dark", matches |-> FALSE]}

=============================================================================
