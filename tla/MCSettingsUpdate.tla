--------------------------- MODULE MCSettingsUpdate ---------------------------
(* SettingsUpdate on two values of each credential and two settings.       *)
EXTENDS SettingsUpdate

CONSTANTS old, new, s1, s2, own, noTuple

MCTuples == [Fields -> {old, new}]
MCConfigs == [setting : {s1, s2}, network : MCTuples \cup {noTuple, own}]
MCDefaults == [setting |-> s1, network |-> noTuple]
MCProvisioned == {[f \in Fields |-> old]}

(* An empty board; a board of firmware without network profiles, its records *)
(* at the wrap of the generations; and a board whose last save was cut off. *)
Kept(gen, network) ==
    [gen |-> gen,
     payload |-> [config |-> [setting |-> s2, network |-> network],
                  pending |-> noTuple]]

MCInstalled ==
    {[s \in Slots |-> Torn],
     [s \in Slots |-> IF s = "A" THEN Kept(7, noTuple) ELSE Kept(0, noTuple)],
     [s \in Slots |-> IF s = "A" THEN Kept(7, own) ELSE Torn]}

=============================================================================
