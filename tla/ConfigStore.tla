----------------------------- MODULE ConfigStore -----------------------------
(***************************************************************************)
(* The two flash slots of src/stm32/config_store.cpp.  A record is written *)
(* to the slot that does not hold the latest one, under the next           *)
(* generation; a slot whose CRC or contents do not check is not a record.  *)
(* A write erases its slot and then programs it, and power can be lost in  *)
(* between.  The storage service may report an error whatever it did; the  *)
(* store believes it only after reading the record back.                   *)
(***************************************************************************)
EXTENDS Integers

CONSTANTS
    HalfRange,      \* generations are 0..2*HalfRange-1; 2^31 in the code
    Configs,        \* the settings, RuntimeConfig
    Defaults,       \* runtimeConfigDefaults
    Tuples,         \* the OTAA credentials an update stages
    NoTuple,        \* no update is staged
    NoPayload,      \* the contents of a slot that holds no record
    Installed       \* what the slots hold when this firmware first starts

Payloads == [config : Configs, pending : Tuples \cup {NoTuple}]

ASSUME StoreAssumption ==
    /\ HalfRange \in Nat /\ HalfRange > 1
    /\ Defaults \in Configs /\ NoTuple \notin Tuples /\ NoPayload \notin Payloads

VARIABLES
    flash,          \* the slots: a generation and a payload
    writing,        \* the record being programmed, after its slot was erased
    active          \* RAM: activeGeneration and activePending

storeVars == <<flash, writing, active>>

Slots == {"A", "B"}
Generations == 0..2 * HalfRange - 1

Torn == [gen |-> 0, payload |-> NoPayload]
NoWrite == [slot |-> "none", gen |-> 0, payload |-> NoPayload]
Forgotten == [gen |-> 0, pending |-> NoTuple]

-----------------------------------------------------------------------------
(* generationNewer: the difference of two 32-bit numbers, read as signed.   *)
Newer(l, r) ==
    LET ahead == IF l >= r THEN l - r ELSE l - r + 2 * HalfRange
    IN  ahead \in 1..HalfRange - 1

Following(gen) == IF gen = 2 * HalfRange - 1 THEN 0 ELSE gen + 1

(* Earlier firmware wrote its records in the same way.                      *)
ASSUME InstalledAssumption ==
    /\ Installed \subseteq [Slots -> {Torn} \cup [gen : Generations, payload : Payloads]]
    /\ \A f \in Installed :
           f["A"] # Torn /\ f["B"] # Torn => f["A"].gen = Following(f["B"].gen)
                                             \/ f["B"].gen = Following(f["A"].gen)

Other(slot) == IF slot = "A" THEN "B" ELSE "A"

(* readSlot *)
Valid(slot) == flash[slot].payload # NoPayload

Recorded == Valid("A") \/ Valid("B")

(* The slot runtimeConfigLoad selects.                                     *)
Latest ==
    IF Valid("A") /\ (~Valid("B") \/ Newer(flash["A"].gen, flash["B"].gen))
    THEN "A" ELSE "B"

(* What a boot would find.                                                 *)
Blank == [config |-> Defaults, pending |-> NoTuple]
Stored == IF Recorded THEN flash[Latest].payload ELSE Blank
StoredGen == IF Recorded THEN flash[Latest].gen ELSE 0

(* The slot writeRecord writes to.  [mutant: the latest record itself]      *)
SameSlot == IF ~Recorded THEN "A" ELSE Latest
Target == IF ~Recorded THEN "A" ELSE Other(Latest)

(* [mutants: the generation is kept, or does not wrap]                      *)
UnwrappedGen == IF Recorded THEN flash[Latest].gen + 1 ELSE 1
SameGen == IF Recorded THEN flash[Latest].gen ELSE 1
NextGen == IF Recorded THEN Following(flash[Latest].gen) ELSE 1

-----------------------------------------------------------------------------
StoreInit ==
    /\ flash \in Installed
    /\ writing = NoWrite
    /\ active = Forgotten

(* runtimeConfigLoad                                                       *)
Load ==
    /\ active' = [gen |-> StoredGen, pending |-> Stored.pending]
    /\ UNCHANGED <<flash, writing>>

(* writeRecord of what the latest record already holds: nothing is written. *)
WriteSame(payload) ==
    /\ writing = NoWrite
    /\ Recorded /\ flash[Latest].payload = payload
    /\ active' = [gen |-> flash[Latest].gen, pending |-> payload.pending]
    /\ UNCHANGED <<flash, writing>>

(* writeRecord: the slot is erased.                                        *)
WriteErase(payload) ==
    /\ writing = NoWrite
    /\ ~(Recorded /\ flash[Latest].payload = payload)
    /\ flash' = [flash EXCEPT ![Target] = Torn]
    /\ writing' = [slot |-> Target, gen |-> NextGen, payload |-> payload]
    /\ UNCHANGED active

(* writeRecord: the slot is programmed and read back.  Success is the       *)
(* service's report and the record that was meant, under its generation.   *)
Verified(reported, slot) == reported /\ flash'[slot] # Torn

(* Only then are the new revision and its staged tuple the current ones.    *)
(* [mutant: they are before]                                               *)
AdoptedAnyway(ok) == [gen |-> writing.gen, pending |-> writing.payload.pending]
Adopted(ok) == IF ok THEN [gen |-> writing.gen, pending |-> writing.payload.pending]
               ELSE active

WriteProgram(ok) ==
    /\ writing # NoWrite
    /\ flash' \in {flash, [flash EXCEPT ![writing.slot] =
                               [gen |-> writing.gen, payload |-> writing.payload]]}
    /\ \E reported \in BOOLEAN : ok = Verified(reported, writing.slot)
    /\ active' = Adopted(ok)
    /\ writing' = NoWrite

(* writeRecord: the service refuses before it erases anything.             *)
WriteRefused(payload) ==
    /\ writing = NoWrite
    /\ ~(Recorded /\ flash[Latest].payload = payload)
    /\ UNCHANGED storeVars

(* Power is lost: RAM is gone, the flash stays as it is.                   *)
StorePowerLoss ==
    /\ writing' = NoWrite
    /\ active' = Forgotten
    /\ UNCHANGED flash

-----------------------------------------------------------------------------
StoreTypeOK ==
    /\ flash \in [Slots -> {Torn} \cup [gen : Generations, payload : Payloads]]
    /\ writing \in {NoWrite} \cup [slot : Slots, gen : Generations, payload : Payloads]
    /\ active \in [gen : Generations, pending : Tuples \cup {NoTuple}]

(* Two records always have neighbouring generations, the wrap included, so  *)
(* that a boot can tell which is the latest.                               *)
Neighbours ==
    Valid("A") /\ Valid("B") =>
        \/ flash["A"].gen = Following(flash["B"].gen)
        \/ flash["B"].gen = Following(flash["A"].gen)

=============================================================================
