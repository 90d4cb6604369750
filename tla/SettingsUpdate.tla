---------------------------- MODULE SettingsUpdate ----------------------------
(***************************************************************************)
(* Saving settings and LoRaWAN credentials on the STM32: the portal's save  *)
(* (applyConfigRequest and servicePortalApi in src/stm32/stm32.ino), which *)
(* stages both in one record of ConfigStore before it writes the three     *)
(* credentials to the non-volatile memory of the RUI runtime one by one,   *)
(* and the boot (setup, configureLorawan, recoverPendingLorawanUpdate),    *)
(* which finishes what was interrupted.  Power may be lost at every step.   *)
(***************************************************************************)
EXTENDS ConfigStore, FiniteSets

CONSTANTS
    Settings,       \* everything in RuntimeConfig but the network profiles
    OwnProfiles,    \* network profiles entered in the portal
    Values,         \* values of a credential
    Provisioned,    \* the tuples a board may come with
    Maskable,       \* the credentials a save may carry
    MaxSaves        \* bound: saves of the portal

Fields == {"appkey", "joineui", "deveui"}

(* networks[]: not yet initialised, migrated from the tuple in RUI, or the   *)
(* user's own.                                                             *)
Networks == Tuples \cup {NoTuple, OwnProfiles}

ASSUME SettingsAssumption ==
    /\ Tuples = [Fields -> Values] /\ Provisioned \subseteq Tuples
    /\ OwnProfiles \notin Tuples \cup {NoTuple}
    /\ Configs = [setting : Settings, network : Networks]
    /\ Maskable \subseteq Fields /\ MaxSaves \in Nat

VARIABLES
    rui,            \* the tuple in RUI non-volatile memory
    runtime,        \* runtimeConfig
    node,           \* nodeDevEui, nodeAppEui and nodeAppKey
    pc,             \* what the program is doing
    booting,        \* whether setup() does it, or the portal
    field,          \* in ensureLorawanCredentials: the setter that is next
    request,        \* the save under way, and the revision before it
    started,        \* lorawanConfigured
    rebootDue,      \* pendingRebootAt
    report,         \* what the portal was told of its last save
    form,           \* a page in a browser: the revision and settings it shows
    saves,          \* auxiliary: saves asked for
    asked           \* auxiliary: the tuples provisioned or asked for, whole

appVars == <<rui, runtime, node, pc, booting, field, request, started,
             rebootDue, report, form, saves, asked>>
vars == <<storeVars, appVars>>

-----------------------------------------------------------------------------
NoReport == "none"
NoForm == [revision |-> 0, setting |-> NoReport]

NoRequest == [config |-> Defaults, tuple |-> rui, revision |-> 0]

(* The order in which ensureLorawanCredentials calls the setters.          *)
Setter == <<"appkey", "joineui", "deveui">>

Init ==
    /\ StoreInit
    /\ rui \in Provisioned
    /\ runtime = Defaults /\ node = rui
    /\ pc = "off" /\ booting = FALSE /\ field = 1
    /\ request = NoRequest
    /\ started = FALSE /\ rebootDue = FALSE
    /\ report = NoReport /\ form = NoForm
    /\ saves = 0
    /\ asked = {rui} \cup ({flash[s].payload.pending : s \in {t \in Slots : Valid(t)}}
                           \ {NoTuple})

(* RAM is lost; what a browser shows and what the flash holds is not.       *)
PowerLoss ==
    /\ pc # "off"
    /\ pc' = "off"
    /\ StorePowerLoss
    /\ runtime' = Defaults /\ node' = rui /\ booting' = FALSE /\ field' = 1
    /\ request' = NoRequest
    /\ started' = FALSE /\ rebootDue' = FALSE /\ report' = NoReport
    /\ UNCHANGED <<rui, form, saves, asked>>

-----------------------------------------------------------------------------
(* ensureLorawanCredentials and its callers.                               *)

(* The save under way is answered.  It makes the board restart if it made   *)
(* anything durable, which the portal tells by the revision.               *)
Answer(code) ==
    /\ pc' = "run"
    /\ report' = code
    /\ rebootDue' = (rebootDue \/ active'.gen # request.revision)
    /\ request' = NoRequest
    /\ UNCHANGED <<booting, started>>

BootFailed ==
    /\ pc' = "run" /\ booting' = FALSE
    /\ UNCHANGED <<request, report, rebootDue, started>>

(* The tuple could not be written: it stays staged, for the next boot.     *)
Unapplied ==
    /\ IF booting THEN BootFailed ELSE Answer("saved_pending")
    /\ field' = 1

(* A setter is called if the credential differs.  It may fail, and may have *)
(* written the credential nevertheless.                                    *)
Apply ==
    /\ pc = "apply" /\ field \in 1..3
    /\ UNCHANGED <<storeVars, runtime, node, form, saves, asked>>
    /\ LET name == Setter[field]
       IN  \E ok \in BOOLEAN, value \in {rui[name], node[name]} :
               /\ rui[name] = node[name] => ok
               /\ rui' = [rui EXCEPT ![name] = value]
               /\ IF ok
                  THEN /\ field' = field + 1
                       /\ UNCHANGED <<pc, booting, request, report, rebootDue, started>>
                  ELSE Unapplied

(* All three are read back.                                                *)
Applied ==
    /\ pc = "apply" /\ field = 4
    /\ UNCHANGED <<storeVars, rui, runtime, node, form, saves, asked>>
    /\ IF rui = node
       THEN /\ pc' = "commit" /\ field' = 1
            /\ UNCHANGED <<booting, request, report, rebootDue, started>>
       ELSE Unapplied

-----------------------------------------------------------------------------
(* The records that are written, and what follows.                         *)

(* [mutant: the tuple is not staged]                                       *)
UnstagedPayload == [config |-> request.config, pending |-> active.pending]
StagePayload == [config |-> request.config, pending |-> request.tuple]
SavePayload == [config |-> request.config, pending |-> active.pending]
CommitPayload == [config |-> runtime, pending |-> NoTuple]
MigratePayload == [config |-> runtime, pending |-> active.pending]

(* applyConfigRequest after runtimeConfigStageLorawanUpdate.                *)
AfterStage(ok) ==
    /\ pc = "stage"
    /\ IF ok
       THEN /\ runtime' = request.config /\ node' = request.tuple
            /\ pc' = "apply"
            /\ UNCHANGED <<booting, started, request, report, rebootDue>>
       ELSE Answer("save_failed") /\ UNCHANGED <<runtime, node>>

(* applyConfigRequest after runtimeConfigSave.                             *)
AfterSave(ok) ==
    /\ pc = "save"
    /\ IF ok
       THEN /\ runtime' = request.config
            /\ Answer(IF active'.gen = request.revision THEN "unchanged" ELSE "saved")
       ELSE Answer("save_failed") /\ UNCHANGED runtime
    /\ UNCHANGED node

(* runtimeConfigCommitLorawanUpdate, for the portal or at boot.            *)
AfterCommit(ok) ==
    /\ pc = "commit"
    /\ IF ~booting THEN Answer(IF ok THEN "saved" ELSE "saved_pending")
       ELSE IF ~ok THEN BootFailed
       ELSE pc' = "identify" /\ UNCHANGED <<booting, started, request, report, rebootDue>>
    /\ UNCHANGED <<runtime, node>>

(* configureLorawan after it saved the migrated network profile.           *)
AfterMigrate(ok) ==
    /\ pc = "migrate"
    /\ IF ok THEN pc' = "configure" /\ UNCHANGED booting
             ELSE pc' = "run" /\ booting' = FALSE
    /\ report' = IF ok THEN "saved" ELSE "save_failed"
    /\ UNCHANGED <<runtime, node, request, started, rebootDue>>

WriteRecord(payload) ==
    /\ \/ /\ WriteErase(payload)
          /\ UNCHANGED <<pc, booting, started, request, report, rebootDue, runtime,
                         node>>
       \/ \E ok \in BOOLEAN :
              /\ \/ ok /\ WriteSame(payload)
                 \/ ~ok /\ WriteRefused(payload)
                 \/ WriteProgram(ok)
              /\ \/ AfterStage(ok) \/ AfterSave(ok)
                 \/ AfterCommit(ok) \/ AfterMigrate(ok)
    /\ UNCHANGED <<rui, field, form, saves, asked>>

Stage == pc = "stage" /\ WriteRecord(StagePayload)
Save == pc = "save" /\ WriteRecord(SavePayload)
Commit == pc = "commit" /\ WriteRecord(CommitPayload)
Migrate == pc = "migrate" /\ WriteRecord(MigratePayload)

-----------------------------------------------------------------------------
(* Boot.                                                                   *)

(* setup loads the settings; a staged tuple is applied before anything else *)
(* (recoverPendingLorawanUpdate).                                          *)
PowerOn ==
    /\ pc = "off"
    /\ Load
    /\ runtime' = Stored.config
    /\ booting' = TRUE
    /\ IF Stored.pending # NoTuple
       THEN pc' = "apply" /\ node' = Stored.pending
       ELSE pc' = "identify" /\ UNCHANGED node
    /\ UNCHANGED <<rui, field, request, started, rebootDue, report, form, saves,
                   asked>>

(* configureLorawan reads the tuple from RUI, and makes it the first network *)
(* profile of settings that are older than the profiles.                   *)
Identify ==
    /\ pc = "identify"
    /\ node' = rui
    /\ IF runtime.network = NoTuple
       THEN runtime' = [runtime EXCEPT !.network = rui] /\ pc' = "migrate"
       ELSE pc' = "configure" /\ UNCHANGED runtime
    /\ report' = NoReport
    /\ UNCHANGED <<storeVars, rui, booting, field, request, started, rebootDue,
                   form, saves, asked>>

(* RUI could not be read.                                                  *)
Unidentified ==
    /\ pc = "identify"
    /\ BootFailed
    /\ UNCHANGED <<storeVars, rui, runtime, node, field, form, saves, asked>>

(* The radio settings are written; LoRaWAN starts, or fails to.            *)
Configure ==
    /\ pc = "configure"
    /\ pc' = "run" /\ booting' = FALSE
    /\ started' \in BOOLEAN
    /\ UNCHANGED <<storeVars, rui, runtime, node, field, request, rebootDue, report,
                   form, saves, asked>>

-----------------------------------------------------------------------------
(* The portal.                                                             *)

(* A browser loads the page (sendConfiguration).                           *)
FormRead ==
    /\ pc = "run"
    /\ form' = [revision |-> active.gen, setting |-> runtime.setting]
    /\ UNCHANGED <<storeVars, rui, runtime, node, pc, booting, field, request,
                   started, rebootDue, report, saves, asked>>

(* buildUpdate: the page must show the current revision.                   *)
(* [mutant: it is not compared]                                            *)
AnyRevision == form # NoForm
CurrentRevision == form # NoForm /\ form.revision = active.gen

(* The tuple that a save changes: one that is staged already, or else RUI's. *)
(* [mutant: always RUI's]                                                  *)
RuiBase == rui
Base == IF active.pending # NoTuple THEN active.pending ELSE rui

PortalSave ==
    /\ pc = "run" /\ CurrentRevision
    /\ saves < MaxSaves
    /\ \E setting \in Settings, tuple \in Tuples, credentials \in BOOLEAN :
           /\ \A f \in Fields : tuple[f] # Base[f] => credentials /\ f \in Maskable
           /\ request' =
                  [config |-> [setting |-> setting,
                               network |-> IF runtime.network = NoTuple
                                           THEN OwnProfiles ELSE runtime.network],
                   tuple |-> tuple, revision |-> active.gen]
           /\ pc' = IF credentials THEN "stage" ELSE "save"
           /\ asked' = IF credentials THEN asked \cup {tuple} ELSE asked
    /\ report' = NoReport
    /\ saves' = saves + 1
    /\ UNCHANGED <<storeVars, rui, runtime, node, booting, field, started,
                   rebootDue, form>>

(* Bluetooth is busy, the settings are not valid, the page is stale, or RUI  *)
(* cannot be read.                                                         *)
PortalRefuse ==
    /\ pc = "run"
    /\ report' = "save_failed"
    /\ UNCHANGED <<storeVars, rui, runtime, node, pc, booting, field, request,
                   started, rebootDue, form, saves, asked>>

-----------------------------------------------------------------------------
Next == \/ PowerLoss \/ PowerOn
        \/ Apply \/ Applied \/ Stage \/ Save \/ Commit \/ Migrate
        \/ Identify \/ Unidentified \/ Configure
        \/ FormRead \/ PortalSave \/ PortalRefuse

Spec == Init /\ [][Next]_vars

-----------------------------------------------------------------------------
(* Properties.                                                             *)

Reports == {"saved", "unchanged", "saved_pending", "save_failed"}

(* Every variable has its type.                                            *)
TypeOK ==
    /\ StoreTypeOK
    /\ rui \in Tuples /\ runtime \in Configs /\ node \in Tuples
    /\ pc \in {"off", "apply", "commit", "identify", "migrate", "configure",
               "run", "stage", "save"}
    /\ booting \in BOOLEAN /\ field \in 1..4
    /\ request \in [config : Configs, tuple : Tuples, revision : Generations]
    /\ started \in BOOLEAN /\ rebootDue \in BOOLEAN
    /\ report \in Reports \cup {NoReport}
    /\ form \in [revision : Generations, setting : Settings \cup {NoReport}]
    /\ saves \in 0..MaxSaves /\ asked \subseteq Tuples

(* What a boot would bring into force: a staged tuple overrides RUI's.      *)
InForce ==
    [config |-> Stored.config,
     tuple |-> IF Stored.pending # NoTuple THEN Stored.pending ELSE rui]

Offered ==
    IF pc \in {"stage", "save"} \/ (pc \in {"apply", "commit"} /\ ~booting)
    THEN {[config |-> request.config, tuple |-> request.tuple]}
    ELSE IF pc = "migrate" THEN {[config |-> runtime, tuple |-> rui]}
    ELSE {}

Reported ==
    IF report = NoReport THEN "none"
    ELSE IF report = "save_failed" THEN "failed" ELSE "done"

(* The save of settings as the user sees it.                               *)
Atomic == INSTANCE AtomicSettings WITH
    States <- [config : Configs, tuple : Tuples],
    inForce <- InForce, offer <- Offered, report <- Reported

(* Settings and credentials take effect together or not at all, whenever    *)
(* power is lost and whatever fails; what was reported saved has taken      *)
(* effect, and nothing but a save changes what a boot brings into force.    *)
ImplementsAtomic == Atomic!Spec

(* A setter of RUI is only called for a tuple that is durable already, so    *)
(* that a boot can repair whatever it leaves behind.                       *)
JournalFirst == [][rui' # rui => Stored.pending = node]_vars

(* LoRaWAN never starts on, and a save never starts from, a tuple mixed     *)
(* from two updates: once nothing is staged, RUI holds a tuple that was     *)
(* asked for as a whole.                                                   *)
WholeTuples ==
    /\ Stored.pending = NoTuple => rui \in asked
    /\ pc = "run" => Base \in asked

(* A save only ever replaces the settings its page showed, although pages   *)
(* outlive restarts, failed saves and saves of other pages.                *)
NoLostUpdate ==
    [][pc = "run" /\ pc' \in {"stage", "save"} => form.setting = runtime.setting]_vars

(* While LoRaWAN runs, the revision identifies the settings: if it is that  *)
(* of the latest record, the settings in RAM are those of that record.     *)
RevisionIsIdentity ==
    pc = "run" /\ started /\ active.gen = StoredGen =>
        runtime = Stored.config /\ active.pending = Stored.pending

=============================================================================
