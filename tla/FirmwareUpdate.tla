---------------------------- MODULE FirmwareUpdate ----------------------------
(***************************************************************************)
(* One update of both processors.  The ESP8684 receives a bundle (a control  *)
(* image for the STM32 and a compressed image for itself), stages it in      *)
(* flash, writes a journal, hands the control image to a program that the    *)
(* STM32 runs from RAM, and then lets its stock bootloader replace its own   *)
(* application; after a restart it resumes from the journal.                 *)
(*                                                                         *)
(* Sources: esp8684/main/bundle_update.c (upload, job, resume), portal.c     *)
(* (entry of an upload, service OTA), app_main.c (the radio manager, which   *)
(* stands aside), stm32/esp_companion.cpp (UPDATE_PREPARE, UPDATE_EXEC,      *)
(* OTA_STATE, power), stm32/firmware_update.cpp and updater/ram-loader.c.    *)
(* Both bootloaders and the user's USB repair are external.                  *)
(*                                                                         *)
(* An image is the name of its bundle; a hash or checksum compares names.    *)
(* A flash operation is a step, and power may fail between any two.          *)
(***************************************************************************)
EXTENDS UsbTunnel

CONSTANTS
  Bundles,        \* bundles that are uploaded
  Old,            \* the firmware installed first
  Files,          \* what a client may upload: records of bundle, control, esp
  Pages,          \* flash pages of a control image; 0 is its vector table
  PrepareTries,   \* UPDATE_PREPARE is sent so often (6 in the code)
  MaxUploads,     \* bound: uploads and exchanges over USB, together
  MaxEvents       \* bound: Bluetooth commands, scans and what goes wrong (losses of power,
                  \* restarts, deadlines that pass, lost or damaged bytes, flash errors,
                  \* resumes that race with an upload), together

Images == Bundles \cup {Old}
Damaged == "damaged"
Blank == "blank"
Content == Images \cup {Damaged, Blank}

ASSUME UpdateAssumption ==
  /\ Pages \in Nat \ {0} /\ PrepareTries \in Nat \ {0}
  /\ Files \subseteq [bundle : Bundles, control : Bundles \cup {Damaged},
                      esp : Bundles \cup {Damaged}]
  /\ Blank \notin Images /\ Damaged \notin Images
  /\ MaxUploads \in Nat /\ MaxEvents \in Nat

VARIABLES
  flash,    \* ESP8684 flash: application, stage, storage and journal
  esp,      \* ESP8684 RAM: power, busy, phase, bundle_header, portal, ...
  http,     \* the handler the HTTP server runs
  job,      \* the tasks update_resume and update_job
  mgr,      \* the radio manager; "announce": it is going to send READY
  stm,      \* STM32: what it runs, its flash, its pending command
  loader,   \* the RAM program: arguments, page, vector table withheld
  spent     \* uploads and events so far (bounds), and two flags of the
            \* properties: lone and raced

updateVars == <<flash, esp, http, job, mgr, stm, loader, spent>>
vars == <<updateVars, tunnelVars>>

Tasks == {"resume", "staged"}

\* RAM of an ESP8684 that has just started, or has no power.
EspReset(power) ==
  [power |-> power, busy |-> FALSE, phase |-> 0, header |-> Blank, ready |-> FALSE,
   portal |-> FALSE, entry |-> FALSE, recovery |-> FALSE, command |-> "none",
   orphan |-> FALSE]
NoFile == [bundle |-> Blank, control |-> Blank, esp |-> Blank]
HttpIdle == [at |-> "idle", file |-> NoFile, dry |-> FALSE, via |-> "wifi"]
NoTask == [at |-> "none", dry |-> FALSE, tries |-> 0]
NoJob == [t \in Tasks |-> NoTask]
NoLoader == [target |-> Blank, dry |-> FALSE, page |-> 0, got |-> Blank]
NoPrepare == [target |-> Blank, dry |-> FALSE]

Init ==
  /\ flash = [app |-> Old, stage |-> Blank, data |-> Blank, trigger |-> Blank,
              header |-> Blank, packed |-> Blank, done |-> "ones"]
  /\ esp = EspReset("off")
  /\ http = HttpIdle
  /\ job = NoJob
  /\ mgr = "idle"
  /\ stm = [runs |-> "app", img |-> [p \in 0 .. Pages |-> Old], marker |-> "valid",
            pending |-> "no", prepared |-> NoPrepare]
  /\ loader = NoLoader
  /\ spent = [uploads |-> 0, events |-> 0, lone |-> FALSE, raced |-> FALSE]
  /\ TunnelInit

-----------------------------------------------------------------------------
(* Conditions shared by the handlers.                                       *)

Whole(image) == \A p \in 0 .. Pages : stm.img[p] = image

\* portal_ota_in_progress
OtaInProgress == esp.busy \/ TunnelActive \/ esp.recovery \/ esp.entry

\* Frames from the ESP8684 reach the STM32 while its application reads them.
FramesRead == stm.runs = "app" /\ usb # "raw"
\* uart_link_send refuses while a raw receiver is armed.
RawArmed == tun.at = "raw" \/ \E t \in Tasks : job[t].at \in {"serve", "release"}

\* firmwareUpdateReady: the page of the bootloader's mark is not erased.
UpdateReady == stm.marker # "blank"

(* Mutant: a pending Bluetooth command does not stop the update.            *)
StmAlwaysFree == UpdateReady

\* No Bluetooth command is pending on the STM32 and it can be updated.
StmFree == stm.pending = "no" /\ UpdateReady

LoaderRuns == stm.runs \in {"check", "mark", "erase", "write", "vectors", "validate"}

\* OTA_STATE sets or clears the hold of the STM32; the frame may be lost.
OtaState(on) ==
  \/ hold' = IF FramesRead /\ esp.power = "on" /\ ~RawArmed THEN on ELSE hold
  \/ spent.events < MaxEvents /\ hold' = hold

\* A command, or a fault.
Event == /\ spent.events < MaxEvents
         /\ spent' = [spent EXCEPT !.events = @ + 1]

-----------------------------------------------------------------------------
(* Power and boot.                                                          *)

\* The STM32 bootloader: an image marked as being downloaded is not started,
\* and a page erased between the two marks may be read either way (external).
StmBoots(marker) ==
  IF marker = "valid" THEN {"app"}
  ELSE IF marker = "downloading" THEN {"dfu"} ELSE {"app", "dfu"}

\* What RAM holds is lost on both sides: a reset of the STM32 also drops the
\* enable line of the ESP8684.
BothReset ==
  /\ \E r \in StmBoots(stm.marker) :
       stm' = [stm EXCEPT !.runs = r, !.pending = "no", !.prepared = NoPrepare]
  /\ loader' = NoLoader
  /\ esp' = EspReset("off") /\ http' = HttpIdle /\ job' = NoJob /\ mgr' = "idle"
  /\ TunnelLost(Sending \cup {"asking"}) /\ usb' = "off" /\ hold' = FALSE
  /\ UNCHANGED flash

PowerLoss == Event /\ BothReset

\* The STM32 powers the ESP8684 while it wants the portal, a command or a hold.
EspPowerOn ==
  /\ stm.runs = "app" /\ esp.power = "off"
  /\ esp' = EspReset("boot")
  /\ UNCHANGED <<flash, http, job, mgr, stm, loader, spent, tunnelVars>>

EspGone(power) ==
  /\ esp' = EspReset(power)
  /\ http' = HttpIdle /\ job' = NoJob /\ mgr' = "idle"
  /\ TunnelLost(Sending) /\ UNCHANGED <<usb, hold>>

\* powerEspOff, never while a hold runs: a pending command is sent again.
EspPowerOff ==
  /\ stm.runs = "app" /\ ~hold /\ usb = "off" /\ esp.power # "off"
  /\ Event
  /\ EspGone("off")
  /\ stm' = [stm EXCEPT !.pending = IF @ = "no" THEN "no" ELSE "queued"]
  /\ UNCHANGED <<flash, loader>>

\* The STM32 waits for its updater, and the journal does not say so yet or no
\* longer.
Stranded == stm.runs \notin {"app", "dfu"} /\ flash.done # "control"

\* The ESP8684 alone restarts (a panic, a radio that could not be stopped).
EspRestart ==
  /\ esp.power # "off"
  /\ EspGone("boot")
  /\ spent.events < MaxEvents
  /\ spent' = [spent EXCEPT !.events = @ + 1, !.lone = @ \/ Stranded]
  /\ UNCHANGED <<flash, stm, loader>>

\* The stock bootloader of the ESP8684 (external): a header at the start of
\* the storage area makes it replace the application, erasing the whole slot
\* and with it the stage; the header goes last.
BootErase ==
  /\ esp.power = "boot" /\ flash.trigger # Blank /\ flash.app # Blank
  /\ flash' = [flash EXCEPT !.app = Blank, !.stage = Blank]
  /\ UNCHANGED <<esp, http, job, mgr, stm, loader, spent, tunnelVars>>

BootReplace ==
  /\ esp.power = "boot" /\ flash.trigger # Blank /\ flash.app = Blank
  /\ flash' = [flash EXCEPT !.app = flash.data, !.trigger = Blank]
  /\ UNCHANGED <<esp, http, job, mgr, stm, loader, spent, tunnelVars>>

\* READY ends the hold of the STM32.  A command it has sent is sent again, or a
\* command is given up with its restarts used up (CompanionLink counts them).
ReadyHeard ==
  /\ hold' = FALSE
  /\ \/ stm' = IF stm.pending = "sent" THEN [stm EXCEPT !.pending = "queued"] ELSE stm
     \/ stm.pending # "no" /\ stm' = [stm EXCEPT !.pending = "no"]

(* Mutant: only an update whose control side is not installed is resumed.   *)
ResumesPending ==
  IF flash.done = "ones" /\ flash.stage = flash.header THEN "wait" ELSE "none"

\* Where resume goes with a valid journal.
Resumes ==
  IF flash.done = "control" THEN "finish"
  ELSE IF flash.done = "ones" /\ flash.stage = flash.header THEN "wait"
  ELSE "none"

\* resume reads the journal and how far the update had come.
JournalRead ==
  [EspReset("on") EXCEPT
    !.header = flash.header,
    !.busy = flash.header # Blank /\ flash.done = "control",
    !.phase = IF flash.header = Blank THEN 0
              ELSE IF flash.done = "zero" /\ flash.app = flash.header THEN 4
              ELSE IF flash.done = "ones" /\ flash.stage # flash.header THEN 5
              ELSE 0]

\* app_main: the last thing it starts is the task that resumes an update, which
\* has read the journal long before there is a portal.  READY is repeated until
\* HELLO has come, and the manager may have looked just before it came.
BootApp ==
  /\ esp.power = "boot" /\ flash.trigger = Blank
  /\ esp' = JournalRead
  /\ job' = [NoJob EXCEPT !["resume"].at = IF flash.header = Blank THEN "none" ELSE Resumes]
  /\ IF FramesRead
       THEN ReadyHeard /\ mgr' \in {"idle", "announce"}
       ELSE UNCHANGED <<hold, stm>> /\ mgr' = "announce"
  /\ UNCHANGED <<flash, http, loader, spent, pc, usb, tun, lineVars>>

\* An interrupted control image is repaired over USB (external): Flash-USB.
UsbRepair ==
  /\ stm.runs = "dfu"
  /\ \E i \in Images :
       stm' = [stm EXCEPT !.runs = "app", !.marker = "valid",
                          !.img = [p \in 0 .. Pages |-> i]]
  /\ UNCHANGED <<flash, esp, http, job, mgr, loader, spent, tunnelVars>>

-----------------------------------------------------------------------------
(* The radio manager and the commands it serves.                            *)

StmOnly == UNCHANGED <<flash, esp, http, job, mgr, loader, tunnelVars>>

\* A Bluetooth command becomes the pending one.
StmCommand ==
  /\ stm.runs = "app" /\ stm.pending = "no" /\ Event
  /\ stm' = [stm EXCEPT !.pending = "queued"]
  /\ StmOnly

\* companionService sends nothing while a hold runs.  The command the ESP8684
\* already has is accepted once more; beside one that the STM32 has given up,
\* the next is answered BUSY.
StmSendCommand ==
  /\ stm.runs = "app" /\ stm.pending = "queued" /\ ~hold /\ usb \notin {"raw", "awaiting"}
  /\ esp.power = "on" /\ ~RawArmed
  /\ stm' = [stm EXCEPT !.pending = IF esp.orphan THEN "no" ELSE "sent"]
  /\ esp' = IF esp.orphan \/ mgr = "victron" THEN esp ELSE [esp EXCEPT !.command = "victron"]
  /\ UNCHANGED <<flash, http, job, mgr, loader, spent, tunnelVars>>

\* A deadline of the command passes, looked at when no hold runs: what may still
\* carry it out loses its power (CompanionLink models the deadlines).
StmGivesUp ==
  /\ FramesRead /\ stm.pending # "no" /\ ~hold
  /\ Event
  /\ stm' = [stm EXCEPT !.pending = "no"]
  /\ EspGone("off")
  /\ UNCHANGED <<flash, loader>>

\* The hold runs out after 600 s, not in the 10 s between the two frames.
HoldExpires ==
  /\ hold /\ usb \notin {"raw", "awaiting"} /\ stm.prepared = NoPrepare
  /\ hold' = FALSE
  /\ UNCHANGED <<updateVars, pc, usb, tun, lineVars>>

\* A scan is asked for over the same link.
ScanRequest ==
  /\ esp.power = "on" /\ FramesRead /\ ~RawArmed /\ esp.command = "none"
  /\ Event
  /\ esp' = [esp EXCEPT !.command = "scan"]
  /\ UNCHANGED <<flash, http, job, mgr, stm, loader, tunnelVars>>

\* The manager had read hello_seen before HELLO came, and its READY follows.  A
\* command that the STM32 then gives up stays with the ESP8684.
MgrAnnounce ==
  /\ mgr = "announce" /\ FramesRead /\ ~RawArmed
  /\ mgr' = "idle"
  /\ ReadyHeard
  /\ esp' = [esp EXCEPT !.orphan = esp.command = "victron" /\ stm'.pending = "no"]
  /\ UNCHANGED <<flash, http, job, loader, spent, pc, usb, tun, lineVars>>

\* manager_task_main: no update in progress, a command is taken.
MgrTake ==
  /\ esp.power = "on" /\ mgr = "idle" /\ ~OtaInProgress /\ esp.command # "none"
  /\ mgr' = esp.command
  /\ esp' = [esp EXCEPT !.command = "none"]
  /\ UNCHANGED <<flash, http, job, stm, loader, spent, tunnelVars>>

\* manager_stop_portal: the HTTP server stops when its handler has returned,
\* which may be the upload that began after the command was taken.
MgrStop ==
  /\ mgr \in {"victron", "scan"} /\ http.at = "idle" /\ esp.portal
  /\ esp' = [esp EXCEPT !.portal = FALSE]
  /\ UNCHANGED <<flash, http, job, mgr, stm, loader, spent, tunnelVars>>

\* manager_run_victron and manager_run_ble: the result frame is refused while
\* a raw receiver is armed, and answers no other command than its own; a radio
\* that was not stopped restarts the chip (EspRestart).
MgrFinish ==
  /\ mgr \in {"victron", "scan"} /\ ~esp.portal
  /\ mgr' = "idle"
  /\ stm' = IF mgr = "victron" /\ FramesRead /\ ~RawArmed /\ ~esp.orphan
              THEN [stm EXCEPT !.pending = "no"] ELSE stm
  /\ esp' = IF mgr = "victron" THEN [esp EXCEPT !.orphan = FALSE] ELSE esp
  /\ UNCHANGED <<flash, http, job, loader, spent, tunnelVars>>

\* manager_start_portal, on request of an STM32 that still runs its program.
PortalStart ==
  /\ esp.power = "on" /\ mgr = "idle" /\ ~OtaInProgress /\ ~esp.portal
  /\ stm.runs = "app"
  /\ esp' = [esp EXCEPT !.portal = TRUE]
  /\ UNCHANGED <<flash, http, job, mgr, stm, loader, spent, tunnelVars>>

-----------------------------------------------------------------------------
(* bundle_upload and recovery_post, run by the HTTP server.                 *)

\* The next part of the request: always there over WiFi, and over USB when
\* the tunnel has passed it on.
Received(k) == http.via = "wifi" \/ Len(tcp) >= k

HttpOnly == UNCHANGED <<job, mgr, stm, loader, spent, tunnelVars>>
HttpGoes(at) == http' = [http EXCEPT !.at = at]

\* The answer goes to the socket the request came from.
Answered == reply' = (reply \/ (http.via = "usb" /\ tun.at = "raw"))

\* ota_post: the checks, the hold on the radio and the exchange of busy.
UploadEnter ==
  /\ esp.power = "on" /\ esp.portal /\ http.at = "idle" /\ spent.uploads < MaxUploads
  /\ ~esp.recovery /\ ~esp.busy
  /\ \E f \in Files, d \in BOOLEAN, v \in {"wifi", "usb"} :
       /\ v = "usb" => tun.at = "raw" /\ tcp # <<>> /\ ~reply
       /\ http' = [at |-> "header", file |-> f, dry |-> d, via |-> v]
  /\ esp' = [esp EXCEPT !.busy = TRUE, !.entry = TRUE]
  /\ spent' = [spent EXCEPT !.uploads = @ + 1]
  /\ UNCHANGED <<flash, job, mgr, stm, loader, tunnelVars>>

\* The layout, the header and the task; then the STM32 is told.
UploadHeader ==
  /\ http.at = "header" /\ flash.app # Blank
  /\ HttpGoes("erase_stage")
  /\ job' = [job EXCEPT !["staged"] = [NoTask EXCEPT !.at = "asleep", !.dry = http.dry]]
  /\ esp' = [esp EXCEPT !.phase = 1]
  /\ OtaState(TRUE)
  /\ UNCHANGED <<flash, mgr, stm, loader, spent, pc, usb, tun, lineVars>>

\* Three erasures, the journal last.
UploadErase ==
  \/ /\ http.at = "erase_stage"
     /\ flash' = [flash EXCEPT !.stage = Blank]
     /\ HttpGoes("erase_storage") /\ UNCHANGED esp /\ HttpOnly
  \/ /\ http.at = "erase_storage"
     /\ flash' = [flash EXCEPT !.data = Blank, !.trigger = Blank]
     /\ HttpGoes("erase_meta") /\ UNCHANGED esp /\ HttpOnly
  \/ /\ http.at = "erase_meta"
     /\ flash' = [flash EXCEPT !.header = Blank, !.packed = Blank, !.done = "ones"]
     /\ HttpGoes("control") /\ UNCHANGED esp /\ HttpOnly

\* Both images are written to flash and read back from it.
UploadControl ==
  /\ http.at = "control" /\ Received(2)
  /\ flash' = [flash EXCEPT !.stage = http.file.control]
  /\ HttpGoes("control_check") /\ UNCHANGED esp /\ HttpOnly

UploadData ==
  /\ http.at = "control_check" /\ flash.stage = http.file.bundle /\ Received(3)
  /\ flash' = [flash EXCEPT !.data = http.file.esp]
  /\ HttpGoes("check") /\ UNCHANGED esp /\ HttpOnly

Verified == http.at = "check" /\ flash.data = http.file.bundle

\* A dry run keeps the journal erased and wakes its task.
UploadDry ==
  /\ Verified /\ http.dry
  /\ esp' = [esp EXCEPT !.header = http.file.bundle, !.entry = FALSE]
  /\ job' = [job EXCEPT !["staged"].at = "usb"]
  /\ http' = HttpIdle
  /\ Answered
  /\ UNCHANGED <<flash, mgr, stm, loader, spent, pc, usb, hold, tun, wire, acks, tcp>>

(* Mutant: the journal header is written before the packed header.          *)
CommitHeaderFirst ==
  \/ /\ Verified /\ ~http.dry
     /\ flash' = [flash EXCEPT !.header = http.file.bundle]
     /\ HttpGoes("commit")
  \/ /\ http.at = "commit"
     /\ flash' = [flash EXCEPT !.packed = http.file.bundle]
     /\ HttpGoes("installing")

\* The journal: the packed header first, then its own header, whose checksum
\* makes it valid.
Commit ==
  \/ /\ Verified /\ ~http.dry
     /\ flash' = [flash EXCEPT !.packed = http.file.bundle]
     /\ HttpGoes("commit")
  \/ /\ http.at = "commit"
     /\ flash' = [flash EXCEPT !.header = http.file.bundle]
     /\ HttpGoes("installing")

UploadCommit == Commit /\ UNCHANGED esp /\ HttpOnly

UploadInstall ==
  /\ http.at = "installing"
  /\ esp' = [esp EXCEPT !.header = http.file.bundle, !.phase = 3, !.entry = FALSE]
  /\ job' = [job EXCEPT !["staged"].at = "usb"]
  /\ http' = HttpIdle
  /\ Answered
  /\ UNCHANGED <<flash, mgr, stm, loader, spent, pc, usb, hold, tun, wire, acks, tcp>>

Uploading == http.at \in {"header", "erase_stage", "erase_storage", "erase_meta", "control",
                          "control_check", "check", "commit"}

\* A broken connection, a flash error or a wrong checksum: the sleeping task
\* is deleted and the update is over.
UploadFailed ==
  /\ Uploading
  /\ job' = [job EXCEPT !["staged"] = NoTask]
  /\ esp' = [esp EXCEPT !.phase = 5, !.busy = FALSE, !.entry = FALSE]
  /\ http' = HttpIdle
  /\ Answered
  /\ OtaState(FALSE)
  /\ UNCHANGED <<flash, mgr, stm, loader, spent, pc, usb, tun, wire, acks, tcp>>

\* recovery_post: the image of the ESP8684 alone, the journal discarded
\* before the header that triggers the bootloader.
RecoveryEnter ==
  /\ esp.power = "on" /\ esp.portal /\ http.at = "idle" /\ spent.uploads < MaxUploads
  /\ ~OtaInProgress
  /\ \E f \in Files : http' = [HttpIdle EXCEPT !.at = "r_erase", !.file = f]
  /\ esp' = [esp EXCEPT !.recovery = TRUE, !.entry = TRUE]
  /\ spent' = [spent EXCEPT !.uploads = @ + 1]
  /\ OtaState(TRUE)
  /\ UNCHANGED <<flash, job, mgr, stm, loader, pc, usb, tun, lineVars>>

RecoveryWrite ==
  \/ /\ http.at = "r_erase"
     /\ flash' = [flash EXCEPT !.data = Blank, !.trigger = Blank]
     /\ HttpGoes("r_data") /\ UNCHANGED esp /\ HttpOnly
  \/ /\ http.at = "r_data"
     /\ flash' = [flash EXCEPT !.data = http.file.esp]
     /\ HttpGoes("r_check") /\ UNCHANGED esp /\ HttpOnly
  \/ /\ http.at = "r_check" /\ flash.data = http.file.bundle
     /\ flash' = [flash EXCEPT !.header = Blank, !.packed = Blank, !.done = "ones"]
     /\ HttpGoes("r_commit") /\ UNCHANGED esp /\ HttpOnly
  \/ /\ http.at = "r_commit"
     /\ flash' = [flash EXCEPT !.trigger = http.file.bundle]
     /\ HttpGoes("r_restart") /\ UNCHANGED esp /\ HttpOnly

RecoveryFailed ==
  /\ http.at \in {"r_erase", "r_data", "r_check", "r_commit"}
  /\ http' = HttpIdle
  /\ esp' = [esp EXCEPT !.recovery = FALSE, !.entry = FALSE]
  /\ OtaState(FALSE)
  /\ UNCHANGED <<flash, job, mgr, stm, loader, spent, pc, usb, tun, lineVars>>

RecoveryRestart ==
  /\ http.at = "r_restart"
  /\ EspGone("boot")
  /\ UNCHANGED <<flash, stm, loader, spent>>

-----------------------------------------------------------------------------
(* run_control, finish_connectivity, install, dry_run, resume.              *)

JobGoes(t, at) == job' = [job EXCEPT ![t].at = at]

\* The result of a task that fails; an install first releases the control side.
JobFails(t) ==
  /\ esp' = [esp EXCEPT !.phase = 5]
  /\ JobGoes(t, IF job[t].dry THEN "end" ELSE "release")

\* Up to 15 s for the tunnel to close.
JobUsb(t) ==
  /\ job[t].at = "usb"
  /\ \/ /\ ~TunnelActive
        /\ esp' = [esp EXCEPT !.ready = FALSE, !.phase = 3]
        /\ job' = [job EXCEPT ![t].at = "prepare", ![t].tries = 0]
     \/ TunnelActive /\ JobFails(t)
  /\ UNCHANGED <<flash, http, mgr, stm, loader, spent, tunnelVars>>

\* UPDATE_PREPARE, and UPDATE_READY in return: either may be lost.
JobPrepare(t) ==
  /\ job[t].at = "prepare" /\ ~esp.ready /\ job[t].tries < PrepareTries
  /\ job' = [job EXCEPT ![t].tries = @ + 1]
  /\ \/ /\ FramesRead
        /\ IF StmFree
             THEN /\ stm' = [stm EXCEPT !.prepared =
                               [target |-> esp.header, dry |-> job[t].dry]]
                  /\ hold' = TRUE
                  /\ \/ esp' = [esp EXCEPT !.ready = TRUE]
                     \/ spent.events < MaxEvents /\ UNCHANGED esp
             ELSE /\ stm' = [stm EXCEPT !.prepared = NoPrepare]
                  /\ UNCHANGED <<hold, esp>>
     \/ (~FramesRead \/ spent.events < MaxEvents) /\ UNCHANGED <<stm, hold, esp>>
  /\ UNCHANGED <<flash, http, mgr, loader, spent, pc, usb, tun, lineVars>>

JobUnprepared(t) ==
  /\ job[t].at = "prepare" /\ ~esp.ready /\ job[t].tries = PrepareTries
  /\ JobFails(t)
  /\ UNCHANGED <<flash, http, mgr, stm, loader, spent, tunnelVars>>

\* UPDATE_EXEC: the STM32 starts the RAM program if it was prepared for this
\* image and no command has come between; then the bytes of the UART are the
\* job's.
JobExec(t) ==
  /\ job[t].at = "prepare" /\ esp.ready
  /\ JobGoes(t, "serve") /\ esp' = [esp EXCEPT !.ready = FALSE]
  /\ \/ /\ FramesRead
        /\ IF stm.prepared = [target |-> esp.header, dry |-> job[t].dry] /\ StmFree
             THEN /\ stm' = [stm EXCEPT !.runs = "check", !.prepared = NoPrepare]
                  /\ loader' = [target |-> esp.header, dry |-> job[t].dry,
                                page |-> 1, got |-> esp.header]
             ELSE stm' = [stm EXCEPT !.prepared = NoPrepare] /\ UNCHANGED loader
     \/ (~FramesRead \/ spent.events < MaxEvents) /\ UNCHANGED <<stm, loader>>
  /\ UNCHANGED <<flash, http, mgr, spent, tunnelVars>>

\* Ten seconds after UPDATE_PREPARE.
PrepareExpires ==
  /\ stm.prepared # NoPrepare
  /\ \A t \in Tasks : job[t].at # "prepare"
  /\ stm' = [stm EXCEPT !.prepared = NoPrepare]
  /\ UNCHANGED <<flash, esp, http, job, mgr, loader, spent, tunnelVars>>

\* LBK1 of this image: the journal records that the control side is installed.
Installed(t) == stm.runs = "linger" /\ ~job[t].dry /\ loader.target = esp.header

JobInstalled(t) ==
  /\ job[t].at = "serve" /\ Installed(t)
  /\ \/ flash' = [flash EXCEPT !.done = "control"] /\ JobGoes(t, "finish") /\ UNCHANGED <<esp, spent>>
     \/ Event /\ JobFails(t) /\ UNCHANGED flash
  /\ UNCHANGED <<http, mgr, stm, loader, tunnelVars>>

\* LBV1 ends a dry run, LBE1 any run.  The job also stops serving when it cannot
\* read or send a page, or when its 180 s are over.
JobServed(t) ==
  /\ job[t].at = "serve" /\ ~Installed(t)
  /\ \/ ~LoaderRuns /\ UNCHANGED spent
     \/ LoaderRuns /\ Event
  /\ IF job[t].dry /\ stm.runs = "verified"
       THEN esp' = [esp EXCEPT !.phase = 6] /\ JobGoes(t, "end")
       ELSE JobFails(t)
  /\ UNCHANGED <<flash, http, mgr, stm, loader, tunnelVars>>

\* The application is already the bundle's, or its staged image is still whole
\* and the stock bootloader is given its header; else the update fails.
JobFinish(t) ==
  /\ job[t].at = "finish"
  /\ IF flash.app = esp.header
       THEN \/ /\ flash' = [flash EXCEPT !.done = "zero"]
               /\ esp' = [esp EXCEPT !.phase = 4]
               /\ JobGoes(t, "release") /\ UNCHANGED spent
            \/ Event /\ JobFails(t) /\ UNCHANGED flash
     ELSE IF flash.packed = esp.header /\ flash.data = esp.header
       THEN /\ esp' = [esp EXCEPT !.phase = 2]
            /\ JobGoes(t, "trigger")
            /\ UNCHANGED <<flash, spent>>
     ELSE JobFails(t) /\ UNCHANGED <<flash, spent>>
  /\ UNCHANGED <<http, mgr, stm, loader, tunnelVars>>

JobTrigger(t) ==
  /\ job[t].at = "trigger"
  /\ \/ /\ flash' = [flash EXCEPT !.trigger = flash.packed]
        /\ JobGoes(t, "restart") /\ UNCHANGED <<esp, spent>>
     \/ Event /\ JobFails(t) /\ UNCHANGED flash
  /\ UNCHANGED <<http, mgr, stm, loader, tunnelVars>>

JobRestart(t) ==
  /\ job[t].at = "restart"
  /\ EspGone("boot")
  /\ UNCHANGED <<flash, stm, loader, spent>>

\* release_control: four acknowledgements; an RAM program that waits for this
\* image resets, and takes the power of the ESP8684 with it.  They take a
\* second, longer than any step of the RAM program that asks for no page.
JobRelease(t) ==
  /\ job[t].at = "release"
  /\ stm.runs \notin {"mark", "erase", "vectors", "validate"}
  /\ IF stm.runs = "linger" /\ loader.target = esp.header
       THEN BothReset /\ UNCHANGED spent
       ELSE /\ JobGoes(t, "end")
            /\ UNCHANGED <<flash, esp, http, mgr, stm, loader, spent, tunnelVars>>

\* The resumed finish sends no OTA_STATE.
JobEnd(t) ==
  /\ job[t].at = "end"
  /\ job' = [job EXCEPT ![t] = NoTask]
  /\ esp' = [esp EXCEPT !.busy = FALSE]
  /\ OtaState(FALSE) \/ (t = "resume" /\ UNCHANGED hold)
  /\ UNCHANGED <<flash, http, mgr, stm, loader, spent, pc, usb, tun, lineVars>>

\* Nobody has begun to replace the journal that resume has read at the start.
JournalStands ==
  ~esp.busy /\ http.at = "idle" /\ esp.header = flash.header /\ flash.done = "ones"

\* The portal runs within 90 s, so the link to the STM32 is up.  busy is set and
\* not exchanged, and the journal not read again: the step may come beside an
\* upload or after one, which raced keeps and which counts as a fault.
ResumeInstall ==
  /\ job["resume"].at = "wait" /\ esp.portal
  /\ esp' = [esp EXCEPT !.busy = TRUE, !.phase = 3]
  /\ JobGoes("resume", "usb")
  /\ OtaState(TRUE)
  /\ IF JournalStands THEN UNCHANGED spent
     ELSE /\ spent.events < MaxEvents
          /\ spent' = [spent EXCEPT !.events = @ + 1, !.raced = TRUE]
  /\ UNCHANGED <<flash, http, mgr, stm, loader, pc, usb, tun, lineVars>>

ResumeGivesUp ==
  /\ job["resume"].at = "wait" /\ ~esp.portal
  /\ esp' = [esp EXCEPT !.phase = 5]
  /\ JobGoes("resume", "none")
  /\ UNCHANGED <<flash, http, mgr, stm, loader, spent, tunnelVars>>

-----------------------------------------------------------------------------
(* The RAM program of the STM32 (loader_main).                              *)

LoaderOnly == UNCHANGED <<flash, esp, http, job, mgr, spent, tunnelVars>>
Runs(r) == stm' = [stm EXCEPT !.runs = r]

\* A job reads the pages it is asked for from the stage.
Served == \E t \in Tasks : job[t].at = "serve"
\* The RAM program changes flash: a page only after it was served.
Writing ==
  \/ stm.runs \in {"mark", "erase", "vectors", "validate"}
  \/ stm.runs = "write" /\ Served
\* The checksum over the pages so far is that of the image, or is not.
Sum(got, page) == IF got = loader.target /\ page = loader.target THEN got ELSE Damaged

\* First pass: every page, nothing written.
LoaderCheck ==
  /\ stm.runs = "check" /\ Served
  /\ IF loader.page < Pages
       THEN loader' = [loader EXCEPT !.page = @ + 1, !.got = Sum(@, flash.stage)] /\ UNCHANGED stm
       ELSE LET got == Sum(loader.got, flash.stage) IN
            /\ loader' = [loader EXCEPT !.page = 1, !.got = got]
            /\ Runs(IF got # loader.target THEN "failed"
                    ELSE IF loader.dry THEN "verified"
                    ELSE IF Whole(loader.target) THEN "linger" ELSE "mark")
  /\ LoaderOnly

\* Three attempts for a page have failed.
LoaderUnserved ==
  /\ stm.runs \in {"check", "write"}
  /\ ~Served \/ spent.events < MaxEvents
  /\ Runs("failed")
  /\ UNCHANGED loader /\ LoaderOnly

\* boot_state erases the page and programs the new mark.
BootState(mark, next) ==
  IF stm.marker # "blank"
    THEN stm' = [stm EXCEPT !.marker = "blank"]
    ELSE stm' = [stm EXCEPT !.marker = mark, !.runs = next]

(* Mutant: the old image is erased before it is marked.                     *)
LoaderUnmarked ==
  /\ stm.runs = "mark"
  /\ Runs("erase")
  /\ UNCHANGED loader /\ LoaderOnly

LoaderMark ==
  /\ stm.runs = "mark"
  /\ BootState("downloading", "erase")
  /\ UNCHANGED loader /\ LoaderOnly

\* The first page, and with it the vector table of the old image.
LoaderErase ==
  /\ stm.runs = "erase"
  /\ stm' = [stm EXCEPT !.img[0] = Blank, !.img[1] = Blank, !.runs = "write"]
  /\ UNCHANGED loader /\ LoaderOnly

\* Second pass: each page is fetched again, erased, programmed, read back.
LoaderWrite ==
  /\ stm.runs = "write" /\ Served
  /\ LET got == Sum(loader.got, flash.stage)
         last == loader.page = Pages
     IN /\ loader' = [loader EXCEPT !.page = IF last THEN @ ELSE @ + 1, !.got = got]
        /\ stm' = [stm EXCEPT
             !.img[loader.page] = flash.stage,
             !.runs = IF ~last THEN "write"
                      ELSE IF got = loader.target THEN "vectors" ELSE "failed"]
  /\ LoaderOnly

\* The vector table, withheld until now; then the whole image is read back.
LoaderVectors ==
  /\ stm.runs = "vectors"
  /\ stm' = [stm EXCEPT !.img[0] = loader.target,
       !.runs = IF \A p \in 1 .. Pages : stm.img[p] = loader.target
                  THEN "validate" ELSE "failed"]
  /\ UNCHANGED loader /\ LoaderOnly

LoaderValidate ==
  /\ stm.runs = "validate"
  /\ BootState("valid", "linger")
  /\ UNCHANGED loader /\ LoaderOnly

\* An erasure or a programming fails.
LoaderError ==
  /\ stm.runs \in {"mark", "erase", "write", "vectors", "validate"}
  /\ Event
  /\ Runs("failed")
  /\ UNCHANGED <<flash, esp, http, job, mgr, loader, tunnelVars>>

\* finish, other than after LBK1: two seconds, then reset.
LoaderStops ==
  /\ stm.runs \in {"failed", "verified"}
  /\ BothReset
  /\ UNCHANGED spent

-----------------------------------------------------------------------------

BootStep == EspPowerOn \/ BootErase \/ BootReplace \/ BootApp
JobStep(t) ==
  \/ JobUsb(t) \/ JobPrepare(t) \/ JobUnprepared(t) \/ JobExec(t) \/ JobInstalled(t)
  \/ JobServed(t) \/ JobFinish(t) \/ JobTrigger(t) \/ JobRestart(t) \/ JobRelease(t) \/ JobEnd(t)
ResumeStep == ResumeInstall \/ ResumeGivesUp
LoaderStep ==
  \/ LoaderCheck \/ LoaderUnserved \/ LoaderMark \/ LoaderErase \/ LoaderWrite
  \/ LoaderVectors \/ LoaderValidate \/ LoaderStops
UploadStep ==
  \/ UploadEnter \/ UploadHeader \/ UploadErase \/ UploadControl \/ UploadData \/ UploadDry
  \/ UploadCommit \/ UploadInstall \/ UploadFailed
  \/ RecoveryEnter \/ RecoveryWrite \/ RecoveryFailed \/ RecoveryRestart
RadioStep ==
  \/ StmCommand \/ StmSendCommand \/ StmGivesUp \/ HoldExpires \/ ScanRequest
  \/ MgrAnnounce \/ MgrTake \/ MgrStop \/ MgrFinish \/ PortalStart \/ PrepareExpires
UsbStep ==
  \/ /\ AskUsb(stm.pending # "no") /\ stm.runs = "app" /\ spent.uploads < MaxUploads
     /\ spent' = [spent EXCEPT !.uploads = @ + 1]
     /\ UNCHANGED <<flash, esp, http, job, mgr, stm, loader>>
  \/ OpenUsb(stm.runs = "app" /\ esp.power = "on" /\ esp.portal /\ stm.pending = "no",
             ~esp.busy /\ esp.portal)
       /\ UNCHANGED updateVars
  \/ TunnelStep /\ UNCHANGED updateVars
  \/ TunnelFault /\ Event /\ UNCHANGED <<flash, esp, http, job, mgr, stm, loader>>

Next ==
  \/ BootStep \/ UploadStep \/ RadioStep \/ UsbStep \/ ResumeStep \/ LoaderStep
  \/ \E t \in Tasks : JobStep(t)
  \/ PowerLoss \/ EspPowerOff \/ EspRestart \/ LoaderError \/ UsbRepair

Fairness ==
  /\ WF_vars(BootStep) /\ WF_vars(ResumeStep) /\ WF_vars(LoaderStep)
  /\ \A t \in Tasks : WF_vars(JobStep(t))

Spec == Init /\ [][Next]_vars /\ Fairness

-----------------------------------------------------------------------------
(* Properties.                                                              *)

HttpPlaces == {"idle", "header", "erase_stage", "erase_storage", "erase_meta", "control",
               "control_check", "check", "commit", "installing",
               "r_erase", "r_data", "r_check", "r_commit", "r_restart"}
JobPlaces == {"none", "asleep", "wait", "usb", "prepare", "serve", "finish", "trigger",
              "restart", "release", "end"}

UpdateTypeOK ==
  /\ flash \in [app : Content, stage : Content, data : Content, trigger : Content,
                header : Content, packed : Content, done : {"ones", "control", "zero"}]
  /\ esp \in [power : {"off", "boot", "on"}, busy : BOOLEAN, phase : 0 .. 6,
              header : Content, ready : BOOLEAN, portal : BOOLEAN, entry : BOOLEAN,
              recovery : BOOLEAN, command : {"none", "victron", "scan"}, orphan : BOOLEAN]
  /\ http \in [at : HttpPlaces, file : Files \cup {NoFile}, dry : BOOLEAN, via : {"wifi", "usb"}]
  /\ job \in [Tasks -> [at : JobPlaces, dry : BOOLEAN, tries : 0 .. PrepareTries]]
  /\ mgr \in {"idle", "announce", "victron", "scan"}
  /\ stm \in [runs : {"app", "dfu", "check", "mark", "erase", "write", "vectors", "validate",
                      "linger", "failed", "verified"},
              img : [0 .. Pages -> Content], marker : {"valid", "downloading", "blank"},
              pending : {"no", "queued", "sent"}, prepared : [target : Content, dry : BOOLEAN]]
  /\ loader \in [target : Content, dry : BOOLEAN, page : 0 .. Pages, got : Content]
  /\ spent \in [uploads : 0 .. MaxUploads, events : 0 .. MaxEvents, lone : BOOLEAN, raced : BOOLEAN]

TypeOK == UpdateTypeOK /\ TunnelTypeOK

\* Whatever is interrupted, and when: the STM32 never runs an image that was
\* not written completely (loader_main withholds the vector table and keeps the
\* mark of the bootloader on "downloading" until the image has been read back).
BootsWhole == stm.runs = "app" => \E i \in Images : Whole(i)

\* The two halves of an update belong together (bundle_update.c): the STM32 is
\* only written while the journal holds the same bundle, committed in full; the
\* journal counts the control side as installed, and the bootloader is given its
\* header, only with that image in the STM32; and an update is reported complete
\* only with both applications of one bundle.  All that until a resume has begun
\* its install beside an upload or a service OTA, or after one.
OneBundle ==
  \/ spent.raced
  \/ /\ Writing => loader.target = flash.header /\ loader.target = flash.packed
     /\ (flash.header # Blank /\ (flash.done # "ones" \/ flash.trigger # Blank)) =>
          Whole(flash.header)
     /\ esp.phase = 4 => Whole(flash.app)

\* The RAM program never takes the place of an STM32 whose Bluetooth command
\* the ESP8684 is carrying out: an upload that begins after the radio manager
\* has taken the command is held back until the command has ended.  The one
\* exception is a command that the STM32 has given up on a READY, which does
\* not stop the worker.
LoaderAlone == LoaderRuns /\ mgr = "victron" => esp.orphan

\* An STM32 that has its new image and waits for the ESP8684 is released: after
\* any loss of power, and any restart of the ESP8684 once the journal says that
\* the control side is installed, unless a resume has raced with an upload.
LoaderReleased ==
  stm.runs = "linger" ~> (stm.runs # "linger" \/ spent.lone \/ spent.raced)
=============================================================================
