-------------------------- MODULE FirmwareUpdateProofs --------------------------
(***************************************************************************)
(* Proofs about FirmwareUpdate, for any bundles, pages, uploads and events: *)
(* its types, and that the STM32 never runs a partly written image, that the *)
(* RAM program never takes the place of a command that is carried out, that  *)
(* the tunnel passes its blocks on in order, and that the two halves of an   *)
(* update are of one bundle.                                                *)
(***************************************************************************)
EXTENDS FirmwareUpdate, UsbTunnelProofs

FlashSet ==
  [app : Content, stage : Content, data : Content, trigger : Content,
   header : Content, packed : Content, done : {"ones", "control", "zero"}]
EspSet ==
  [power : {"off", "boot", "on"}, busy : BOOLEAN, phase : 0 .. 6,
   header : Content, ready : BOOLEAN, portal : BOOLEAN, entry : BOOLEAN,
   recovery : BOOLEAN, command : {"none", "victron", "scan"}, orphan : BOOLEAN]
HttpSet ==
  [at : HttpPlaces, file : Files \cup {NoFile}, dry : BOOLEAN, via : {"wifi", "usb"}]
TaskSet == [at : JobPlaces, dry : BOOLEAN, tries : 0 .. PrepareTries]
MgrSet == {"idle", "announce", "victron", "scan"}
RunSet == {"app", "dfu", "check", "mark", "erase", "write", "vectors", "validate",
           "linger", "failed", "verified"}
StmSet ==
  [runs : RunSet, img : [0 .. Pages -> Content], marker : {"valid", "downloading", "blank"},
   pending : {"no", "queued", "sent"}, prepared : [target : Content, dry : BOOLEAN]]
LoaderSet == [target : Content, dry : BOOLEAN, page : 0 .. Pages, got : Content]
SpentSet ==
  [uploads : 0 .. MaxUploads, events : 0 .. MaxEvents, lone : BOOLEAN, raced : BOOLEAN]

\* UpdateTypeOK, a set for each variable.
UpdateTypes ==
  /\ flash \in FlashSet /\ esp \in EspSet /\ http \in HttpSet /\ job \in [Tasks -> TaskSet]
  /\ mgr \in MgrSet /\ stm \in StmSet /\ loader \in LoaderSet /\ spent \in SpentSet

\* A job that is going to send UPDATE_EXEC.
Waiting == {"wait", "usb", "prepare"}

\* What names the image of an update is the name of an image.
FileInv ==
  /\ http.at # "idle" => http.file \in Files
  /\ flash.header \in Images \cup {Blank}
  /\ \A t \in Tasks : job[t].at \in Waiting => esp.header \in Images
  /\ esp.power # "on" => http.at = "idle" /\ \A t \in Tasks : job[t].at = "none"

\* The mark of the bootloader stands as long as the image is not whole.
BootInv ==
  /\ stm.marker # "downloading" => \E i \in Images : Whole(i)
  /\ stm.runs \in {"app", "check", "mark"} => stm.marker # "downloading"
  /\ stm.runs \in {"erase", "write", "vectors"} => stm.marker = "downloading"
  /\ stm.runs = "validate" => Whole(loader.target)
  /\ LoaderRuns => loader.target \in Images

\* A command that waits or is carried out is pending unless it was given up on a
\* READY, and the RAM program found none pending.
AloneInv ==
  /\ mgr = "victron" \/ esp.command = "victron" => esp.orphan \/ stm.pending # "no"
  /\ mgr = "victron" => esp.command # "victron"
  /\ LoaderRuns => stm.pending = "no"
  /\ esp.power # "on" => mgr = "idle" /\ esp.command = "none"

UpdateInv == UpdateTypes /\ FileInv /\ BootInv /\ AloneInv

-----------------------------------------------------------------------------

LEMMA Contents ==
    /\ Old \in Content /\ Damaged \in Content /\ Blank \in Content
    /\ Images \subseteq Content /\ Blank \notin Images
BY UpdateAssumption DEF Content, Images

LEMMA FileFields ==
    /\ \A f \in Files \cup {NoFile} :
         f.bundle \in Content /\ f.control \in Content /\ f.esp \in Content
    /\ \A f \in Files : f.bundle \in Images
BY UpdateAssumption DEF Content, Images, NoFile

LEMMA Phases == 2 \in 0 .. 6 /\ 3 \in 0 .. 6 /\ 4 \in 0 .. 6 /\ 5 \in 0 .. 6 /\ 6 \in 0 .. 6
OBVIOUS

LEMMA SmallNumbers ==
    /\ 0 \in 0 .. PrepareTries /\ 0 \in 0 .. Pages /\ 1 \in 0 .. Pages
    /\ Pages \in Nat /\ PrepareTries \in Nat
    /\ MaxUploads \in Nat /\ MaxEvents \in Nat
BY UpdateAssumption, SMT

(* The parts of the STM32's record, and what each kind of step makes of them. *)
\* What a step may do to the record of the ESP8684 without touching what the
\* invariants are about.
EspKept(e, x) ==
  /\ x \in EspSet /\ x.header = e.header /\ x.power = e.power /\ x.command = e.command
  /\ x.orphan = e.orphan

LEMMA EspUpdates ==
    ASSUME NEW e \in EspSet
    PROVE  /\ \A b \in BOOLEAN : /\ EspKept(e, [e EXCEPT !.busy = b])
                                 /\ EspKept(e, [e EXCEPT !.ready = b])
           /\ \A p \in 0 .. 6 : EspKept(e, [e EXCEPT !.phase = p])
BY SMT DEF EspSet, EspKept

LEMMA FlashErased ==
    ASSUME NEW f \in FlashSet
    PROVE  [[[f EXCEPT !.header = Blank] EXCEPT !.packed = Blank] EXCEPT !.done = "ones"].header
             = Blank
<1> DEFINE x == [f EXCEPT !.header = Blank]
           y == [x EXCEPT !.packed = Blank]
<1>1. x \in [app : Content, stage : Content, data : Content, trigger : Content,
             header : {Blank}, packed : Content, done : {"ones", "control", "zero"}]
  BY SMT DEF FlashSet
<1>2. y.header = Blank /\ "header" \in DOMAIN y
  <2> HIDE DEF x
  <2>1. QED
    BY <1>1, SMT
<1>3. QED
  <2> HIDE DEF y
  <2>1. [y EXCEPT !.done = "ones"].header = Blank
    BY <1>2
  <2>2. QED
    BY <2>1 DEF y

LEMMA NoPrepareType == NoPrepare \in [target : Content, dry : BOOLEAN]
BY Contents DEF NoPrepare

LEMMA StmLaunch ==
    ASSUME stm \in StmSet, NEW s, s = [[stm EXCEPT !.runs = "check"] EXCEPT !.prepared = NoPrepare]
    PROVE  /\ s \in StmSet /\ s.runs = "check" /\ s.img = stm.img /\ s.marker = stm.marker
           /\ s.pending = stm.pending
<1> DEFINE x == [stm EXCEPT !.runs = "check"]
<1>1. /\ x \in StmSet /\ x.runs = "check" /\ x.img = stm.img /\ x.marker = stm.marker
      /\ x.pending = stm.pending
  BY SMT DEF StmSet, RunSet
<1>2. s = [x EXCEPT !.prepared = NoPrepare]
  OBVIOUS
<1> HIDE DEF x
<1>3. QED
  BY <1>1, <1>2, NoPrepareType, SMT DEF StmSet

LEMMA StmParts ==
    ASSUME UpdateInv
    PROVE  /\ stm \in StmSet /\ stm.runs \in RunSet /\ stm.img \in [0 .. Pages -> Content]
           /\ stm.marker \in {"valid", "downloading", "blank"}
           /\ stm.pending \in {"no", "queued", "sent"}
BY DEF UpdateInv, UpdateTypes, StmSet

LEMMA EventSpent ==
    ASSUME UpdateInv, Event
    PROVE  spent' \in SpentSet
<1>1. spent \in SpentSet /\ spent.events < MaxEvents
  BY DEF UpdateInv, UpdateTypes, Event
<1>2. [spent EXCEPT !.events = @ + 1] \in SpentSet
  BY <1>1, SmallNumbers, SMT DEF SpentSet
<1>3. QED
  BY <1>2 DEF Event

LEMMA StmRuns ==
    ASSUME stm \in StmSet, NEW r \in RunSet, NEW s, s = [stm EXCEPT !.runs = r]
    PROVE  /\ s \in StmSet /\ s.runs = r /\ s.img = stm.img /\ s.marker = stm.marker
           /\ s.pending = stm.pending
BY SMT DEF StmSet

LEMMA StmMarks ==
    ASSUME stm \in StmSet, NEW m \in {"valid", "downloading", "blank"}, NEW r \in RunSet,
           NEW s, s = [[stm EXCEPT !.marker = m] EXCEPT !.runs = r]
    PROVE  /\ s \in StmSet /\ s.runs = r /\ s.marker = m /\ s.img = stm.img
           /\ s.pending = stm.pending
<1> DEFINE x == [stm EXCEPT !.marker = m]
<1>1. x \in StmSet /\ x.marker = m /\ x.pending = stm.pending /\ x.img = stm.img
  BY SMT DEF StmSet
<1>2. s = [x EXCEPT !.runs = r]
  OBVIOUS
<1> HIDE DEF x
<1>3. QED
  BY <1>1, <1>2, SMT DEF StmSet

Written(i, r) == [[stm EXCEPT !.img = i] EXCEPT !.runs = r]

LEMMA StmWrites ==
    ASSUME stm \in StmSet, NEW i \in [0 .. Pages -> Content], NEW r \in RunSet
    PROVE  /\ Written(i, r) \in StmSet /\ Written(i, r).runs = r /\ Written(i, r).img = i
           /\ Written(i, r).marker = stm.marker /\ Written(i, r).pending = stm.pending
<1> DEFINE x == [stm EXCEPT !.img = i]
<1>1. x \in StmSet /\ x.img = i /\ x.pending = stm.pending /\ x.marker = stm.marker
  BY SMT DEF StmSet
<1>2. Written(i, r) = [x EXCEPT !.runs = r]
  BY DEF Written
<1> HIDE DEF x
<1>3. QED
  BY <1>1, <1>2, SMT DEF StmSet

LEMMA StmPrepares ==
    ASSUME stm \in StmSet, NEW p \in [target : Content, dry : BOOLEAN],
           NEW s, s = [stm EXCEPT !.prepared = p]
    PROVE  /\ s \in StmSet /\ s.runs = stm.runs /\ s.img = stm.img
           /\ s.marker = stm.marker /\ s.pending = stm.pending
BY SMT DEF StmSet

(* What BootInv and AloneInv are about stays as it was.                      *)
LEMMA BootKept ==
    ASSUME BootInv, stm'.img = stm.img, stm'.marker = stm.marker, stm'.runs = stm.runs,
           loader' = loader
    PROVE  BootInv'
BY DEF BootInv, Whole, LoaderRuns

LEMMA AloneKept ==
    ASSUME AloneInv, mgr' = mgr, esp'.power = esp.power, esp'.command = esp.command,
           esp'.orphan = esp.orphan, stm'.pending = stm.pending, LoaderRuns' => LoaderRuns
    PROVE  AloneInv'
BY DEF AloneInv

(* A job goes on, and does not come to wait for the STM32.                   *)
LEMMA FileKept ==
    ASSUME FileInv, UNCHANGED http, flash'.header = flash.header,
           esp'.header = esp.header, esp'.power = esp.power,
           NEW t \in Tasks, job[t].at # "none",
           \A u \in Tasks : u # t => job'[u] = job[u],
           job'[t].at \in Waiting => job[t].at \in Waiting
    PROVE  FileInv'
BY DEF FileInv, Waiting


(* The ESP8684 alone loses its RAM; a command becomes pending no sooner.      *)
LEMMA EspGoneInv ==
    ASSUME UpdateInv, NEW p \in {"off", "boot"}, EspGone(p), UNCHANGED <<flash, loader>>,
           spent' \in SpentSet, stm' \in StmSet, stm'.runs = stm.runs, stm'.img = stm.img,
           stm'.marker = stm.marker, LoaderRuns => stm'.pending = "no"
    PROVE  UpdateInv'
<1>1. /\ esp' \in EspSet /\ esp'.power # "on" /\ esp'.command = "none"
      /\ mgr' = "idle" /\ mgr' \in MgrSet
  BY Contents DEF EspSet, EspGone, EspReset, MgrSet
<1>2. http' \in HttpSet /\ http'.at = "idle"
  BY SMT DEF HttpSet, HttpPlaces, EspGone, HttpIdle
<1>3. job' \in [Tasks -> TaskSet] /\ \A t \in Tasks : job'[t].at = "none"
  BY SmallNumbers, SMT DEF TaskSet, JobPlaces, EspGone, NoJob, NoTask
<1>4. UpdateTypes'
  BY <1>1, <1>2, <1>3 DEF UpdateInv, UpdateTypes
<1>5. FileInv'
  BY <1>1, <1>2, <1>3 DEF UpdateInv, FileInv, Waiting
<1>6. BootInv'
  BY BootKept DEF UpdateInv
<1>7. AloneInv'
  BY <1>1 DEF AloneInv, LoaderRuns
<1>8. QED
  BY <1>4, <1>5, <1>6, <1>7 DEF UpdateInv

LEMMA EspPowerOnInv ==
    ASSUME UpdateInv, EspPowerOn
    PROVE  UpdateInv'
<1>1. UNCHANGED <<flash, http, job, mgr, stm, loader, spent>>
  BY DEF EspPowerOn, EspReset
<1>2. esp' \in EspSet
  BY Contents, SMT DEF EspSet, EspPowerOn, EspReset
<1>3. UpdateTypes'
  BY <1>1, <1>2 DEF UpdateInv, UpdateTypes
<1>4. FileInv'
  BY <1>1, SMT DEF UpdateInv, FileInv, EspPowerOn, EspReset, Waiting
<1>5. BootInv'
  BY <1>1 DEF UpdateInv, BootInv, Whole, LoaderRuns
<1>6. AloneInv'
  BY <1>1, <1>3, SMT DEF UpdateInv, AloneInv, LoaderRuns, EspPowerOn, EspReset
<1>7. QED
  BY <1>3, <1>4, <1>5, <1>6 DEF UpdateInv

LEMMA BootEraseInv ==
    ASSUME UpdateInv, BootErase
    PROVE  UpdateInv'
<1>1. UNCHANGED <<esp, http, job, mgr, stm, loader, spent>>
  BY DEF BootErase
<1>2. flash' \in FlashSet
  <2>1. flash \in FlashSet
    BY DEF UpdateInv, UpdateTypes
  <2>2. flash' = [flash EXCEPT !.app = Blank, !.stage = Blank]
    BY DEF BootErase
  <2>3. QED
    BY <2>1, <2>2, Contents DEF FlashSet
<1>3. UpdateTypes'
  BY <1>1, <1>2 DEF UpdateInv, UpdateTypes
<1>4. FileInv'
  BY <1>1, <1>3, SMT DEF UpdateInv, FileInv, BootErase
<1>5. BootInv'
  BY <1>1 DEF UpdateInv, BootInv, Whole, LoaderRuns
<1>6. AloneInv'
  BY <1>1 DEF UpdateInv, AloneInv, LoaderRuns
<1>7. QED
  BY <1>3, <1>4, <1>5, <1>6 DEF UpdateInv

LEMMA BootReplaceInv ==
    ASSUME UpdateInv, BootReplace
    PROVE  UpdateInv'
<1>1. UNCHANGED <<esp, http, job, mgr, stm, loader, spent>>
  BY DEF BootReplace
<1>2. flash' \in FlashSet
  <2>1. flash \in FlashSet
    BY DEF UpdateInv, UpdateTypes
  <2>2. flash' = [flash EXCEPT !.app = flash.data, !.trigger = Blank]
    BY DEF BootReplace
  <2>3. QED
    BY <2>1, <2>2, Contents DEF FlashSet
<1>3. UpdateTypes'
  BY <1>1, <1>2 DEF UpdateInv, UpdateTypes
<1>4. FileInv'
  BY <1>1, <1>3, SMT DEF UpdateInv, FileInv, BootReplace
<1>5. BootInv'
  BY <1>1 DEF UpdateInv, BootInv, Whole, LoaderRuns
<1>6. AloneInv'
  BY <1>1 DEF UpdateInv, AloneInv, LoaderRuns
<1>7. QED
  BY <1>3, <1>4, <1>5, <1>6 DEF UpdateInv

LEMMA ReadyHeardStm ==
    ASSUME UpdateInv, ReadyHeard
    PROVE  /\ stm' \in StmSet /\ stm'.runs = stm.runs /\ stm'.img = stm.img
           /\ stm'.marker = stm.marker
<1>1. stm' = stm \/ \E q \in {"no", "queued"} : stm' = [stm EXCEPT !.pending = q]
  BY DEF ReadyHeard
<1>2. QED
  BY <1>1, StmParts DEF StmSet

LEMMA JournalReadType ==
    ASSUME UpdateInv
    PROVE  /\ JournalRead \in EspSet /\ JournalRead.power = "on"
           /\ JournalRead.header = flash.header /\ JournalRead.command = "none"
           /\ ~JournalRead.portal /\ ~JournalRead.ready
           /\ JournalRead.busy = (flash.header # Blank /\ flash.done = "control")
           /\ JournalRead.phase = 4 => flash.header # Blank /\ flash.done = "zero"
                                       /\ flash.app = flash.header
<1> DEFINE e == EspReset("on")
           b == flash.header # Blank /\ flash.done = "control"
           p == IF flash.header = Blank THEN 0
                ELSE IF flash.done = "zero" /\ flash.app = flash.header THEN 4
                ELSE IF flash.done = "ones" /\ flash.stage # flash.header THEN 5
                ELSE 0
           x == [e EXCEPT !.header = flash.header]
           y == [x EXCEPT !.busy = b]
<1>1. flash.header \in Content /\ b \in BOOLEAN /\ p \in 0 .. 6
  BY DEF UpdateInv, UpdateTypes, FlashSet
<1>2. e \in EspSet /\ e.power = "on" /\ e.command = "none" /\ ~e.portal /\ ~e.ready
  BY Contents DEF EspReset, EspSet
<1>3. p = 4 => flash.header # Blank /\ flash.done = "zero" /\ flash.app = flash.header
  OBVIOUS
<1>4. JournalRead = [y EXCEPT !.phase = p]
  BY DEF JournalRead
<1> HIDE DEF e, b, p
<1>5. /\ x \in EspSet /\ x.power = "on" /\ x.command = "none" /\ ~x.portal /\ ~x.ready
      /\ x.header = flash.header
  BY <1>1, <1>2 DEF EspSet
<1> HIDE DEF x
<1>6. /\ y \in EspSet /\ y.power = "on" /\ y.command = "none" /\ ~y.portal /\ ~y.ready
      /\ y.header = flash.header /\ y.busy = b
  BY <1>1, <1>5 DEF EspSet
<1> HIDE DEF y
<1>7. LET z == [y EXCEPT !.phase = p] IN
      /\ z \in EspSet /\ z.power = "on" /\ z.command = "none" /\ ~z.portal /\ ~z.ready
      /\ z.header = flash.header /\ z.busy = b /\ z.phase = p
  BY <1>1, <1>6 DEF EspSet
<1>8. QED
  BY <1>3, <1>4, <1>7 DEF b

LEMMA BootAppInv ==
    ASSUME UpdateInv, BootApp
    PROVE  UpdateInv'
<1>1. UNCHANGED <<flash, http, loader, spent>> /\ esp' = JournalRead
  BY DEF BootApp
<1>2. mgr' \in {"idle", "announce"}
  BY DEF BootApp
<1>3. /\ job' \in [Tasks -> TaskSet]
      /\ \A t \in Tasks : job'[t].at \in Waiting => flash.header # Blank
  <2>1. NoJob \in [Tasks -> TaskSet] /\ \A t \in Tasks : NoJob[t].at = "none"
    BY SmallNumbers, SMT DEF NoJob, NoTask, TaskSet, JobPlaces
  <2>2. PICK r \in {"none", "wait", "finish"} :
          /\ job' = [NoJob EXCEPT !["resume"].at = r]
          /\ flash.header = Blank => r = "none"
    BY DEF BootApp, Resumes
  <2>3. QED
    BY <2>1, <2>2, SMT DEF TaskSet, JobPlaces, Tasks, Waiting
<1>4. /\ stm' \in StmSet /\ stm'.runs = stm.runs /\ stm'.img = stm.img
      /\ stm'.marker = stm.marker /\ (stm'.pending = "no" \/ ~LoaderRuns)
  BY ReadyHeardStm, StmParts DEF BootApp, UpdateInv, AloneInv, FramesRead, LoaderRuns
<1>5. UpdateTypes'
  BY <1>1, <1>2, <1>3, <1>4, JournalReadType DEF UpdateInv, UpdateTypes, MgrSet
<1>6. FileInv'
  <2>1. http.at = "idle"
    BY DEF BootApp, UpdateInv, FileInv
  <2>2. QED
    BY <1>1, <1>3, <2>1, JournalReadType DEF UpdateInv, FileInv
<1>7. BootInv'
  BY <1>1, <1>4, BootKept DEF UpdateInv
<1>8. AloneInv'
  BY <1>1, <1>2, <1>4, JournalReadType DEF AloneInv, LoaderRuns
<1>9. QED
  BY <1>5, <1>6, <1>7, <1>8 DEF UpdateInv

LEMMA UsbRepairInv ==
    ASSUME UpdateInv, UsbRepair
    PROVE  UpdateInv'
<1>1. UNCHANGED <<flash, esp, http, job, mgr, loader, spent>>
  BY DEF UsbRepair
<1>2. stm' \in StmSet
  <2>1. PICK i \in Images :
          stm' = [[[stm EXCEPT !.runs = "app"] EXCEPT !.marker = "valid"]
                     EXCEPT !.img = [p \in 0 .. Pages |-> i]]
    BY DEF UsbRepair
  <2>2. [p \in 0 .. Pages |-> i] \in [0 .. Pages -> Content]
    BY Contents
  <2>3. QED
    BY <2>1, <2>2, StmParts DEF StmSet, RunSet
<1>3. UpdateTypes'
  BY <1>1, <1>2 DEF UpdateInv, UpdateTypes
<1>4. FileInv'
  BY <1>1 DEF UpdateInv, FileInv, Waiting
<1>5. BootInv'
  BY <1>1, <1>3, SMT DEF BootInv, Whole, LoaderRuns, UsbRepair
<1>6. AloneInv'
  BY <1>1, <1>3, SMT DEF UpdateInv, AloneInv, LoaderRuns, UsbRepair
<1>7. QED
  BY <1>3, <1>4, <1>5, <1>6 DEF UpdateInv

LEMMA StmCommandInv ==
    ASSUME UpdateInv, StmCommand
    PROVE  UpdateInv'
<1>1. UNCHANGED <<flash, esp, http, job, mgr, loader>>
  BY DEF StmCommand, StmOnly
<1>2. stm' \in StmSet
  BY Contents, FileFields, SMT DEF UpdateInv, UpdateTypes, StmSet, StmCommand
<1>3. spent' \in SpentSet
  BY EventSpent DEF StmCommand
<1>4. UpdateTypes'
  BY <1>1, <1>2, <1>3 DEF UpdateInv, UpdateTypes
<1>5. FileInv'
  BY <1>1 DEF UpdateInv, FileInv, Waiting
<1>6. BootInv'
  BY <1>1, <1>4, SMT DEF UpdateInv, BootInv, Whole, LoaderRuns, StmCommand
<1>7. AloneInv'
  BY <1>1, <1>4, SMT DEF UpdateInv, AloneInv, LoaderRuns, StmCommand
<1>8. QED
  BY <1>4, <1>5, <1>6, <1>7 DEF UpdateInv

LEMMA StmSendCommandInv ==
    ASSUME UpdateInv, StmSendCommand
    PROVE  UpdateInv'
<1>1. UNCHANGED <<flash, http, job, mgr, loader, spent>>
  BY DEF StmSendCommand
<1>2. /\ stm' \in StmSet /\ stm'.runs = stm.runs /\ stm'.img = stm.img
      /\ stm'.marker = stm.marker /\ stm'.pending \in {"no", "sent"}
      /\ stm'.pending = "no" => esp.orphan
  <2>1. PICK q \in {"no", "sent"} : /\ stm' = [stm EXCEPT !.pending = q]
                                    /\ q = "no" => esp.orphan
    BY DEF StmSendCommand
  <2>2. QED
    BY <2>1, StmParts DEF StmSet
<1>3. /\ esp' \in EspSet /\ esp'.power = esp.power /\ esp'.header = esp.header
      /\ esp'.orphan = esp.orphan
      /\ esp'.command # esp.command => esp'.command = "victron" /\ mgr # "victron"
  <2>1. esp \in EspSet
    BY DEF UpdateInv, UpdateTypes
  <2>2. esp' = esp \/ (mgr # "victron" /\ esp' = [esp EXCEPT !.command = "victron"])
    BY DEF StmSendCommand
  <2>3. QED
    BY <2>1, <2>2 DEF EspSet
<1>4. UpdateTypes'
  BY <1>1, <1>2, <1>3 DEF UpdateInv, UpdateTypes
<1>5. FileInv'
  BY <1>1, <1>3 DEF UpdateInv, FileInv
<1>6. BootInv'
  BY <1>1, <1>2, BootKept DEF UpdateInv
<1>7. AloneInv'
  BY <1>1, <1>2, <1>3 DEF UpdateInv, AloneInv, LoaderRuns, StmSendCommand
<1>8. QED
  BY <1>4, <1>5, <1>6, <1>7 DEF UpdateInv

LEMMA MgrAnnounceInv ==
    ASSUME UpdateInv, MgrAnnounce
    PROVE  UpdateInv'
<1>1. UNCHANGED <<flash, http, job, loader, spent>> /\ mgr' = "idle"
  BY DEF MgrAnnounce
<1>2. /\ stm' \in StmSet /\ stm'.runs = stm.runs /\ stm'.img = stm.img
      /\ stm'.marker = stm.marker /\ stm.runs = "app"
  BY ReadyHeardStm DEF MgrAnnounce, FramesRead
<1>3. /\ esp' \in EspSet /\ esp'.power = esp.power /\ esp'.header = esp.header
      /\ esp'.command = esp.command
      /\ esp'.orphan <=> esp.command = "victron" /\ stm'.pending = "no"
  <2>1. PICK b \in BOOLEAN : /\ esp' = [esp EXCEPT !.orphan = b]
                             /\ b <=> esp.command = "victron" /\ stm'.pending = "no"
    BY DEF MgrAnnounce
  <2>2. QED
    BY <2>1 DEF UpdateInv, UpdateTypes, EspSet
<1>4. UpdateTypes'
  BY <1>1, <1>2, <1>3 DEF UpdateInv, UpdateTypes, MgrSet
<1>5. FileInv'
  BY <1>1, <1>3 DEF UpdateInv, FileInv
<1>6. BootInv'
  BY <1>1, <1>2, BootKept DEF UpdateInv
<1>7. AloneInv'
  BY <1>1, <1>2, <1>3 DEF UpdateInv, AloneInv, LoaderRuns
<1>8. QED
  BY <1>4, <1>5, <1>6, <1>7 DEF UpdateInv

LEMMA ScanRequestInv ==
    ASSUME UpdateInv, ScanRequest
    PROVE  UpdateInv'
<1>1. UNCHANGED <<flash, http, job, mgr, stm, loader>>
  BY DEF ScanRequest
<1>2. esp' \in EspSet
  BY SMT DEF UpdateInv, UpdateTypes, EspSet, ScanRequest
<1>3. spent' \in SpentSet
  BY EventSpent DEF ScanRequest
<1>4. UpdateTypes'
  BY <1>1, <1>2, <1>3 DEF UpdateInv, UpdateTypes
<1>5. FileInv'
  BY <1>1, <1>4, SMT DEF UpdateInv, FileInv, ScanRequest
<1>6. BootInv'
  BY <1>1 DEF UpdateInv, BootInv, Whole, LoaderRuns
<1>7. AloneInv'
  BY <1>1, <1>4, SMT DEF UpdateInv, AloneInv, LoaderRuns, ScanRequest
<1>8. QED
  BY <1>4, <1>5, <1>6, <1>7 DEF UpdateInv

LEMMA MgrTakeInv ==
    ASSUME UpdateInv, MgrTake
    PROVE  UpdateInv'
<1>1. UNCHANGED <<flash, http, job, stm, loader, spent>>
  BY DEF MgrTake
<1>2. mgr' \in MgrSet
  BY DEF UpdateInv, UpdateTypes, EspSet, MgrSet, MgrTake
<1>3. esp' \in EspSet
  BY Contents, FileFields, SmallNumbers, SMT DEF UpdateInv, UpdateTypes, EspSet, MgrTake
<1>4. UpdateTypes'
  BY <1>1, <1>2, <1>3 DEF UpdateInv, UpdateTypes
<1>5. FileInv'
  BY <1>1, <1>4, SMT DEF UpdateInv, FileInv, MgrTake
<1>6. BootInv'
  BY <1>1 DEF UpdateInv, BootInv, Whole, LoaderRuns
<1>7. AloneInv'
  BY <1>1, <1>4, SMT DEF UpdateInv, AloneInv, LoaderRuns, MgrTake
<1>8. QED
  BY <1>4, <1>5, <1>6, <1>7 DEF UpdateInv

LEMMA MgrStopInv ==
    ASSUME UpdateInv, MgrStop
    PROVE  UpdateInv'
<1>1. UNCHANGED <<flash, http, job, mgr, stm, loader, spent>>
  BY DEF MgrStop
<1>2. esp' \in EspSet
  <2>1. esp \in EspSet
    BY DEF UpdateInv, UpdateTypes
  <2>2. esp' = [esp EXCEPT !.portal = FALSE]
    BY DEF MgrStop
  <2>3. QED
    BY <2>1, <2>2, Contents DEF EspSet
<1>3. UpdateTypes'
  BY <1>1, <1>2 DEF UpdateInv, UpdateTypes
<1>4. FileInv'
  BY <1>1, <1>3, SMT DEF UpdateInv, FileInv, MgrStop
<1>5. BootInv'
  BY <1>1 DEF UpdateInv, BootInv, Whole, LoaderRuns
<1>6. AloneInv'
  BY <1>1, <1>3, SMT DEF UpdateInv, AloneInv, LoaderRuns, MgrStop
<1>7. QED
  BY <1>3, <1>4, <1>5, <1>6 DEF UpdateInv

LEMMA MgrFinishInv ==
    ASSUME UpdateInv, MgrFinish
    PROVE  UpdateInv'
<1>1. UNCHANGED <<flash, http, job, loader, spent>> /\ mgr' = "idle"
  BY DEF MgrFinish
<1>2. /\ stm' \in StmSet /\ stm'.runs = stm.runs /\ stm'.img = stm.img
      /\ stm'.marker = stm.marker
      /\ stm'.pending = stm.pending \/ (stm'.pending = "no" /\ mgr = "victron")
  <2>1. \/ stm' = stm
        \/ mgr = "victron" /\ stm' = [stm EXCEPT !.pending = "no"]
    BY DEF MgrFinish
  <2>2. QED
    BY <2>1, StmParts DEF StmSet
<1>3. /\ esp' \in EspSet /\ esp'.power = esp.power /\ esp'.header = esp.header
      /\ esp'.command = esp.command /\ (esp'.orphan = esp.orphan \/ mgr = "victron")
  <2>1. esp' = esp \/ (mgr = "victron" /\ esp' = [esp EXCEPT !.orphan = FALSE])
    BY DEF MgrFinish
  <2>2. QED
    BY <2>1 DEF UpdateInv, UpdateTypes, EspSet
<1>4. UpdateTypes'
  BY <1>1, <1>2, <1>3 DEF UpdateInv, UpdateTypes, MgrSet
<1>5. FileInv'
  BY <1>1, <1>3 DEF UpdateInv, FileInv
<1>6. BootInv'
  BY <1>1, <1>2, BootKept DEF UpdateInv
<1>7. AloneInv'
  BY <1>1, <1>2, <1>3 DEF UpdateInv, AloneInv, LoaderRuns
<1>8. QED
  BY <1>4, <1>5, <1>6, <1>7 DEF UpdateInv

LEMMA PortalStartInv ==
    ASSUME UpdateInv, PortalStart
    PROVE  UpdateInv'
<1>1. UNCHANGED <<flash, http, job, mgr, stm, loader, spent>>
  BY DEF PortalStart
<1>2. esp' \in EspSet
  <2>1. esp \in EspSet
    BY DEF UpdateInv, UpdateTypes
  <2>2. esp' = [esp EXCEPT !.portal = TRUE]
    BY DEF PortalStart
  <2>3. QED
    BY <2>1, <2>2, Contents DEF EspSet
<1>3. UpdateTypes'
  BY <1>1, <1>2 DEF UpdateInv, UpdateTypes
<1>4. FileInv'
  BY <1>1, <1>3, SMT DEF UpdateInv, FileInv, PortalStart
<1>5. BootInv'
  BY <1>1 DEF UpdateInv, BootInv, Whole, LoaderRuns
<1>6. AloneInv'
  BY <1>1, <1>3, SMT DEF UpdateInv, AloneInv, LoaderRuns, PortalStart
<1>7. QED
  BY <1>3, <1>4, <1>5, <1>6 DEF UpdateInv

LEMMA UploadEnterInv ==
    ASSUME UpdateInv, UploadEnter
    PROVE  UpdateInv'
<1>1. UNCHANGED <<flash, job, mgr, stm, loader>>
  BY DEF UploadEnter
<1>2. http' \in HttpSet
  BY SMT DEF HttpSet, HttpPlaces, UploadEnter
<1>3. esp' \in EspSet
  <2>1. esp \in EspSet
    BY DEF UpdateInv, UpdateTypes
  <2>2. esp' = [esp EXCEPT !.busy = TRUE, !.entry = TRUE]
    BY DEF UploadEnter
  <2>3. QED
    BY <2>1, <2>2, Contents DEF EspSet
<1>4. spent' \in SpentSet
  BY SmallNumbers, SMT DEF UpdateInv, UpdateTypes, SpentSet, UploadEnter
<1>5. UpdateTypes'
  BY <1>1, <1>2, <1>3, <1>4 DEF UpdateInv, UpdateTypes
<1>6. FileInv'
  BY <1>1, <1>5, SMT DEF UpdateInv, FileInv, UploadEnter
<1>7. BootInv'
  BY <1>1 DEF UpdateInv, BootInv, Whole, LoaderRuns
<1>8. AloneInv'
  BY <1>1, <1>5, SMT DEF UpdateInv, AloneInv, LoaderRuns, UploadEnter
<1>9. QED
  BY <1>5, <1>6, <1>7, <1>8 DEF UpdateInv

LEMMA UploadHeaderInv ==
    ASSUME UpdateInv, UploadHeader
    PROVE  UpdateInv'
<1>1. UNCHANGED <<flash, mgr, stm, loader, spent>>
  BY DEF UploadHeader, HttpGoes, NoTask
<1>2. http' \in HttpSet
  BY SMT DEF UpdateInv, UpdateTypes, HttpSet, HttpPlaces, UploadHeader, HttpGoes
<1>3. job' \in [Tasks -> TaskSet]
  <2>a. http.dry \in BOOLEAN
    BY DEF UpdateInv, UpdateTypes, HttpSet
  <2>b. NoTask \in TaskSet
    BY SmallNumbers DEF NoTask, TaskSet, JobPlaces
  <2>1. [NoTask EXCEPT !.at = "asleep", !.dry = http.dry] \in TaskSet
    BY <2>a, <2>b DEF TaskSet, JobPlaces
  <2>2. job \in [Tasks -> TaskSet]
    BY DEF UpdateInv, UpdateTypes
  <2>3. QED
    BY <2>1, <2>2 DEF UploadHeader
<1>4. esp' \in EspSet
  BY SMT DEF UpdateInv, UpdateTypes, EspSet, UploadHeader
<1>5. UpdateTypes'
  BY <1>1, <1>2, <1>3, <1>4 DEF UpdateInv, UpdateTypes
<1>6. FileInv'
  BY <1>1, <1>5, SMT DEF UpdateInv, FileInv, Waiting, UploadHeader, HttpGoes
<1>7. BootInv'
  BY <1>1 DEF UpdateInv, BootInv, Whole, LoaderRuns
<1>8. AloneInv'
  BY <1>1, <1>5, SMT DEF UpdateInv, AloneInv, LoaderRuns, UploadHeader
<1>9. QED
  BY <1>5, <1>6, <1>7, <1>8 DEF UpdateInv

LEMMA UploadEraseInv ==
    ASSUME UpdateInv, UploadErase
    PROVE  UpdateInv'
<1>1. UNCHANGED <<esp, job, mgr, stm, loader, spent>>
  BY DEF UploadErase, HttpGoes, HttpOnly
<1>2. flash' \in FlashSet
  <2>1. flash \in FlashSet
    BY DEF UpdateInv, UpdateTypes
  <2>2. \/ flash' = [flash EXCEPT !.stage = Blank]
        \/ flash' = [flash EXCEPT !.data = Blank, !.trigger = Blank]
        \/ flash' = [[[flash EXCEPT !.header = Blank] EXCEPT !.packed = Blank] EXCEPT !.done = "ones"]
    BY DEF UploadErase, HttpGoes, HttpOnly
  <2>3. QED
    BY <2>1, <2>2, Contents DEF FlashSet
<1>3. http' \in HttpSet
  BY SMT DEF UpdateInv, UpdateTypes, HttpSet, HttpPlaces, UploadErase, HttpGoes
<1>4. UpdateTypes'
  BY <1>1, <1>2, <1>3 DEF UpdateInv, UpdateTypes
<1>5. FileInv'
  <2>1. job' = job /\ esp' = esp
    BY <1>1
  <2>2. http.at # "idle" /\ http'.file = http.file
    BY SMT DEF UpdateInv, UpdateTypes, HttpSet, UploadErase, HttpGoes
  <2>3. flash'.header = flash.header \/ flash'.header = Blank
    <3>1. flash \in FlashSet
      BY DEF UpdateInv, UpdateTypes
    <3>2. \/ flash' = [flash EXCEPT !.stage = Blank]
          \/ flash' = [flash EXCEPT !.data = Blank, !.trigger = Blank]
          \/ flash' = [[[flash EXCEPT !.header = Blank] EXCEPT !.packed = Blank]
                         EXCEPT !.done = "ones"]
      BY DEF UploadErase
    <3>3. CASE flash' = [[[flash EXCEPT !.header = Blank] EXCEPT !.packed = Blank]
                           EXCEPT !.done = "ones"]
      BY <3>1, <3>3, FlashErased
    <3>4. CASE ~(flash' = [[[flash EXCEPT !.header = Blank] EXCEPT !.packed = Blank]
                             EXCEPT !.done = "ones"])
      BY <3>1, <3>2, <3>4 DEF FlashSet
    <3>5. QED
      BY <3>3, <3>4
  <2>4. QED
    BY <2>1, <2>2, <2>3 DEF UpdateInv, FileInv
<1>6. BootInv'
  BY <1>1 DEF UpdateInv, BootInv, Whole, LoaderRuns
<1>7. AloneInv'
  BY <1>1 DEF UpdateInv, AloneInv, LoaderRuns
<1>8. QED
  BY <1>4, <1>5, <1>6, <1>7 DEF UpdateInv

LEMMA UploadControlInv ==
    ASSUME UpdateInv, UploadControl
    PROVE  UpdateInv'
<1>1. UNCHANGED <<esp, job, mgr, stm, loader, spent>>
  BY DEF UploadControl, HttpGoes, HttpOnly
<1>2. flash' \in FlashSet
  <2>1. flash \in FlashSet
    BY DEF UpdateInv, UpdateTypes
  <2>2. flash' = [flash EXCEPT !.stage = http.file.control]
    BY DEF UploadControl, HttpGoes, HttpOnly
  <2>3. /\ http.file.bundle \in Content /\ http.file.control \in Content
        /\ http.file.esp \in Content
    BY FileFields DEF UpdateInv, UpdateTypes, HttpSet
  <2>4. QED
    BY <2>1, <2>2, Contents, <2>3 DEF FlashSet
<1>3. http' \in HttpSet
  BY SMT DEF UpdateInv, UpdateTypes, HttpSet, HttpPlaces, UploadControl, HttpGoes
<1>4. UpdateTypes'
  BY <1>1, <1>2, <1>3 DEF UpdateInv, UpdateTypes
<1>5. FileInv'
  BY <1>1, <1>4, SMT DEF UpdateInv, FileInv, UploadControl, HttpGoes
<1>6. BootInv'
  BY <1>1 DEF UpdateInv, BootInv, Whole, LoaderRuns
<1>7. AloneInv'
  BY <1>1 DEF UpdateInv, AloneInv, LoaderRuns
<1>8. QED
  BY <1>4, <1>5, <1>6, <1>7 DEF UpdateInv

LEMMA UploadDataInv ==
    ASSUME UpdateInv, UploadData
    PROVE  UpdateInv'
<1>1. UNCHANGED <<esp, job, mgr, stm, loader, spent>>
  BY DEF UploadData, HttpGoes, HttpOnly
<1>2. flash' \in FlashSet
  <2>1. flash \in FlashSet
    BY DEF UpdateInv, UpdateTypes
  <2>2. flash' = [flash EXCEPT !.data = http.file.esp]
    BY DEF UploadData, HttpGoes, HttpOnly
  <2>3. /\ http.file.bundle \in Content /\ http.file.control \in Content
        /\ http.file.esp \in Content
    BY FileFields DEF UpdateInv, UpdateTypes, HttpSet
  <2>4. QED
    BY <2>1, <2>2, Contents, <2>3 DEF FlashSet
<1>3. http' \in HttpSet
  BY SMT DEF UpdateInv, UpdateTypes, HttpSet, HttpPlaces, UploadData, HttpGoes
<1>4. UpdateTypes'
  BY <1>1, <1>2, <1>3 DEF UpdateInv, UpdateTypes
<1>5. FileInv'
  BY <1>1, <1>4, SMT DEF UpdateInv, FileInv, UploadData, HttpGoes
<1>6. BootInv'
  BY <1>1 DEF UpdateInv, BootInv, Whole, LoaderRuns
<1>7. AloneInv'
  BY <1>1 DEF UpdateInv, AloneInv, LoaderRuns
<1>8. QED
  BY <1>4, <1>5, <1>6, <1>7 DEF UpdateInv

LEMMA UploadDryInv ==
    ASSUME UpdateInv, UploadDry
    PROVE  UpdateInv'
<1>1. UNCHANGED <<flash, mgr, stm, loader, spent>>
  BY DEF UploadDry, HttpIdle, Verified
<1>2. esp' \in EspSet
  <2>1. esp \in EspSet
    BY DEF UpdateInv, UpdateTypes
  <2>2. esp' = [esp EXCEPT !.header = http.file.bundle, !.entry = FALSE]
    BY DEF UploadDry, HttpIdle, Verified
  <2>3. /\ http.file.bundle \in Content /\ http.file.control \in Content
        /\ http.file.esp \in Content
    BY FileFields DEF UpdateInv, UpdateTypes, HttpSet
  <2>4. QED
    BY <2>1, <2>2, Contents, <2>3 DEF EspSet
<1>3. job' \in [Tasks -> TaskSet]
  BY SMT DEF UpdateInv, UpdateTypes, TaskSet, JobPlaces, Tasks, UploadDry
<1>4. http' \in HttpSet
  BY SMT DEF HttpSet, HttpPlaces, UploadDry, HttpIdle
<1>5. UpdateTypes'
  BY <1>1, <1>2, <1>3, <1>4 DEF UpdateInv, UpdateTypes
<1>6. FileInv'
  BY <1>1, <1>5, FileFields, SMT DEF UpdateInv, FileInv, UploadDry, HttpIdle, Verified
<1>7. BootInv'
  BY <1>1 DEF UpdateInv, BootInv, Whole, LoaderRuns
<1>8. AloneInv'
  BY <1>1, <1>5, SMT DEF UpdateInv, AloneInv, LoaderRuns, UploadDry
<1>9. QED
  BY <1>5, <1>6, <1>7, <1>8 DEF UpdateInv

LEMMA UploadCommitInv ==
    ASSUME UpdateInv, UploadCommit
    PROVE  UpdateInv'
<1>1. UNCHANGED <<esp, job, mgr, stm, loader, spent>>
  BY DEF UploadCommit, Commit, HttpGoes, HttpOnly, Verified
<1>2. flash' \in FlashSet
  <2>1. flash \in FlashSet
    BY DEF UpdateInv, UpdateTypes
  <2>2. \/ flash' = [flash EXCEPT !.packed = http.file.bundle]
        \/ flash' = [flash EXCEPT !.header = http.file.bundle]
    BY DEF UploadCommit, Commit, HttpGoes, HttpOnly, Verified
  <2>3. /\ http.file.bundle \in Content /\ http.file.control \in Content
        /\ http.file.esp \in Content
    BY FileFields DEF UpdateInv, UpdateTypes, HttpSet
  <2>4. QED
    BY <2>1, <2>2, Contents, <2>3 DEF FlashSet
<1>3. http' \in HttpSet
  BY SMT DEF UpdateInv, UpdateTypes, HttpSet, HttpPlaces, UploadCommit, Commit, HttpGoes
<1>4. UpdateTypes'
  BY <1>1, <1>2, <1>3 DEF UpdateInv, UpdateTypes
<1>5. FileInv'
  BY <1>1, <1>4, FileFields, SMT
    DEF UpdateInv, UpdateTypes, FileInv, FlashSet, HttpSet, UploadCommit, Commit,
        HttpGoes, Verified
<1>6. BootInv'
  BY <1>1 DEF UpdateInv, BootInv, Whole, LoaderRuns
<1>7. AloneInv'
  BY <1>1 DEF UpdateInv, AloneInv, LoaderRuns
<1>8. QED
  BY <1>4, <1>5, <1>6, <1>7 DEF UpdateInv

LEMMA UploadInstallInv ==
    ASSUME UpdateInv, UploadInstall
    PROVE  UpdateInv'
<1>1. UNCHANGED <<flash, mgr, stm, loader, spent>>
  BY DEF UploadInstall, HttpIdle
<1>2. esp' \in EspSet
  <2>1. esp \in EspSet
    BY DEF UpdateInv, UpdateTypes
  <2>2. esp' = [[[esp EXCEPT !.header = http.file.bundle] EXCEPT !.phase = 3] EXCEPT !.entry = FALSE]
    BY DEF UploadInstall, HttpIdle
  <2>3. /\ http.file.bundle \in Content /\ http.file.control \in Content
        /\ http.file.esp \in Content
    BY FileFields DEF UpdateInv, UpdateTypes, HttpSet
  <2>4. QED
    BY <2>1, <2>2, Contents, Phases, <2>3 DEF EspSet
<1>3. job' \in [Tasks -> TaskSet]
  BY SMT DEF UpdateInv, UpdateTypes, TaskSet, JobPlaces, Tasks, UploadInstall
<1>4. http' \in HttpSet
  BY SMT DEF HttpSet, HttpPlaces, UploadInstall, HttpIdle
<1>5. UpdateTypes'
  BY <1>1, <1>2, <1>3, <1>4 DEF UpdateInv, UpdateTypes
<1>6. FileInv'
  BY <1>1, <1>5, FileFields, SMT DEF UpdateInv, FileInv, UploadInstall, HttpIdle
<1>7. BootInv'
  BY <1>1 DEF UpdateInv, BootInv, Whole, LoaderRuns
<1>8. AloneInv'
  BY <1>1, <1>5, SMT DEF UpdateInv, AloneInv, LoaderRuns, UploadInstall
<1>9. QED
  BY <1>5, <1>6, <1>7, <1>8 DEF UpdateInv

LEMMA UploadFailedInv ==
    ASSUME UpdateInv, UploadFailed
    PROVE  UpdateInv'
<1>1. UNCHANGED <<flash, mgr, stm, loader, spent>>
  BY DEF UploadFailed, HttpIdle, NoTask, Uploading
<1>2. esp' \in EspSet
  <2>1. esp \in EspSet
    BY DEF UpdateInv, UpdateTypes
  <2>2. esp' = [[[esp EXCEPT !.phase = 5] EXCEPT !.busy = FALSE] EXCEPT !.entry = FALSE]
    BY DEF UploadFailed, HttpIdle, NoTask, Uploading
  <2>3. QED
    BY <2>1, <2>2, Contents, Phases DEF EspSet
<1>3. job' \in [Tasks -> TaskSet]
  BY SmallNumbers, SMT
    DEF UpdateInv, UpdateTypes, TaskSet, JobPlaces, Tasks, UploadFailed, NoTask
<1>4. http' \in HttpSet
  BY SMT DEF HttpSet, HttpPlaces, UploadFailed, HttpIdle
<1>5. UpdateTypes'
  BY <1>1, <1>2, <1>3, <1>4 DEF UpdateInv, UpdateTypes
<1>6. FileInv'
  BY <1>1, <1>5, SMT DEF UpdateInv, FileInv, Waiting, UploadFailed, HttpIdle, NoTask
<1>7. BootInv'
  BY <1>1 DEF UpdateInv, BootInv, Whole, LoaderRuns
<1>8. AloneInv'
  BY <1>1, <1>5, SMT DEF UpdateInv, AloneInv, LoaderRuns, UploadFailed
<1>9. QED
  BY <1>5, <1>6, <1>7, <1>8 DEF UpdateInv

LEMMA RecoveryEnterInv ==
    ASSUME UpdateInv, RecoveryEnter
    PROVE  UpdateInv'
<1>1. UNCHANGED <<flash, job, mgr, stm, loader>>
  BY DEF RecoveryEnter, HttpIdle
<1>2. http' \in HttpSet
  <2>1. PICK f \in Files : http' = [HttpIdle EXCEPT !.at = "r_erase", !.file = f]
    BY DEF RecoveryEnter
  <2>2. http' = [at |-> "r_erase", file |-> f, dry |-> FALSE, via |-> "wifi"]
    BY <2>1 DEF HttpIdle
  <2>3. QED
    BY <2>2 DEF HttpSet, HttpPlaces
<1>3. esp' \in EspSet
  <2>1. esp \in EspSet
    BY DEF UpdateInv, UpdateTypes
  <2>2. esp' = [esp EXCEPT !.recovery = TRUE, !.entry = TRUE]
    BY DEF RecoveryEnter, HttpIdle
  <2>3. QED
    BY <2>1, <2>2, Contents DEF EspSet
<1>4. spent' \in SpentSet
  BY SmallNumbers, SMT DEF UpdateInv, UpdateTypes, SpentSet, RecoveryEnter
<1>5. UpdateTypes'
  BY <1>1, <1>2, <1>3, <1>4 DEF UpdateInv, UpdateTypes
<1>6. FileInv'
  BY <1>1, <1>5, SMT DEF UpdateInv, FileInv, RecoveryEnter
<1>7. BootInv'
  BY <1>1 DEF UpdateInv, BootInv, Whole, LoaderRuns
<1>8. AloneInv'
  BY <1>1, <1>5, SMT DEF UpdateInv, AloneInv, LoaderRuns, RecoveryEnter
<1>9. QED
  BY <1>5, <1>6, <1>7, <1>8 DEF UpdateInv

LEMMA RecoveryWriteInv ==
    ASSUME UpdateInv, RecoveryWrite
    PROVE  UpdateInv'
<1>1. UNCHANGED <<esp, job, mgr, stm, loader, spent>>
  BY DEF RecoveryWrite, HttpGoes, HttpOnly
<1>2. flash' \in FlashSet
  <2>1. flash \in FlashSet
    BY DEF UpdateInv, UpdateTypes
  <2>2. \/ flash' = [flash EXCEPT !.data = Blank, !.trigger = Blank]
        \/ flash' = [flash EXCEPT !.data = http.file.esp]
        \/ flash' = [[[flash EXCEPT !.header = Blank] EXCEPT !.packed = Blank] EXCEPT !.done = "ones"]
        \/ flash' = [flash EXCEPT !.trigger = http.file.bundle]
    BY DEF RecoveryWrite, HttpGoes, HttpOnly
  <2>3. /\ http.file.bundle \in Content /\ http.file.control \in Content
        /\ http.file.esp \in Content
    BY FileFields DEF UpdateInv, UpdateTypes, HttpSet
  <2>4. QED
    BY <2>1, <2>2, Contents, <2>3 DEF FlashSet
<1>3. http' \in HttpSet
  BY SMT DEF UpdateInv, UpdateTypes, HttpSet, HttpPlaces, RecoveryWrite, HttpGoes
<1>4. UpdateTypes'
  BY <1>1, <1>2, <1>3 DEF UpdateInv, UpdateTypes
<1>5. FileInv'
  <2>1. job' = job /\ esp' = esp
    BY <1>1
  <2>2. http.at # "idle" /\ http'.file = http.file
    BY SMT DEF UpdateInv, UpdateTypes, HttpSet, RecoveryWrite, HttpGoes
  <2>3. flash'.header = flash.header \/ flash'.header = Blank
    <3>1. flash \in FlashSet
      BY DEF UpdateInv, UpdateTypes
    <3>2. \/ flash' = [flash EXCEPT !.data = Blank, !.trigger = Blank]
          \/ flash' = [flash EXCEPT !.data = http.file.esp]
          \/ flash' = [[[flash EXCEPT !.header = Blank] EXCEPT !.packed = Blank]
                         EXCEPT !.done = "ones"]
          \/ flash' = [flash EXCEPT !.trigger = http.file.bundle]
      BY DEF RecoveryWrite
    <3>3. CASE flash' = [[[flash EXCEPT !.header = Blank] EXCEPT !.packed = Blank]
                           EXCEPT !.done = "ones"]
      BY <3>1, <3>3, FlashErased
    <3>4. CASE ~(flash' = [[[flash EXCEPT !.header = Blank] EXCEPT !.packed = Blank]
                             EXCEPT !.done = "ones"])
      BY <3>1, <3>2, <3>4 DEF FlashSet
    <3>5. QED
      BY <3>3, <3>4
  <2>4. QED
    BY <2>1, <2>2, <2>3 DEF UpdateInv, FileInv
<1>6. BootInv'
  BY <1>1 DEF UpdateInv, BootInv, Whole, LoaderRuns
<1>7. AloneInv'
  BY <1>1 DEF UpdateInv, AloneInv, LoaderRuns
<1>8. QED
  BY <1>4, <1>5, <1>6, <1>7 DEF UpdateInv

LEMMA RecoveryFailedInv ==
    ASSUME UpdateInv, RecoveryFailed
    PROVE  UpdateInv'
<1>1. UNCHANGED <<flash, job, mgr, stm, loader, spent>>
  BY DEF RecoveryFailed, HttpIdle
<1>2. esp' \in EspSet
  <2>1. esp \in EspSet
    BY DEF UpdateInv, UpdateTypes
  <2>2. esp' = [esp EXCEPT !.recovery = FALSE, !.entry = FALSE]
    BY DEF RecoveryFailed, HttpIdle
  <2>3. QED
    BY <2>1, <2>2, Contents DEF EspSet
<1>3. http' \in HttpSet
  BY SMT DEF HttpSet, HttpPlaces, RecoveryFailed, HttpIdle
<1>4. UpdateTypes'
  BY <1>1, <1>2, <1>3 DEF UpdateInv, UpdateTypes
<1>5. FileInv'
  BY <1>1, <1>4, SMT DEF UpdateInv, FileInv, RecoveryFailed, HttpIdle
<1>6. BootInv'
  BY <1>1 DEF UpdateInv, BootInv, Whole, LoaderRuns
<1>7. AloneInv'
  BY <1>1, <1>4, SMT DEF UpdateInv, AloneInv, LoaderRuns, RecoveryFailed
<1>8. QED
  BY <1>4, <1>5, <1>6, <1>7 DEF UpdateInv

LEMMA RecoveryRestartInv ==
    ASSUME UpdateInv, RecoveryRestart
    PROVE  UpdateInv'
<1>1. EspGone("boot") /\ UNCHANGED <<flash, stm, loader, spent>>
  BY DEF RecoveryRestart
<1>2. QED
  BY <1>1, EspGoneInv DEF UpdateInv, UpdateTypes, AloneInv

LEMMA JobUsbInv ==
    ASSUME UpdateInv, NEW t \in Tasks, JobUsb(t)
    PROVE  UpdateInv'
<1>1. UNCHANGED <<flash, http, mgr, stm, loader, spent>>
  BY DEF JobUsb, JobFails, JobGoes
<1>2. EspKept(esp, esp')
  <2>1. esp \in EspSet
    BY DEF UpdateInv, UpdateTypes
  <2>2. \/ esp' = [[esp EXCEPT !.ready = FALSE] EXCEPT !.phase = 3]
        \/ esp' = [esp EXCEPT !.phase = 5]
    BY DEF JobUsb, JobFails, JobGoes
  <2>3. CASE esp' = [esp EXCEPT !.phase = 5]
    BY <2>1, <2>3, Phases, EspUpdates
  <2>4. CASE esp' = [[esp EXCEPT !.ready = FALSE] EXCEPT !.phase = 3]
    <3> DEFINE x == [esp EXCEPT !.ready = FALSE]
    <3>1. EspKept(esp, x)
      BY <2>1, EspUpdates
    <3> HIDE DEF x
    <3>2. EspKept(x, [x EXCEPT !.phase = 3])
      BY <3>1, Phases, EspUpdates DEF EspKept
    <3>3. QED
      BY <2>4, <3>1, <3>2 DEF EspKept, x
  <2>5. QED
    BY <2>2, <2>3, <2>4
<1>3. job' \in [Tasks -> TaskSet]
  BY SMT DEF UpdateInv, UpdateTypes, TaskSet, JobPlaces, JobUsb, JobFails, JobGoes
<1>4. UpdateTypes'
  BY <1>1, <1>2, <1>3 DEF UpdateInv, UpdateTypes, EspKept
<1>5. FileInv'
  <2>1. job \in [Tasks -> TaskSet]
    BY DEF UpdateInv, UpdateTypes
  <2>2. /\ job[t].at # "none" /\ \A u \in Tasks : u # t => job'[u] = job[u]
        /\ job'[t].at \in Waiting => job[t].at \in Waiting
    BY <2>1, SMT DEF TaskSet, Waiting, JobUsb, JobFails, JobGoes
  <2>3. QED
    BY <1>1, <1>2, <2>2, FileKept DEF UpdateInv, EspKept
<1>6. BootInv'
  BY <1>1 DEF UpdateInv, BootInv, Whole, LoaderRuns
<1>7. AloneInv'
  BY <1>1, <1>2, AloneKept DEF UpdateInv, LoaderRuns, EspKept
<1>8. QED
  BY <1>4, <1>5, <1>6, <1>7 DEF UpdateInv

LEMMA JobPrepareInv ==
    ASSUME UpdateInv, NEW t \in Tasks, JobPrepare(t)
    PROVE  UpdateInv'
<1>1. UNCHANGED <<flash, http, mgr, loader, spent>>
  BY DEF JobPrepare
<1>2. /\ esp \in EspSet /\ stm \in StmSet /\ job \in [Tasks -> TaskSet]
      /\ esp.header \in Content /\ job[t].dry \in BOOLEAN
  BY DEF UpdateInv, UpdateTypes, EspSet, TaskSet
<1>3. job' \in [Tasks -> TaskSet]
  BY <1>2, SmallNumbers, SMT DEF TaskSet, JobPrepare
<1>4. /\ stm' \in StmSet /\ stm'.runs = stm.runs /\ stm'.img = stm.img
      /\ stm'.marker = stm.marker /\ stm'.pending = stm.pending
  <2>1. PICK p \in [target : Content, dry : BOOLEAN] :
          stm' = stm \/ stm' = [stm EXCEPT !.prepared = p]
    <3>1. \/ stm' = stm \/ stm' = [stm EXCEPT !.prepared = NoPrepare]
          \/ stm' = [stm EXCEPT !.prepared = [target |-> esp.header, dry |-> job[t].dry]]
      BY DEF JobPrepare
    <3>2. QED
      BY <1>2, <3>1, NoPrepareType
  <2>2. QED
    BY <1>2, <2>1, StmPrepares
<1>5. EspKept(esp, esp')
  <2>1. esp' = [esp EXCEPT !.ready = TRUE] \/ esp' = esp
    BY DEF JobPrepare
  <2>2. QED
    BY <1>2, <2>1, EspUpdates DEF EspKept
<1>6. UpdateTypes'
  BY <1>1, <1>3, <1>4, <1>5 DEF UpdateInv, UpdateTypes, EspKept
<1>7. FileInv'
  <2>1. /\ job[t].at # "none" /\ \A u \in Tasks : u # t => job'[u] = job[u]
        /\ job'[t].at = job[t].at
    BY <1>2, SMT DEF TaskSet, JobPrepare
  <2>2. QED
    BY <1>1, <1>5, <2>1, FileKept DEF UpdateInv, EspKept
<1>8. BootInv'
  BY <1>1, <1>4, BootKept DEF UpdateInv
<1>9. AloneInv'
  BY <1>1, <1>4, <1>5, AloneKept DEF UpdateInv, LoaderRuns, EspKept
<1>10. QED
  BY <1>6, <1>7, <1>8, <1>9 DEF UpdateInv

LEMMA JobUnpreparedInv ==
    ASSUME UpdateInv, NEW t \in Tasks, JobUnprepared(t)
    PROVE  UpdateInv'
<1>1. UNCHANGED <<flash, http, mgr, stm, loader, spent>>
  BY DEF JobUnprepared, JobFails, JobGoes
<1>2. esp' \in EspSet
  BY SMT DEF UpdateInv, UpdateTypes, EspSet, JobUnprepared, JobFails
<1>3. job' \in [Tasks -> TaskSet]
  BY SMT DEF UpdateInv, UpdateTypes, TaskSet, JobPlaces, JobUnprepared, JobFails, JobGoes
<1>4. UpdateTypes'
  BY <1>1, <1>2, <1>3 DEF UpdateInv, UpdateTypes
<1>5. FileInv'
  BY <1>1, <1>4, SMT DEF UpdateInv, FileInv, Waiting, JobUnprepared, JobFails
<1>6. BootInv'
  BY <1>1 DEF UpdateInv, BootInv, Whole, LoaderRuns
<1>7. AloneInv'
  BY <1>1, <1>4, SMT DEF UpdateInv, AloneInv, LoaderRuns, JobUnprepared, JobFails
<1>8. QED
  BY <1>4, <1>5, <1>6, <1>7 DEF UpdateInv

LEMMA JobExecInv ==
    ASSUME UpdateInv, NEW t \in Tasks, JobExec(t)
    PROVE  UpdateInv'
<1>1. UNCHANGED <<flash, http, mgr, spent>>
  BY DEF JobExec
<1>2. esp \in EspSet /\ stm \in StmSet /\ job \in [Tasks -> TaskSet] /\ loader \in LoaderSet
  BY DEF UpdateInv, UpdateTypes
<1>3. EspKept(esp, esp')
  <2>1. esp' = [esp EXCEPT !.ready = FALSE]
    BY DEF JobExec
  <2>2. QED
    BY <1>2, <2>1, EspUpdates
<1>4. job' \in [Tasks -> TaskSet]
  BY <1>2, SMT DEF TaskSet, JobPlaces, JobExec, JobGoes
<1>5. FileInv'
  <2>1. /\ job[t].at # "none" /\ \A u \in Tasks : u # t => job'[u] = job[u]
        /\ job'[t].at \notin Waiting
    BY <1>2, SMT DEF TaskSet, Waiting, JobExec, JobGoes
  <2>2. QED
    BY <1>1, <1>3, <2>1, FileKept DEF UpdateInv, EspKept
<1>6. CASE loader' = loader /\ (stm' = stm \/ stm' = [stm EXCEPT !.prepared = NoPrepare])
  <2>1. /\ stm' \in StmSet /\ stm'.runs = stm.runs /\ stm'.img = stm.img
        /\ stm'.marker = stm.marker /\ stm'.pending = stm.pending
    BY <1>2, <1>6, NoPrepareType, StmPrepares
  <2>2. UpdateTypes'
    BY <1>1, <1>3, <1>4, <1>6, <2>1 DEF UpdateInv, UpdateTypes, EspKept
  <2>3. BootInv'
    BY <1>6, <2>1, BootKept DEF UpdateInv
  <2>4. AloneInv'
    BY <1>1, <1>3, <2>1, AloneKept DEF UpdateInv, LoaderRuns, EspKept
  <2>5. QED
    BY <1>5, <2>2, <2>3, <2>4 DEF UpdateInv
<1>7. CASE /\ FramesRead /\ StmFree
           /\ stm' = [[stm EXCEPT !.runs = "check"] EXCEPT !.prepared = NoPrepare]
           /\ loader' = [target |-> esp.header, dry |-> job[t].dry, page |-> 1,
                         got |-> esp.header]
  <2>1. /\ stm' \in StmSet /\ stm'.runs = "check" /\ stm'.img = stm.img
        /\ stm'.marker = stm.marker /\ stm'.pending = stm.pending
    BY <1>2, <1>7, StmLaunch
  <2>2. esp.header \in Images /\ job[t].dry \in BOOLEAN
    BY <1>2 DEF UpdateInv, FileInv, JobExec, Waiting, TaskSet
  <2>3. loader' \in LoaderSet /\ loader'.target \in Images
    BY <1>7, <2>2, Contents, SmallNumbers DEF LoaderSet
  <2>4. stm.marker # "downloading" /\ stm.pending = "no"
    BY <1>7 DEF UpdateInv, BootInv, FramesRead, StmFree
  <2>5. UpdateTypes'
    BY <1>1, <1>3, <1>4, <2>1, <2>3 DEF UpdateInv, UpdateTypes, EspKept
  <2>6. BootInv'
    BY <2>1, <2>3, <2>4 DEF UpdateInv, BootInv, Whole
  <2>7. AloneInv'
    BY <1>1, <1>3, <2>1, <2>4 DEF UpdateInv, AloneInv, EspKept
  <2>8. QED
    BY <1>5, <2>5, <2>6, <2>7 DEF UpdateInv
<1>8. QED
  BY <1>6, <1>7 DEF JobExec

LEMMA PrepareExpiresInv ==
    ASSUME UpdateInv, PrepareExpires
    PROVE  UpdateInv'
<1>1. UNCHANGED <<flash, esp, http, job, mgr, loader, spent>>
  BY DEF PrepareExpires
<1>2. stm' \in StmSet
  <2>1. stm \in StmSet
    BY DEF UpdateInv, UpdateTypes
  <2>2. stm' = [stm EXCEPT !.prepared = NoPrepare]
    BY DEF PrepareExpires
  <2>3. QED
    BY <2>1, <2>2, Contents DEF StmSet, RunSet, NoPrepare
<1>3. UpdateTypes'
  BY <1>1, <1>2 DEF UpdateInv, UpdateTypes
<1>4. FileInv'
  BY <1>1 DEF UpdateInv, FileInv, Waiting
<1>5. BootInv'
  BY <1>1, <1>3, SMT DEF UpdateInv, BootInv, Whole, LoaderRuns, PrepareExpires
<1>6. AloneInv'
  BY <1>1, <1>3, SMT DEF UpdateInv, AloneInv, LoaderRuns, PrepareExpires
<1>7. QED
  BY <1>3, <1>4, <1>5, <1>6 DEF UpdateInv

(* A job goes on to a place where it does not wait for the STM32.             *)
LEMMA JobGoesInv ==
    ASSUME UpdateInv, UNCHANGED <<http, mgr, stm, loader>>, spent' \in SpentSet,
           flash' \in FlashSet, flash'.header = flash.header, EspKept(esp, esp'),
           NEW t \in Tasks, job[t].at # "none",
           NEW a \in JobPlaces \ Waiting, JobGoes(t, a)
    PROVE  UpdateInv'
<1>1. /\ job' \in [Tasks -> TaskSet] /\ job'[t].at \notin Waiting
      /\ \A u \in Tasks : u # t => job'[u] = job[u]
  <2>1. job \in [Tasks -> TaskSet] /\ job' = [job EXCEPT ![t].at = a]
    BY DEF UpdateInv, UpdateTypes, JobGoes
  <2>2. QED
    BY <2>1, SMT DEF TaskSet
<1>2. UpdateTypes'
  BY <1>1 DEF UpdateInv, UpdateTypes, EspKept
<1>3. FileInv'
  BY <1>1, FileKept DEF UpdateInv, EspKept
<1>4. BootInv' /\ AloneInv'
  BY BootKept, AloneKept DEF UpdateInv, EspKept, LoaderRuns
<1>5. QED
  BY <1>2, <1>3, <1>4 DEF UpdateInv

\* Only the phase changes, or nothing does.
EspPhase == esp' = esp \/ \E p \in 0 .. 6 : esp' = [esp EXCEPT !.phase = p]

LEMMA EspPhaseKept ==
    ASSUME UpdateInv, EspPhase
    PROVE  EspKept(esp, esp')
<1>1. esp \in EspSet
  BY DEF UpdateInv, UpdateTypes
<1>2. EspKept(esp, esp)
  BY <1>1 DEF EspKept
<1>3. QED
  BY <1>1, <1>2, EspUpdates DEF EspPhase

\* The done mark or the header of the bootloader is written, or nothing is.
LEMMA FlashMarked ==
    ASSUME UpdateInv,
           \/ flash' = flash
           \/ \E d \in {"ones", "control", "zero"} : flash' = [flash EXCEPT !.done = d]
           \/ flash' = [flash EXCEPT !.trigger = flash.packed]
    PROVE  flash' \in FlashSet /\ flash'.header = flash.header
<1>1. flash \in FlashSet /\ flash.packed \in Content
  BY DEF UpdateInv, UpdateTypes, FlashSet
<1>2. QED
  BY <1>1 DEF FlashSet

LEMMA JobInstalledInv ==
    ASSUME UpdateInv, NEW t \in Tasks, JobInstalled(t)
    PROVE  UpdateInv'
<1>1. /\ UNCHANGED <<http, mgr, stm, loader>> /\ job[t].at # "none"
      /\ flash' = flash \/ flash' = [flash EXCEPT !.done = "control"]
  BY DEF JobInstalled
<1>2. EspPhase
  BY Phases DEF JobInstalled, JobFails, EspPhase
<1>3. PICK a \in {"finish", "end", "release"} : JobGoes(t, a)
  BY DEF JobInstalled, JobFails
<1>4. spent' \in SpentSet
  BY EventSpent DEF JobInstalled, UpdateInv, UpdateTypes
<1>5. QED
  BY <1>1, <1>2, <1>3, <1>4, FlashMarked, EspPhaseKept, JobGoesInv DEF JobPlaces, Waiting

LEMMA JobServedInv ==
    ASSUME UpdateInv, NEW t \in Tasks, JobServed(t)
    PROVE  UpdateInv'
<1>1. UNCHANGED <<flash, http, mgr, stm, loader>> /\ job[t].at # "none"
  BY DEF JobServed
<1>2. EspPhase
  BY Phases DEF JobServed, JobFails, EspPhase
<1>3. PICK a \in {"end", "release"} : JobGoes(t, a)
  BY DEF JobServed, JobFails
<1>4. spent' \in SpentSet
  BY EventSpent DEF JobServed, UpdateInv, UpdateTypes
<1>5. QED
  BY <1>1, <1>2, <1>3, <1>4, FlashMarked, EspPhaseKept, JobGoesInv DEF JobPlaces, Waiting

LEMMA JobFinishInv ==
    ASSUME UpdateInv, NEW t \in Tasks, JobFinish(t)
    PROVE  UpdateInv'
<1>1. /\ UNCHANGED <<http, mgr, stm, loader>> /\ job[t].at # "none"
      /\ flash' = flash \/ flash' = [flash EXCEPT !.done = "zero"]
  BY DEF JobFinish
<1>2. EspPhase
  BY Phases DEF JobFinish, JobFails, EspPhase
<1>3. PICK a \in {"trigger", "end", "release"} : JobGoes(t, a)
  BY DEF JobFinish, JobFails
<1>4. spent' \in SpentSet
  BY EventSpent DEF JobFinish, UpdateInv, UpdateTypes
<1>5. QED
  BY <1>1, <1>2, <1>3, <1>4, FlashMarked, EspPhaseKept, JobGoesInv DEF JobPlaces, Waiting

LEMMA JobTriggerInv ==
    ASSUME UpdateInv, NEW t \in Tasks, JobTrigger(t)
    PROVE  UpdateInv'
<1>1. /\ UNCHANGED <<http, mgr, stm, loader>> /\ job[t].at # "none"
      /\ flash' = flash \/ flash' = [flash EXCEPT !.trigger = flash.packed]
  BY DEF JobTrigger
<1>2. EspPhase
  BY Phases DEF JobTrigger, JobFails, EspPhase
<1>3. PICK a \in {"restart", "end", "release"} : JobGoes(t, a)
  BY DEF JobTrigger, JobFails
<1>4. spent' \in SpentSet
  BY EventSpent DEF JobTrigger, UpdateInv, UpdateTypes
<1>5. QED
  BY <1>1, <1>2, <1>3, <1>4, FlashMarked, EspPhaseKept, JobGoesInv DEF JobPlaces, Waiting

LEMMA JobRestartInv ==
    ASSUME UpdateInv, NEW t \in Tasks, JobRestart(t)
    PROVE  UpdateInv'
<1>1. EspGone("boot") /\ UNCHANGED <<flash, stm, loader, spent>>
  BY DEF JobRestart
<1>2. QED
  BY <1>1, EspGoneInv DEF UpdateInv, UpdateTypes, AloneInv

LEMMA JobEndInv ==
    ASSUME UpdateInv, NEW t \in Tasks, JobEnd(t)
    PROVE  UpdateInv'
<1>1. UNCHANGED <<flash, http, mgr, stm, loader, spent>>
  BY DEF JobEnd, NoTask
<1>2. job' \in [Tasks -> TaskSet]
  BY SmallNumbers, SMT DEF UpdateInv, UpdateTypes, TaskSet, JobPlaces, JobEnd, NoTask
<1>3. esp' \in EspSet
  <2>1. esp \in EspSet
    BY DEF UpdateInv, UpdateTypes
  <2>2. esp' = [esp EXCEPT !.busy = FALSE]
    BY DEF JobEnd, NoTask
  <2>3. QED
    BY <2>1, <2>2, Contents DEF EspSet
<1>4. UpdateTypes'
  BY <1>1, <1>2, <1>3 DEF UpdateInv, UpdateTypes
<1>5. FileInv'
  BY <1>1, <1>4, SMT DEF UpdateInv, FileInv, Waiting, JobEnd, NoTask
<1>6. BootInv'
  BY <1>1 DEF UpdateInv, BootInv, Whole, LoaderRuns
<1>7. AloneInv'
  BY <1>1, <1>4, SMT DEF UpdateInv, AloneInv, LoaderRuns, JobEnd
<1>8. QED
  BY <1>4, <1>5, <1>6, <1>7 DEF UpdateInv

LEMMA ResumeInstallInv ==
    ASSUME UpdateInv, ResumeInstall
    PROVE  UpdateInv'
<1>1. UNCHANGED <<flash, http, mgr, stm, loader>> /\ job["resume"].at = "wait"
  BY DEF ResumeInstall
<1>2. EspKept(esp, esp')
  <2>1. esp \in EspSet
    BY DEF UpdateInv, UpdateTypes
  <2>2. esp' = [[esp EXCEPT !.busy = TRUE] EXCEPT !.phase = 3]
    BY DEF ResumeInstall
  <2> DEFINE x == [esp EXCEPT !.busy = TRUE]
  <2>3. EspKept(esp, x)
    BY <2>1, EspUpdates
  <2>4. EspKept(x, esp')
    <3> HIDE DEF x
    <3>1. x \in EspSet
      BY <2>3 DEF EspKept
    <3>2. esp' = [x EXCEPT !.phase = 3]
      BY <2>2 DEF x
    <3>3. QED
      BY <3>1, <3>2, EspUpdates, Phases
  <2>5. QED
    <3> HIDE DEF x
    <3>1. QED
      BY <2>3, <2>4 DEF EspKept
<1>3. /\ job' \in [Tasks -> TaskSet] /\ job["resume"].at \in Waiting
      /\ \A u \in Tasks : u # "resume" => job'[u] = job[u]
  <2>1. job \in [Tasks -> TaskSet] /\ job' = [job EXCEPT !["resume"].at = "usb"]
    BY DEF UpdateInv, UpdateTypes, ResumeInstall, JobGoes
  <2>2. QED
    BY <1>1, <2>1, SMT DEF TaskSet, JobPlaces, Tasks, Waiting
<1>4. spent' \in SpentSet
  <2>1. spent \in SpentSet
    BY DEF UpdateInv, UpdateTypes
  <2>2. CASE spent.events < MaxEvents
             /\ spent' = [[spent EXCEPT !.events = @ + 1] EXCEPT !.raced = TRUE]
    <3>1. [spent EXCEPT !.events = @ + 1] \in SpentSet
      BY <2>1, <2>2, SmallNumbers, SMT DEF SpentSet
    <3>2. QED
      BY <2>2, <3>1 DEF SpentSet
  <2>3. QED
    BY <2>1, <2>2 DEF ResumeInstall
<1>5. UpdateTypes'
  BY <1>1, <1>2, <1>3, <1>4 DEF UpdateInv, UpdateTypes, EspKept
<1>6. FileInv'
  BY <1>1, <1>2, <1>3, FileKept DEF UpdateInv, EspKept, Tasks
<1>7. BootInv' /\ AloneInv'
  BY <1>1, <1>2, BootKept, AloneKept DEF UpdateInv, EspKept, LoaderRuns
<1>8. QED
  BY <1>5, <1>6, <1>7 DEF UpdateInv

LEMMA ResumeGivesUpInv ==
    ASSUME UpdateInv, ResumeGivesUp
    PROVE  UpdateInv'
<1>1. UNCHANGED <<flash, http, mgr, stm, loader, spent>>
  BY DEF ResumeGivesUp, JobGoes
<1>2. esp' \in EspSet
  BY SMT DEF UpdateInv, UpdateTypes, EspSet, ResumeGivesUp
<1>3. job' \in [Tasks -> TaskSet]
  BY SMT DEF UpdateInv, UpdateTypes, TaskSet, JobPlaces, Tasks, ResumeGivesUp, JobGoes
<1>4. UpdateTypes'
  BY <1>1, <1>2, <1>3 DEF UpdateInv, UpdateTypes
<1>5. FileInv'
  BY <1>1, <1>4, SMT DEF UpdateInv, FileInv, Waiting, ResumeGivesUp, JobGoes
<1>6. BootInv'
  BY <1>1 DEF UpdateInv, BootInv, Whole, LoaderRuns
<1>7. AloneInv'
  BY <1>1, <1>4, SMT DEF UpdateInv, AloneInv, LoaderRuns, ResumeGivesUp
<1>8. QED
  BY <1>4, <1>5, <1>6, <1>7 DEF UpdateInv

LEMMA LoaderCheckInv ==
    ASSUME UpdateInv, LoaderCheck
    PROVE  UpdateInv'
<1>1. UNCHANGED <<flash, esp, http, job, mgr, spent>>
  BY DEF LoaderCheck, LoaderOnly
<1>2. stm \in StmSet /\ loader \in LoaderSet /\ stm.runs = "check"
  BY DEF UpdateInv, UpdateTypes, LoaderCheck
<1>3. /\ loader' \in LoaderSet /\ loader'.target = loader.target
  <2>1. \A c \in Content : Sum(c, flash.stage) \in Content
    BY Contents DEF Sum
  <2>2. PICK p \in 0 .. Pages, g \in Content :
          loader' = [[loader EXCEPT !.page = p] EXCEPT !.got = g]
    <3>1. loader.page < Pages => loader.page + 1 \in 0 .. Pages
      BY <1>2, SmallNumbers, SMT DEF LoaderSet
    <3>2. loader.got \in Content
      BY <1>2 DEF LoaderSet
    <3>3. QED
      BY <2>1, <3>1, <3>2, SmallNumbers DEF LoaderCheck
  <2>3. QED
    <3> DEFINE x == [loader EXCEPT !.page = p]
    <3>1. x \in LoaderSet /\ x.target = loader.target
      BY <1>2, SMT DEF LoaderSet
    <3> HIDE DEF x
    <3>2. [x EXCEPT !.got = g] \in LoaderSet /\ [x EXCEPT !.got = g].target = x.target
      BY <3>1, SMT DEF LoaderSet
    <3>3. QED
      BY <2>2, <3>1, <3>2 DEF x
<1>4. \/ stm' = stm
      \/ \E r \in {"failed", "verified", "linger"} : stm' = [stm EXCEPT !.runs = r]
      \/ stm' = [stm EXCEPT !.runs = "mark"]
  BY DEF LoaderCheck, Runs
<1>5. /\ stm' \in StmSet /\ stm'.img = stm.img /\ stm'.marker = stm.marker
      /\ stm'.pending = stm.pending
      /\ stm'.runs \in {"check", "failed", "verified", "linger", "mark"}
  BY <1>2, <1>4, StmRuns DEF RunSet
<1>6. UpdateTypes'
  BY <1>1, <1>3, <1>5 DEF UpdateInv, UpdateTypes
<1>7. FileInv'
  BY <1>1 DEF UpdateInv, FileInv
<1>8. BootInv'
  BY <1>2, <1>3, <1>5 DEF UpdateInv, BootInv, Whole, LoaderRuns
<1>9. AloneInv'
  BY <1>1, <1>2, <1>5 DEF UpdateInv, AloneInv, LoaderRuns
<1>10. QED
  BY <1>6, <1>7, <1>8, <1>9 DEF UpdateInv

LEMMA LoaderUnservedInv ==
    ASSUME UpdateInv, LoaderUnserved
    PROVE  UpdateInv'
<1>1. UNCHANGED <<flash, esp, http, job, mgr, loader, spent>>
  BY DEF LoaderUnserved, LoaderOnly, Runs
<1>2. stm' \in StmSet
  BY Contents, SMT DEF UpdateInv, UpdateTypes, StmSet, RunSet, LoaderUnserved, Runs
<1>3. UpdateTypes'
  BY <1>1, <1>2 DEF UpdateInv, UpdateTypes
<1>4. FileInv'
  BY <1>1 DEF UpdateInv, FileInv, Waiting
<1>5. BootInv'
  BY <1>1, <1>3, SMT DEF UpdateInv, BootInv, Whole, LoaderRuns, LoaderUnserved, Runs
<1>6. AloneInv'
  BY <1>1, <1>3, SMT DEF UpdateInv, AloneInv, LoaderRuns, LoaderUnserved, Runs
<1>7. QED
  BY <1>3, <1>4, <1>5, <1>6 DEF UpdateInv

LEMMA LoaderMarkInv ==
    ASSUME UpdateInv, LoaderMark
    PROVE  UpdateInv'
<1>1. UNCHANGED <<flash, esp, http, job, mgr, loader, spent>>
  BY DEF LoaderMark, LoaderOnly
<1>2. stm \in StmSet /\ loader \in LoaderSet /\ stm.img \in [0 .. Pages -> Content]
  BY DEF UpdateInv, UpdateTypes, StmSet
<1>3. \/ stm' = [stm EXCEPT !.marker = "blank"] /\ stm.marker # "blank"
      \/ stm' = [[stm EXCEPT !.marker = "downloading"] EXCEPT !.runs = "erase"]
  BY DEF LoaderMark, BootState
<1>4. /\ stm' \in StmSet /\ stm'.img = stm.img /\ stm'.pending = stm.pending
      /\ \/ stm'.marker = "blank" /\ stm'.runs = stm.runs
         \/ stm'.marker = "downloading" /\ stm'.runs = "erase"
  <2>1. CASE stm' = [stm EXCEPT !.marker = "blank"]
    BY <1>2, <2>1, SMT DEF StmSet
  <2>2. CASE stm' = [[stm EXCEPT !.marker = "downloading"] EXCEPT !.runs = "erase"]
    BY <1>2, <2>2, StmMarks DEF RunSet
  <2>3. QED
    BY <1>3, <2>1, <2>2
<1>5. stm.runs = "mark" /\ stm.marker # "downloading"
  BY DEF LoaderMark, UpdateInv, BootInv
<1>6. UpdateTypes'
  BY <1>1, <1>4 DEF UpdateInv, UpdateTypes
<1>7. FileInv'
  BY <1>1 DEF UpdateInv, FileInv
<1>8. BootInv'
  BY <1>1, <1>4, <1>5 DEF UpdateInv, BootInv, Whole, LoaderRuns
<1>9. AloneInv'
  BY <1>1, <1>4, <1>5 DEF UpdateInv, AloneInv, LoaderRuns
<1>10. QED
  BY <1>6, <1>7, <1>8, <1>9 DEF UpdateInv

LEMMA LoaderEraseInv ==
    ASSUME UpdateInv, LoaderErase
    PROVE  UpdateInv'
<1>1. UNCHANGED <<flash, esp, http, job, mgr, loader, spent>>
  BY DEF LoaderErase, LoaderOnly
<1>2. stm \in StmSet /\ loader \in LoaderSet /\ stm.img \in [0 .. Pages -> Content]
  BY DEF UpdateInv, UpdateTypes, StmSet
<1>3. PICK i \in [0 .. Pages -> Content] : stm' = Written(i, "write")
  <2>1. stm' = Written([[stm.img EXCEPT ![0] = Blank] EXCEPT ![1] = Blank], "write")
    BY DEF LoaderErase, Written
  <2>2. [[stm.img EXCEPT ![0] = Blank] EXCEPT ![1] = Blank] \in [0 .. Pages -> Content]
    BY <1>2, Contents
  <2>3. QED
    BY <2>1, <2>2
<1>4. /\ stm' \in StmSet /\ stm'.pending = stm.pending /\ stm'.marker = stm.marker
      /\ stm'.runs = "write"
  <2>1. "write" \in RunSet
    BY DEF RunSet
  <2>2. QED
    BY <1>2, <1>3, <2>1, StmWrites
<1>5. stm.runs = "erase" /\ stm.marker = "downloading" /\ loader.target \in Images
  BY DEF LoaderErase, UpdateInv, BootInv, LoaderRuns
<1>6. UpdateTypes'
  BY <1>1, <1>4 DEF UpdateInv, UpdateTypes
<1>7. FileInv'
  BY <1>1 DEF UpdateInv, FileInv
<1>8. BootInv'
  BY <1>1, <1>4, <1>5 DEF BootInv
<1>9. AloneInv'
  BY <1>1, <1>4, <1>5 DEF UpdateInv, AloneInv, LoaderRuns
<1>10. QED
  BY <1>6, <1>7, <1>8, <1>9 DEF UpdateInv

LEMMA LoaderWriteInv ==
    ASSUME UpdateInv, LoaderWrite
    PROVE  UpdateInv'
<1>1. UNCHANGED <<flash, esp, http, job, mgr, spent>>
  BY DEF LoaderWrite, LoaderOnly
<1>2. /\ stm \in StmSet /\ loader \in LoaderSet /\ stm.img \in [0 .. Pages -> Content]
      /\ flash.stage \in Content
  BY DEF UpdateInv, UpdateTypes, StmSet, FlashSet
<1>3. /\ loader' \in LoaderSet /\ loader'.target = loader.target
  <2>1. Sum(loader.got, flash.stage) \in Content
    BY <1>2, Contents DEF Sum, LoaderSet
  <2>2. PICK p \in 0 .. Pages, g \in Content :
          loader' = [[loader EXCEPT !.page = p] EXCEPT !.got = g]
    <3>1. (IF loader.page = Pages THEN loader.page ELSE loader.page + 1) \in 0 .. Pages
      BY <1>2, SmallNumbers, SMT DEF LoaderSet
    <3>2. QED
      BY <2>1, <3>1 DEF LoaderWrite
  <2>3. QED
    <3> DEFINE x == [loader EXCEPT !.page = p]
    <3>1. x \in LoaderSet /\ x.target = loader.target
      BY <1>2, SMT DEF LoaderSet
    <3> HIDE DEF x
    <3>2. [x EXCEPT !.got = g] \in LoaderSet /\ [x EXCEPT !.got = g].target = x.target
      BY <3>1, SMT DEF LoaderSet
    <3>3. QED
      BY <2>2, <3>1, <3>2 DEF x
<1>4. PICK i \in [0 .. Pages -> Content], r \in {"write", "vectors", "failed"} :
        stm' = Written(i, r)
  <2>1. [stm.img EXCEPT ![loader.page] = flash.stage] \in [0 .. Pages -> Content]
    BY <1>2
  <2>2. \E r \in {"write", "vectors", "failed"} :
          stm' = Written([stm.img EXCEPT ![loader.page] = flash.stage], r)
    BY DEF LoaderWrite, Written
  <2>3. QED
    BY <2>1, <2>2
<1>5. /\ stm' \in StmSet /\ stm'.pending = stm.pending /\ stm'.marker = stm.marker
      /\ stm'.runs = r
  <2>1. r \in RunSet
    BY DEF RunSet
  <2>2. QED
    BY <1>2, <1>4, <2>1, StmWrites
<1>6. stm.runs = "write" /\ stm.marker = "downloading" /\ loader.target \in Images
  BY DEF LoaderWrite, UpdateInv, BootInv, LoaderRuns
<1>7. UpdateTypes'
  BY <1>1, <1>3, <1>5 DEF UpdateInv, UpdateTypes
<1>8. FileInv'
  BY <1>1 DEF UpdateInv, FileInv
<1>9. BootInv'
  BY <1>3, <1>5, <1>6 DEF BootInv
<1>10. AloneInv'
  BY <1>1, <1>5, <1>6 DEF UpdateInv, AloneInv, LoaderRuns
<1>11. QED
  BY <1>7, <1>8, <1>9, <1>10 DEF UpdateInv

LEMMA LoaderVectorsInv ==
    ASSUME UpdateInv, LoaderVectors
    PROVE  UpdateInv'
<1>1. UNCHANGED <<flash, esp, http, job, mgr, loader, spent>>
  BY DEF LoaderVectors, LoaderOnly
<1>2. stm \in StmSet /\ loader \in LoaderSet /\ stm.img \in [0 .. Pages -> Content]
  BY DEF UpdateInv, UpdateTypes, StmSet
<1>a. loader.target \in Images /\ loader.target \in Content
  BY Contents DEF UpdateInv, BootInv, LoaderRuns, LoaderVectors
<1>3. PICK r \in {"validate", "failed"} :
        /\ stm' = Written([stm.img EXCEPT ![0] = loader.target], r)
        /\ r = "validate" => \A p \in 1 .. Pages : stm.img[p] = loader.target
  BY DEF LoaderVectors, Written
<1>4. /\ stm' \in StmSet /\ stm'.pending = stm.pending /\ stm'.marker = stm.marker
      /\ stm'.img = [stm.img EXCEPT ![0] = loader.target] /\ stm'.runs = r
  <2>1. [stm.img EXCEPT ![0] = loader.target] \in [0 .. Pages -> Content]
    BY <1>2, <1>a
  <2>2. r \in RunSet
    BY DEF RunSet
  <2>3. QED
    BY <1>2, <1>3, <2>1, <2>2, StmWrites
<1>5. stm.runs = "vectors" /\ stm.marker = "downloading"
  BY DEF LoaderVectors, UpdateInv, BootInv
<1>6. UpdateTypes'
  BY <1>1, <1>4 DEF UpdateInv, UpdateTypes
<1>7. FileInv'
  BY <1>1 DEF UpdateInv, FileInv
<1>8. BootInv'
  <2>1. r = "validate" => \A p \in 0 .. Pages : stm'.img[p] = loader.target
    BY <1>2, <1>3, <1>4, SmallNumbers, SMT
  <2>2. QED
    BY <1>1, <1>a, <1>4, <1>5, <2>1 DEF BootInv, Whole, LoaderRuns
<1>9. AloneInv'
  BY <1>1, <1>4, <1>5 DEF UpdateInv, AloneInv, LoaderRuns
<1>10. QED
  BY <1>6, <1>7, <1>8, <1>9 DEF UpdateInv

LEMMA LoaderValidateInv ==
    ASSUME UpdateInv, LoaderValidate
    PROVE  UpdateInv'
<1>1. UNCHANGED <<flash, esp, http, job, mgr, loader, spent>>
  BY DEF LoaderValidate, LoaderOnly
<1>2. stm \in StmSet /\ loader \in LoaderSet /\ stm.img \in [0 .. Pages -> Content]
  BY DEF UpdateInv, UpdateTypes, StmSet
<1>3. \/ stm' = [stm EXCEPT !.marker = "blank"] /\ stm.marker # "blank"
      \/ stm' = [[stm EXCEPT !.marker = "valid"] EXCEPT !.runs = "linger"]
  BY DEF LoaderValidate, BootState
<1>4. /\ stm' \in StmSet /\ stm'.img = stm.img /\ stm'.pending = stm.pending
      /\ \/ stm'.marker = "blank" /\ stm'.runs = stm.runs
         \/ stm'.marker = "valid" /\ stm'.runs = "linger"
  <2>1. CASE stm' = [stm EXCEPT !.marker = "blank"]
    BY <1>2, <2>1, SMT DEF StmSet
  <2>2. CASE stm' = [[stm EXCEPT !.marker = "valid"] EXCEPT !.runs = "linger"]
    BY <1>2, <2>2, StmMarks DEF RunSet
  <2>3. QED
    BY <1>3, <2>1, <2>2
<1>5. /\ stm.runs = "validate" /\ Whole(loader.target) /\ loader.target \in Images
  BY DEF LoaderValidate, UpdateInv, BootInv, LoaderRuns
<1>6. UpdateTypes'
  BY <1>1, <1>4 DEF UpdateInv, UpdateTypes
<1>7. FileInv'
  BY <1>1 DEF UpdateInv, FileInv
<1>8. BootInv'
  BY <1>1, <1>4, <1>5 DEF UpdateInv, BootInv, Whole, LoaderRuns
<1>9. AloneInv'
  BY <1>1, <1>4, <1>5 DEF UpdateInv, AloneInv, LoaderRuns
<1>10. QED
  BY <1>6, <1>7, <1>8, <1>9 DEF UpdateInv

LEMMA LoaderErrorInv ==
    ASSUME UpdateInv, LoaderError
    PROVE  UpdateInv'
<1>1. UNCHANGED <<flash, esp, http, job, mgr, loader>>
  BY DEF LoaderError, Event, Runs
<1>2. stm' \in StmSet
  BY Contents, SMT DEF UpdateInv, UpdateTypes, StmSet, RunSet, LoaderError, Runs
<1>3. spent' \in SpentSet
  BY SmallNumbers, SMT DEF UpdateInv, UpdateTypes, SpentSet, LoaderError, Event
<1>4. UpdateTypes'
  BY <1>1, <1>2, <1>3 DEF UpdateInv, UpdateTypes
<1>5. FileInv'
  BY <1>1 DEF UpdateInv, FileInv, Waiting
<1>6. BootInv'
  BY <1>1, <1>4, SMT DEF UpdateInv, BootInv, Whole, LoaderRuns, LoaderError, Runs
<1>7. AloneInv'
  BY <1>1, <1>4, SMT DEF UpdateInv, AloneInv, LoaderRuns, LoaderError, Runs
<1>8. QED
  BY <1>4, <1>5, <1>6, <1>7 DEF UpdateInv

LEMMA BothResetInv ==
    ASSUME UpdateInv, BothReset, spent' \in SpentSet
    PROVE  UpdateInv'
<1>1. UNCHANGED flash
  BY DEF BothReset
<1>2. stm' \in StmSet
  <2>1. PICK r \in RunSet :
          stm' = [[[stm EXCEPT !.runs = r] EXCEPT !.pending = "no"] EXCEPT !.prepared = NoPrepare]
    BY DEF BothReset, StmBoots, RunSet
  <2>2. QED
    BY <2>1, StmParts, NoPrepareType DEF StmSet
<1>3. loader' \in LoaderSet
  BY Contents, SmallNumbers, SMT DEF LoaderSet, BothReset, NoLoader
<1>4. esp' \in EspSet
  BY Contents, SMT DEF EspSet, BothReset, EspReset
<1>5. http' \in HttpSet
  BY SMT DEF HttpSet, HttpPlaces, BothReset, HttpIdle
<1>6. job' \in [Tasks -> TaskSet]
  BY SmallNumbers, SMT DEF TaskSet, JobPlaces, BothReset, NoJob, NoTask
<1>7. mgr' \in MgrSet
  BY SMT DEF MgrSet, BothReset
<1>8. UpdateTypes'
  BY <1>1, <1>2, <1>3, <1>4, <1>5, <1>6, <1>7 DEF UpdateInv, UpdateTypes
<1>9. FileInv'
  BY <1>1, <1>8, SMT DEF UpdateInv, FileInv, Waiting, BothReset, HttpIdle, NoJob, NoTask
<1>10. BootInv'
  BY <1>1, <1>8, SMT DEF UpdateInv, BootInv, Whole, LoaderRuns, BothReset, StmBoots
<1>11. AloneInv'
  BY <1>1, <1>8, SMT DEF AloneInv, BothReset, EspReset
<1>12. QED
  BY <1>8, <1>9, <1>10, <1>11 DEF UpdateInv

LEMMA EspPowerOffInv ==
    ASSUME UpdateInv, EspPowerOff \/ StmGivesUp
    PROVE  UpdateInv'
<1>1. EspGone("off") /\ Event /\ UNCHANGED <<flash, loader>> /\ stm.runs = "app"
  BY DEF EspPowerOff, StmGivesUp, FramesRead
<1>2. /\ stm' \in StmSet /\ stm'.runs = stm.runs /\ stm'.img = stm.img
      /\ stm'.marker = stm.marker
  <2>1. PICK q \in {"no", "queued"} : stm' = [stm EXCEPT !.pending = q]
    BY DEF EspPowerOff, StmGivesUp
  <2>2. QED
    BY <2>1, StmParts DEF StmSet
<1>3. ~LoaderRuns
  BY <1>1 DEF LoaderRuns
<1>4. QED
  BY <1>1, <1>2, <1>3, EventSpent, EspGoneInv

LEMMA EspRestartInv ==
    ASSUME UpdateInv, EspRestart
    PROVE  UpdateInv'
<1>1. spent' \in SpentSet
  <2>1. spent \in SpentSet
    BY DEF UpdateInv, UpdateTypes
  <2>2. PICK b \in BOOLEAN :
          spent' = [[spent EXCEPT !.events = @ + 1] EXCEPT !.lone = b]
    <3>1. (spent.lone \/ Stranded) \in BOOLEAN
      BY <2>1 DEF SpentSet, Stranded
    <3>2. QED
      BY <3>1 DEF EspRestart
  <2>3. spent.events < MaxEvents
    BY DEF EspRestart
  <2>4. [spent EXCEPT !.events = @ + 1] \in SpentSet
    BY <2>1, <2>3, SmallNumbers, SMT DEF SpentSet
  <2>5. QED
    BY <2>2, <2>4 DEF SpentSet
<1>2. stm' = stm /\ stm \in StmSet /\ (LoaderRuns => stm'.pending = "no")
  BY DEF EspRestart, UpdateInv, UpdateTypes, AloneInv
<1>3. QED
  BY <1>1, <1>2, EspGoneInv DEF EspRestart

(* Steps of the tunnel and of the hold only count, or change nothing here.   *)
LEMMA SpentInv ==
    ASSUME UpdateInv, UNCHANGED <<flash, esp, http, job, mgr, stm, loader>>,
           spent' \in SpentSet
    PROVE  UpdateInv'
BY DEF UpdateInv, UpdateTypes, FileInv, BootInv, AloneInv, Whole, LoaderRuns

LEMMA PowerLossInv ==
    ASSUME UpdateInv, PowerLoss
    PROVE  UpdateInv'
BY EventSpent, BothResetInv DEF PowerLoss

LEMMA JobReleaseInv ==
    ASSUME UpdateInv, NEW t \in Tasks, JobRelease(t)
    PROVE  UpdateInv'
<1>1. CASE BothReset /\ UNCHANGED spent
  BY <1>1, BothResetInv DEF UpdateInv, UpdateTypes
<1>2. CASE JobGoes(t, "end") /\ UNCHANGED <<flash, esp, http, mgr, stm, loader, spent>>
  <2>1. job \in [Tasks -> TaskSet] /\ job[t].at = "release"
    BY DEF UpdateInv, UpdateTypes, JobRelease
  <2>2. /\ job' \in [Tasks -> TaskSet] /\ job'[t].at \notin Waiting
        /\ \A u \in Tasks : u # t => job'[u] = job[u]
    BY <1>2, <2>1, SMT DEF JobGoes, TaskSet, JobPlaces, Waiting
  <2>3. FileInv'
    BY <1>2, <2>1, <2>2, FileKept DEF UpdateInv
  <2>4. UpdateTypes' /\ BootInv' /\ AloneInv'
    BY <1>2, <2>2, BootKept, AloneKept DEF UpdateInv, UpdateTypes, LoaderRuns
  <2>5. QED
    BY <2>3, <2>4 DEF UpdateInv
<1>3. QED
  BY <1>1, <1>2 DEF JobRelease

LEMMA UsbStepInv ==
    ASSUME UpdateInv, UsbStep
    PROVE  UpdateInv'
<1>1. UNCHANGED <<flash, esp, http, job, mgr, stm, loader>>
  BY DEF UsbStep, updateVars
<1>2. spent' \in SpentSet
  <2>1. spent \in SpentSet
    BY DEF UpdateInv, UpdateTypes
  <2>2. \/ spent' = spent \/ Event
        \/ spent.uploads < MaxUploads /\ spent' = [spent EXCEPT !.uploads = @ + 1]
    BY DEF UsbStep, updateVars
  <2>3. QED
    BY <2>1, <2>2, EventSpent, SmallNumbers, SMT DEF SpentSet
<1>3. QED
  BY <1>1, <1>2, SpentInv

LEMMA UpdateInitInv == Init => UpdateInv
<1> SUFFICES ASSUME Init PROVE UpdateInv
  OBVIOUS
<1>1. flash \in FlashSet
  BY Contents DEF Init, FlashSet
<1>2. esp \in EspSet /\ mgr \in MgrSet
  BY Contents DEF Init, EspReset, EspSet, MgrSet
<1>3. http \in HttpSet
  BY DEF Init, HttpIdle, HttpSet, HttpPlaces
<1>4. job \in [Tasks -> TaskSet]
  BY SmallNumbers DEF Init, NoJob, NoTask, TaskSet, JobPlaces
<1>5. stm \in StmSet
  BY Contents, NoPrepareType DEF Init, StmSet, RunSet
<1>6. loader \in LoaderSet /\ spent \in SpentSet
  BY Contents, SmallNumbers, SMT DEF Init, NoLoader, LoaderSet, SpentSet
<1>7. FileInv
  BY SMT DEF Init, FileInv, HttpIdle, NoJob, NoTask, Waiting, EspReset, Tasks
<1>8. BootInv
  BY SMT DEF Init, BootInv, Whole, LoaderRuns, Images
<1>9. AloneInv
  BY SMT DEF Init, AloneInv, EspReset, LoaderRuns
<1>10. QED
  BY <1>1, <1>2, <1>3, <1>4, <1>5, <1>6, <1>7, <1>8, <1>9 DEF UpdateInv, UpdateTypes

LEMMA UpdateNextInv ==
    ASSUME UpdateInv, [Next]_vars
    PROVE  UpdateInv'
<1>1. CASE UNCHANGED vars \/ HoldExpires
  BY <1>1, SpentInv DEF vars, updateVars, HoldExpires, UpdateInv, UpdateTypes
<1>2. CASE BootStep
  BY <1>2, EspPowerOnInv, BootEraseInv, BootReplaceInv, BootAppInv DEF BootStep
<1>3. CASE UploadStep
  BY <1>3, UploadEnterInv, UploadHeaderInv, UploadEraseInv, UploadControlInv, UploadDataInv,
     UploadDryInv, UploadCommitInv, UploadInstallInv, UploadFailedInv, RecoveryEnterInv,
     RecoveryWriteInv, RecoveryFailedInv, RecoveryRestartInv DEF UploadStep
<1>4. CASE RadioStep
  BY <1>1, <1>4, StmCommandInv, StmSendCommandInv, EspPowerOffInv, ScanRequestInv,
     MgrAnnounceInv, MgrTakeInv, MgrStopInv, MgrFinishInv, PortalStartInv, PrepareExpiresInv DEF RadioStep
<1>5. CASE UsbStep
  BY <1>5, UsbStepInv
<1>6. CASE ResumeStep
  BY <1>6, ResumeInstallInv, ResumeGivesUpInv DEF ResumeStep
<1>7. CASE LoaderStep
  <2>1. ASSUME LoaderStops PROVE UpdateInv'
    BY <2>1, BothResetInv DEF LoaderStops, UpdateInv, UpdateTypes
  <2>2. QED
    BY <1>7, <2>1, LoaderCheckInv, LoaderUnservedInv, LoaderMarkInv, LoaderEraseInv,
       LoaderWriteInv, LoaderVectorsInv, LoaderValidateInv DEF LoaderStep
<1>8. ASSUME NEW t \in Tasks, JobStep(t) PROVE UpdateInv'
  BY <1>8, JobUsbInv, JobPrepareInv, JobUnpreparedInv, JobExecInv, JobInstalledInv,
     JobServedInv, JobFinishInv, JobTriggerInv, JobRestartInv, JobReleaseInv, JobEndInv
     DEF JobStep
<1>9. CASE PowerLoss \/ EspPowerOff \/ EspRestart \/ LoaderError \/ UsbRepair
  BY <1>9, PowerLossInv, EspPowerOffInv, EspRestartInv, LoaderErrorInv, UsbRepairInv
<1>10. QED
  BY <1>1, <1>2, <1>3, <1>4, <1>5, <1>6, <1>7, <1>8, <1>9 DEF Next

-----------------------------------------------------------------------------
(* The tunnel in the composed system.                                       *)

\* A step of the other components: what they may do to the tunnel.
TunnelSpared ==
  \/ UNCHANGED tunnelVars
  \/ /\ UNCHANGED <<pc, usb, tun, wire, acks, tcp>>
     /\ hold' \in BOOLEAN /\ reply' \in BOOLEAN
  \/ TunnelLost(Sending) /\ UNCHANGED <<usb, hold>>
  \/ TunnelLost(Sending \cup {"asking"}) /\ usb' = "off" /\ hold' = FALSE

LEMMA TunnelSparedInv ==
    ASSUME TunnelInv, TunnelSpared
    PROVE  TunnelInv'
<1>1. CASE UNCHANGED tunnelVars
  BY <1>1, TunnelHeldInv DEF tunnelVars, TunnelInv, EndsType
<1>2. CASE /\ UNCHANGED <<pc, usb, tun, wire, acks, tcp>>
           /\ hold' \in BOOLEAN /\ reply' \in BOOLEAN
  BY <1>2, TunnelHeldInv
<1>3. CASE TunnelLost(Sending) /\ UNCHANGED <<usb, hold>>
  <2>1. hold' \in BOOLEAN /\ "asking" \notin Sending
    BY <1>3 DEF TunnelInv, EndsType, Sending
  <2>2. QED
    BY <1>3, <2>1, TunnelLostInv
<1>4. CASE TunnelLost(Sending \cup {"asking"}) /\ usb' = "off" /\ hold' = FALSE
  <2>1. usb' \notin Asking
    BY <1>4 DEF Asking
  <2>2. QED
    BY <1>4, <2>1, TunnelLostInv
<1>5. QED
  BY <1>1, <1>2, <1>3, <1>4 DEF TunnelSpared

LEMMA OthersSpare ==
    ASSUME TunnelInv, Next, ~UsbStep
    PROVE  TunnelSpared
<1>1. hold \in BOOLEAN /\ reply \in BOOLEAN
  BY DEF TunnelInv, EndsType
<1>2. CASE BootStep
  BY <1>1, <1>2 DEF BootStep, EspPowerOn, BootErase, BootReplace, BootApp, ReadyHeard,
     TunnelSpared, tunnelVars, lineVars
<1>3. CASE UploadStep
  <2>1. CASE \/ UploadEnter \/ UploadErase \/ UploadControl \/ UploadData \/ UploadCommit
             \/ RecoveryWrite
    BY <2>1 DEF UploadEnter, UploadErase, UploadControl, UploadData, UploadCommit,
       RecoveryWrite, HttpOnly, TunnelSpared
  <2>2. CASE UploadDry \/ UploadInstall
    BY <1>1, <2>2 DEF UploadDry, UploadInstall, Answered, TunnelSpared
  <2>3. CASE UploadHeader \/ RecoveryEnter \/ RecoveryFailed
    BY <1>1, <2>3 DEF UploadHeader, RecoveryEnter, RecoveryFailed, OtaState, TunnelSpared,
       lineVars
  <2>4. CASE UploadFailed
    BY <1>1, <2>4 DEF UploadFailed, Answered, OtaState, TunnelSpared
  <2>5. CASE RecoveryRestart
    BY <2>5 DEF RecoveryRestart, EspGone, TunnelSpared
  <2>6. QED
    BY <1>3, <2>1, <2>2, <2>3, <2>4, <2>5 DEF UploadStep
<1>4. CASE RadioStep
  <2>1. CASE HoldExpires
    BY <1>1, <2>1 DEF HoldExpires, TunnelSpared, lineVars
  <2>2. CASE StmGivesUp
    BY <2>2 DEF StmGivesUp, EspGone, TunnelSpared
  <2>3. CASE MgrAnnounce
    BY <1>1, <2>3 DEF MgrAnnounce, ReadyHeard, TunnelSpared, lineVars
  <2>4. CASE ~HoldExpires /\ ~StmGivesUp /\ ~MgrAnnounce
    BY <1>4, <2>4 DEF RadioStep, StmCommand, StmSendCommand, ScanRequest,
       MgrTake, MgrStop, MgrFinish, PortalStart, PrepareExpires, StmOnly, TunnelSpared
  <2>5. QED
    BY <2>1, <2>2, <2>3, <2>4
<1>5. CASE ResumeStep
  BY <1>1, <1>5 DEF ResumeStep, ResumeInstall, ResumeGivesUp, OtaState,
     TunnelSpared, lineVars
<1>6. CASE LoaderStep \/ LoaderError
  BY <1>6 DEF LoaderStep, LoaderCheck, LoaderUnserved, LoaderMark, LoaderErase, LoaderWrite,
     LoaderVectors, LoaderValidate, LoaderStops, LoaderError, LoaderOnly, BothReset,
     TunnelSpared
<1>7. ASSUME NEW t \in Tasks, JobStep(t) PROVE TunnelSpared
  <2>1. CASE JobPrepare(t)
    BY <1>1, <2>1 DEF JobPrepare, TunnelSpared, lineVars
  <2>2. CASE JobEnd(t)
    BY <1>1, <2>2 DEF JobEnd, OtaState, TunnelSpared, lineVars
  <2>3. CASE JobRestart(t) \/ JobRelease(t)
    BY <2>3 DEF JobRestart, JobRelease, EspGone, BothReset, TunnelSpared
  <2>4. CASE \/ JobUsb(t) \/ JobUnprepared(t) \/ JobExec(t) \/ JobInstalled(t)
             \/ JobServed(t) \/ JobFinish(t) \/ JobTrigger(t)
    BY <2>4 DEF JobUsb, JobUnprepared, JobExec, JobInstalled, JobServed, JobFinish,
       JobTrigger, TunnelSpared
  <2>5. QED
    BY <1>7, <2>1, <2>2, <2>3, <2>4 DEF JobStep
<1>8. CASE PowerLoss \/ EspPowerOff \/ EspRestart \/ UsbRepair
  BY <1>8
    DEF PowerLoss, EspPowerOff, EspRestart, UsbRepair, BothReset, EspGone, TunnelSpared
<1>9. QED
  BY <1>2, <1>3, <1>4, <1>5, <1>6, <1>7, <1>8 DEF Next

LEMMA UsbStepTunnel ==
    ASSUME TunnelInv, UsbStep
    PROVE  TunnelInv'
<1>1. CASE AskUsb(stm.pending # "no")
  BY <1>1, AskUsbInv
<1>2. CASE OpenUsb(stm.runs = "app" /\ esp.power = "on" /\ esp.portal /\ stm.pending = "no",
                   ~esp.busy /\ esp.portal)
  <2> DEFINE r == stm.runs = "app" /\ esp.power = "on" /\ esp.portal /\ stm.pending = "no"
             a == ~esp.busy /\ esp.portal
  <2>1. r \in BOOLEAN /\ a \in BOOLEAN
    OBVIOUS
  <2> HIDE DEF r, a
  <2>2. OpenUsb(r, a)
    BY <1>2 DEF r, a
  <2>3. QED
    BY <2>1, <2>2, OpenUsbInv
<1>3. QED
  BY <1>1, <1>2, TunnelStepInv DEF UsbStep

-----------------------------------------------------------------------------

UpdateIInv == UpdateInv /\ TunnelInv

LEMMA UpdateIInvHolds == Spec => []UpdateIInv
<1>1. Init => UpdateIInv
  BY UpdateInitInv, TunnelInitInv DEF Init, UpdateIInv
<1>2. UpdateIInv /\ [Next]_vars => UpdateIInv'
  <2> SUFFICES ASSUME UpdateIInv, [Next]_vars PROVE UpdateIInv'
    OBVIOUS
  <2>1. UpdateInv'
    BY UpdateNextInv DEF UpdateIInv
  <2>2. TunnelInv'
    <3>1. CASE UNCHANGED vars
      BY <3>1, TunnelSparedInv DEF vars, UpdateIInv, TunnelSpared
    <3>2. CASE Next
      BY <3>2, OthersSpare, TunnelSparedInv, UsbStepTunnel DEF UpdateIInv
    <3>3. QED
      BY <3>1, <3>2
  <2>3. QED
    BY <2>1, <2>2 DEF UpdateIInv
<1>3. QED
  BY <1>1, <1>2, PTL DEF Spec

(* Every variable keeps its type, in every state of the composed system.     *)
THEOREM UpdateTypeCorrect == Spec => []TypeOK
<1>1. UpdateIInv => TypeOK
  BY TunnelInvTypes DEF UpdateIInv, UpdateInv, UpdateTypes, TypeOK, UpdateTypeOK, FlashSet,
     EspSet, HttpSet, TaskSet, MgrSet, RunSet, StmSet, LoaderSet, SpentSet
<1>2. QED
  BY <1>1, UpdateIInvHolds, PTL

(* The STM32 never runs an image that was not written completely, wherever   *)
(* power fails while the RAM program of ram-loader.c replaces it.            *)
THEOREM BootsWholeAlways == Spec => []BootsWhole
<1>1. UpdateIInv => BootsWhole
  BY DEF UpdateIInv, UpdateInv, BootInv, BootsWhole
<1>2. QED
  BY <1>1, UpdateIInvHolds, PTL

(* The RAM program never takes the place of an STM32 whose Bluetooth command *)
(* the radio manager of app_main.c is carrying out, other than one that the  *)
(* STM32 has given up on a READY.                                            *)
THEOREM LoaderAloneAlways == Spec => []LoaderAlone
<1>1. UpdateIInv => LoaderAlone
  BY DEF UpdateIInv, UpdateInv, AloneInv, LoaderAlone
<1>2. QED
  BY <1>1, UpdateIInvHolds, PTL

(* The tunnel of usb_tunnel.c passes the blocks of the PC on in order, none  *)
(* twice and none left out, in every state of the composed system.           *)
THEOREM StreamInOrderAlways == Spec => []StreamInOrder
<1>1. UpdateIInv => StreamInOrder
  BY TunnelInvOrder DEF UpdateIInv
<1>2. QED
  BY <1>1, UpdateIInvHolds, PTL

-----------------------------------------------------------------------------
(* One bundle.  What the journal, its copy in RAM and the image in the STM32 *)
(* say must agree through four processes that hand the journal on, so the   *)
(* invariant goes by the place of each of them.                             *)

\* A job that has the update to itself; one that works on the control side, and one
\* after it; a handler with a job asleep, and the service OTA after its checks.
Active == {"usb", "prepare", "serve", "finish", "trigger", "restart", "release", "end"}
Early == {"usb", "prepare", "serve"}
Late == {"finish", "trigger", "restart"}
Sleeping == {"erase_stage", "erase_storage", "erase_meta", "control", "control_check", "check",
             "commit", "installing"}
Recovering == {"r_erase", "r_data", "r_check", "r_commit", "r_restart"}

\* One handler or one job at a time has the journal, while a resume may wait.
AtMostOne ==
  /\ job["staged"].at # "wait"
  /\ job["resume"].at # "asleep" /\ ~job["resume"].dry
  /\ job["staged"].at # "none" => job["resume"].at \in {"none", "wait"}
  /\ \A t \in Tasks : job[t].at \in Active => esp.busy /\ http.at = "idle"
  /\ http.at = "header" => esp.busy
  /\ http.at \in Sleeping => /\ esp.busy /\ job["staged"].at = "asleep"
                             /\ job["staged"].dry = http.dry
  /\ job["staged"].at = "asleep" => http.at \in Sleeping

\* What the journal says while it is written, and while a job reads it.
JournalInv ==
  /\ flash.header # Blank => flash.packed = flash.header
  /\ http.at = "erase_meta" => flash.trigger = Blank
  /\ http.at \in {"control", "control_check", "check", "commit"}
       => flash.header = Blank /\ flash.done = "ones" /\ flash.trigger = Blank
  /\ http.at = "commit" => flash.packed = http.file.bundle /\ ~http.dry
  /\ http.at = "installing" => /\ flash.header = http.file.bundle /\ flash.done = "ones"
                               /\ flash.trigger = Blank /\ ~http.dry
  /\ http.at \in {"r_commit", "r_restart"} => flash.header = Blank
  /\ esp.power = "on" /\ flash.trigger # Blank
       => http.at = "r_restart" \/ \E t \in Tasks : job[t].at = "restart"
  /\ \A t \in Tasks : job[t].at \in Early => flash.done = "ones" /\ flash.trigger = Blank
  /\ \A t \in Tasks : job[t].at \in Late => flash.done = "control" /\ ~job[t].dry
  /\ \A t \in Tasks : job[t].at \in Early \cup Late /\ ~job[t].dry
       => esp.header = flash.header /\ flash.header # Blank
  /\ \A t \in Tasks : job[t].at = "prepare" => esp.phase # 4

\* The RAM program writes, or reads pages that it is going to write.
AtWork ==
  \/ stm.runs \in {"mark", "erase", "vectors", "validate"}
  \/ stm.runs \in {"check", "write"} /\ Served

\* The job that serves the RAM program, or leaves it, has the journal; nobody else
\* comes to it, as the portal of an ESP8684 that has restarted needs the STM32.
JournalHeld ==
  /\ http.at = "idle"
  /\ esp.portal => \E t \in Tasks : job[t].at \in {"serve", "release"}
  /\ \A t \in Tasks : job[t].at \in {"none", "wait", "serve", "release"}
  /\ flash.done = "ones" /\ flash.trigger = Blank /\ esp.phase # 4
  /\ ~loader.dry => loader.target = flash.header

\* The control image is written with the journal unchanged, and no job is prepared
\* for a RAM program that runs already.
ServeInv ==
  /\ AtWork => JournalHeld
  /\ LoaderRuns => ~esp.ready /\ \A t \in Tasks : job[t].at = "serve" => job[t].dry = loader.dry

\* What the bootloader finds is what the journal says.
ControlInv ==
  /\ stm.runs \in {"mark", "erase", "write", "vectors", "validate"} => ~loader.dry
  /\ stm.runs = "check" => stm.marker = "valid"
  /\ stm.runs = "linger" => stm.marker = "valid" /\ Whole(loader.target)
  /\ stm.marker # "valid"
       => flash.done = "ones" /\ (flash.trigger = Blank \/ flash.header = Blank)
  /\ stm.runs = "dfu" => esp.power = "off" /\ stm.marker # "valid"
  /\ esp.power # "on" => ~esp.portal /\ esp.phase = 0 /\ ~esp.ready
  /\ flash.header # Blank /\ (flash.done # "ones" \/ flash.trigger # Blank) => Whole(flash.header)
  /\ esp.phase = 4 => Whole(flash.app)

BundleInv == AtMostOne /\ JournalInv /\ ServeInv /\ ControlInv

\* The erased journal names no bundle and no part of it is done.
LEMMA JournalErased ==
    ASSUME NEW f \in FlashSet,
           NEW e, e = [f EXCEPT !.header = Blank, !.packed = Blank, !.done = "ones"]
    PROVE  /\ e.header = Blank /\ e.packed = Blank /\ e.done = "ones"
           /\ e.trigger = f.trigger /\ e.app = f.app
<1> DEFINE x == [f EXCEPT !.header = Blank]
           y == [x EXCEPT !.packed = Blank]
<1>1. x \in FlashSet /\ x.header = Blank /\ x.trigger = f.trigger /\ x.app = f.app
  BY Contents DEF FlashSet
<1>2. /\ y \in FlashSet /\ y.header = Blank /\ y.packed = Blank
      /\ y.trigger = f.trigger /\ y.app = f.app
  <2> HIDE DEF x
  <2>1. QED
    BY <1>1, Contents DEF FlashSet
<1>3. e = [y EXCEPT !.done = "ones"]
  OBVIOUS
<1>4. QED
  <2> HIDE DEF y
  <2>1. QED
    BY <1>2, <1>3

\* The parts of the record of the ESP8684 that the invariant is about.
EspIs(e, power, busy, phase, header, portal, ready) ==
  /\ e.power = power /\ e.busy = busy /\ e.phase = phase /\ e.header = header
  /\ e.portal = portal /\ e.ready = ready

\* A job that ends changes the phase and what it read of the journal, no more.
LEMMA EspEnds ==
    ASSUME NEW e \in EspSet, NEW c \in Content
    PROVE  /\ EspIs([e EXCEPT !.header = c, !.phase = 3, !.entry = FALSE],
                    e.power, e.busy, 3, c, e.portal, e.ready)
           /\ EspIs([e EXCEPT !.header = c, !.entry = FALSE],
                    e.power, e.busy, e.phase, c, e.portal, e.ready)
<1>1. ASSUME NEW x \in EspSet
      PROVE  EspIs([x EXCEPT !.entry = FALSE], x.power, x.busy, x.phase, x.header, x.portal, x.ready)
  BY <1>1 DEF EspIs
<1>2. ASSUME NEW x \in EspSet
      PROVE  /\ [x EXCEPT !.phase = 3] \in EspSet
             /\ EspIs([x EXCEPT !.phase = 3], x.power, x.busy, 3, x.header, x.portal, x.ready)
  BY <1>2 DEF EspSet, EspIs
<1> DEFINE a == [e EXCEPT !.header = c]
           b == [a EXCEPT !.phase = 3]
<1>3. a \in EspSet /\ EspIs(a, e.power, e.busy, e.phase, c, e.portal, e.ready)
  BY DEF EspSet, EspIs
<1>4. b \in EspSet /\ EspIs(b, e.power, e.busy, 3, c, e.portal, e.ready)
  <2> HIDE DEF a
  <2>1. QED
    BY <1>2, <1>3 DEF EspIs
<1>5. EspIs([a EXCEPT !.entry = FALSE], e.power, e.busy, e.phase, c, e.portal, e.ready)
  <2> HIDE DEF a
  <2>1. QED
    BY <1>1, <1>3 DEF EspIs
<1>6. EspIs([b EXCEPT !.entry = FALSE], e.power, e.busy, 3, c, e.portal, e.ready)
  <2> HIDE DEF b
  <2>1. QED
    BY <1>1, <1>4 DEF EspIs
<1>7. QED
  BY <1>5, <1>6

(* A job at work has the HTTP server, and the other job at rest or waiting.   *)
LEMMA JobIsAlone ==
    ASSUME UpdateTypes, AtMostOne, NEW t \in Tasks, job[t].at \in Active
    PROVE  http.at = "idle" /\ \A u \in Tasks : u # t => job[u].at \in {"none", "wait"}
<1>1. \A u \in Tasks : job[u].at \in JobPlaces
  BY DEF UpdateTypes, TaskSet
<1>2. QED
  BY <1>1 DEF AtMostOne, Tasks, Active, Sleeping, JobPlaces

(* Nobody has the update: no job is there but a resume that waits.            *)
LEMMA NobodyBusy ==
    ASSUME UpdateTypes, AtMostOne, ~esp.busy \/ http.at # "idle", http.at \notin Sleeping
    PROVE  \A t \in Tasks : job[t].at \in {"none", "wait"}
<1>1. \A t \in Tasks : job[t].at \in JobPlaces
  BY DEF UpdateTypes, TaskSet
<1>2. QED
  BY <1>1 DEF AtMostOne, Tasks, Active, JobPlaces

(* A job goes to another place.                                              *)
LEMMA JobMoves ==
    ASSUME UpdateTypes, NEW t \in Tasks, NEW a, JobGoes(t, a)
    PROVE  /\ job'[t].at = a /\ job'[t].dry = job[t].dry
           /\ \A u \in Tasks : u # t => job'[u] = job[u]
<1>1. job \in [Tasks -> TaskSet] /\ job' = [job EXCEPT ![t].at = a]
  BY DEF UpdateTypes, JobGoes
<1>2. QED
  BY <1>1 DEF TaskSet

(* A job that has the update keeps it.                                       *)
LEMMA JobStays ==
    ASSUME UpdateTypes, AtMostOne, UNCHANGED http, esp'.busy = esp.busy,
           NEW t \in Tasks, job[t].at \in Active, job'[t].at \in Active,
           job'[t].dry = job[t].dry, \A u \in Tasks : u # t => job'[u] = job[u]
    PROVE  AtMostOne'
<1>1. http.at = "idle" /\ \A u \in Tasks : u # t => job[u].at \in {"none", "wait"}
  BY JobIsAlone
<1>2. QED
  BY <1>1 DEF AtMostOne, Tasks, Active, Sleeping

(* Beside a handler, or a job that does not serve, no image is written.      *)
LEMMA NotAtWork ==
    ASSUME BundleInv,
           \/ http.at # "idle"
           \/ \E t \in Tasks : job[t].at \notin {"none", "wait", "serve", "release"}
    PROVE  ~AtWork
BY DEF BundleInv, ServeInv, JournalHeld

(* Nobody comes to serve the RAM program, and who has the journal keeps it.   *)
LEMMA ServeKept ==
    ASSUME ServeInv, stm'.runs = stm.runs, UNCHANGED loader, esp'.ready => esp.ready,
           \A t \in Tasks : job'[t].at = "serve" => job[t].at = "serve"
                                                    /\ job'[t].dry = job[t].dry,
           AtWork /\ JournalHeld => JournalHeld'
    PROVE  ServeInv'
<1>1. AtWork' => AtWork
  BY DEF AtWork, Served
<1>2. QED
  BY <1>1 DEF ServeInv, LoaderRuns

(* The RAM program goes on, with the journal and the jobs as they were.      *)
LEMMA LoaderGoesOn ==
    ASSUME BundleInv, AtWork, UNCHANGED <<flash, esp, http, job>>,
           loader'.target = loader.target, loader'.dry = loader.dry,
           stm'.runs \notin {"app", "dfu"},
           stm'.runs \in {"mark", "erase", "write", "vectors", "validate"} => ~loader.dry,
           stm'.runs = "check" => stm'.marker = "valid",
           stm'.runs = "linger" => stm'.marker = "valid" /\ Whole(loader.target)'
    PROVE  BundleInv'
<1>1. AtMostOne' /\ JournalInv'
  BY DEF BundleInv, AtMostOne, JournalInv
<1>2. JournalHeld /\ LoaderRuns
  BY DEF BundleInv, ServeInv, AtWork, LoaderRuns
<1>3. ControlInv'
  BY <1>2 DEF BundleInv, ControlInv, JournalHeld
<1>4. ServeInv'
  BY <1>2 DEF BundleInv, ServeInv, JournalHeld
<1>5. QED
  BY <1>1, <1>3, <1>4 DEF BundleInv

(* A step that leaves alone what BundleInv is about.                         *)
LEMMA BundleKept ==
    ASSUME BundleInv, UNCHANGED <<flash, http, job, loader>>,
           EspIs(esp', esp.power, esp.busy, esp.phase, esp.header, esp.portal, esp.ready),
           stm'.runs = stm.runs, stm'.img = stm.img, stm'.marker = stm.marker
    PROVE  BundleInv'
<1>1. AtMostOne' /\ JournalInv' /\ ControlInv'
  BY DEF BundleInv, AtMostOne, JournalInv, ControlInv, EspIs, Whole
<1>2. ServeInv'
  BY ServeKept DEF BundleInv, JournalHeld, EspIs
<1>3. QED
  BY <1>1, <1>2 DEF BundleInv

(* The ESP8684 loses its RAM, and with it what its handlers and jobs did.    *)
LEMMA EspGoneBundle ==
    ASSUME BundleInv, NEW p \in {"off", "boot"}, EspGone(p), UNCHANGED <<flash, loader>>,
           stm'.runs = stm.runs, stm'.img = stm.img, stm'.marker = stm.marker,
           stm.runs = "dfu" => p = "off"
    PROVE  BundleInv'
<1>1. /\ http'.at = "idle" /\ \A t \in Tasks : job'[t].at = "none" /\ ~job'[t].dry
      /\ EspIs(esp', p, FALSE, 0, Blank, FALSE, FALSE)
  BY DEF EspGone, EspReset, HttpIdle, NoJob, NoTask, EspIs
<1>2. AtMostOne'
  BY <1>1 DEF AtMostOne, Active, Sleeping, Tasks
<1>3. JournalInv'
  BY <1>1 DEF BundleInv, JournalInv, Early, Late, EspIs
<1>4. ControlInv'
  BY <1>1 DEF BundleInv, ControlInv, LoaderRuns, Whole, EspIs
<1>5. ServeInv'
  BY <1>1, ServeKept DEF BundleInv, JournalHeld, EspIs
<1>6. QED
  BY <1>2, <1>3, <1>4, <1>5 DEF BundleInv

(* Both processors restart.                                                  *)
LEMMA BothResetBundle ==
    ASSUME UpdateInv, BundleInv, BothReset
    PROVE  BundleInv'
<1>1. /\ http'.at = "idle" /\ \A t \in Tasks : job'[t].at = "none" /\ ~job'[t].dry
      /\ EspIs(esp', "off", FALSE, 0, Blank, FALSE, FALSE) /\ UNCHANGED flash
  BY DEF BothReset, EspReset, HttpIdle, NoJob, NoTask, EspIs
<1>2. PICK r \in StmBoots(stm.marker) :
        stm' = [stm EXCEPT !.runs = r, !.pending = "no", !.prepared = NoPrepare]
  BY DEF BothReset
<1>3. stm'.runs = r /\ stm'.img = stm.img /\ stm'.marker = stm.marker
  <2> DEFINE x == [stm EXCEPT !.runs = r]
             y == [x EXCEPT !.pending = "no"]
  <2>1. x \in StmSet /\ x.runs = r /\ x.img = stm.img /\ x.marker = stm.marker
    BY StmParts, StmRuns DEF StmBoots, RunSet
  <2>2. y \in StmSet /\ y.runs = r /\ y.img = stm.img /\ y.marker = stm.marker
    <3> HIDE DEF x
    <3>1. QED
      BY <2>1 DEF StmSet
  <2>3. stm' = [y EXCEPT !.prepared = NoPrepare]
    BY <1>2
  <2> HIDE DEF y
  <2>4. QED
    BY <2>2, <2>3
<1>4. r \in {"app", "dfu"} /\ (r = "dfu" => stm.marker # "valid")
  BY DEF StmBoots
<1>5. AtMostOne'
  BY <1>1 DEF AtMostOne, Active, Sleeping, Tasks
<1>6. JournalInv'
  BY <1>1 DEF BundleInv, JournalInv, Early, Late, EspIs
<1>7. ControlInv'
  BY <1>1, <1>3, <1>4 DEF BundleInv, ControlInv, LoaderRuns, Whole, EspIs
<1>8. ServeInv'
  BY <1>3, <1>4 DEF ServeInv, AtWork, LoaderRuns
<1>9. QED
  BY <1>5, <1>6, <1>7, <1>8 DEF BundleInv

(* Commands, scans and the hold do not concern the update.                   *)
LEMMA RadioBundle ==
    ASSUME UpdateInv, BundleInv,
           \/ StmCommand \/ StmSendCommand \/ HoldExpires \/ ScanRequest
           \/ MgrAnnounce \/ MgrTake \/ MgrFinish \/ PrepareExpires
    PROVE  BundleInv'
<1>1. UNCHANGED <<flash, http, job, loader>>
  BY DEF StmCommand, StmSendCommand, HoldExpires, ScanRequest, MgrAnnounce, MgrTake,
         MgrFinish, PrepareExpires, StmOnly, updateVars
<1>2. EspIs(esp', esp.power, esp.busy, esp.phase, esp.header, esp.portal, esp.ready)
  <2>1. esp \in EspSet
    BY DEF UpdateInv, UpdateTypes
  <2>2. \/ esp' = esp \/ \E c \in {"none", "victron", "scan"} : esp' = [esp EXCEPT !.command = c]
        \/ \E b : esp' = [esp EXCEPT !.orphan = b]
    BY DEF StmCommand, StmSendCommand, HoldExpires, ScanRequest, MgrAnnounce, MgrTake,
           MgrFinish, PrepareExpires, StmOnly, updateVars
  <2>3. QED
    BY <2>1, <2>2 DEF EspSet, EspIs
<1>3. stm'.runs = stm.runs /\ stm'.img = stm.img /\ stm'.marker = stm.marker
  <2>1. CASE MgrAnnounce
    BY <2>1, ReadyHeardStm DEF MgrAnnounce
  <2>2. CASE ~MgrAnnounce
    <3>1. \/ stm' = stm \/ stm' = [stm EXCEPT !.prepared = NoPrepare]
          \/ \E q \in {"no", "queued", "sent"} : stm' = [stm EXCEPT !.pending = q]
      BY <2>2 DEF StmCommand, StmSendCommand, HoldExpires, ScanRequest, MgrTake,
             MgrFinish, PrepareExpires, StmOnly, updateVars
    <3>2. QED
      BY <3>1, StmParts DEF StmSet
  <2>3. QED
    BY <2>1, <2>2
<1>4. QED
  BY <1>1, <1>2, <1>3, BundleKept

\* The power comes back: nothing is at work yet.
LEMMA EspPowerOnBundle ==
    ASSUME UpdateInv, BundleInv, EspPowerOn
    PROVE  BundleInv'
<1>1. AtMostOne'
  BY DEF BundleInv, AtMostOne, Active, Tasks, EspPowerOn, UpdateInv, FileInv
<1>2. JournalInv'
  BY DEF BundleInv, JournalInv, Early, Late, EspPowerOn, EspReset, UpdateInv, FileInv
<1>3. ControlInv'
  BY DEF BundleInv, ControlInv, LoaderRuns, Whole, EspPowerOn, EspReset
<1>8. ServeInv'
  BY DEF BundleInv, ServeInv, AtWork, Served, JournalHeld, LoaderRuns, EspPowerOn, EspReset
<1>9. QED
  BY <1>1, <1>2, <1>3, <1>8 DEF BundleInv

\* The ESP8684's bootloader erases the application; the journal stays.
LEMMA BootEraseBundle ==
    ASSUME UpdateInv, BundleInv, BootErase
    PROVE  BundleInv'
<1>1. AtMostOne'
  BY DEF BundleInv, AtMostOne, BootErase
<1>2. JournalInv'
  BY DEF BundleInv, JournalInv, BootErase
<1>3. ControlInv'
  BY DEF BundleInv, ControlInv, LoaderRuns, Whole, BootErase
<1>8. ServeInv'
  BY DEF BundleInv, ServeInv, AtWork, Served, JournalHeld, LoaderRuns, BootErase
<1>9. QED
  BY <1>1, <1>2, <1>3, <1>8 DEF BundleInv

\* The ESP8684's bootloader installs what is stored and clears the trigger.
LEMMA BootReplaceBundle ==
    ASSUME UpdateInv, BundleInv, BootReplace
    PROVE  BundleInv'
<1>1. AtMostOne'
  BY DEF BundleInv, AtMostOne, BootReplace
<1>2. JournalInv'
  BY DEF BundleInv, JournalInv, BootReplace
<1>3. ControlInv'
  BY DEF BundleInv, ControlInv, LoaderRuns, Whole, BootReplace
<1>8. ServeInv'
  BY DEF BundleInv, ServeInv, AtWork, Served, JournalHeld, LoaderRuns, BootReplace
<1>9. QED
  BY <1>1, <1>2, <1>3, <1>8 DEF BundleInv

\* The application starts, with a resume waiting for the portal.
LEMMA BootAppBundle ==
    ASSUME UpdateInv, BundleInv, BootApp
    PROVE  BundleInv'
<1>1. /\ UNCHANGED <<flash, http, loader>> /\ esp' = JournalRead
      /\ esp.power = "boot" /\ flash.trigger = Blank
  BY DEF BootApp
<1>2. http.at = "idle" /\ \A t \in Tasks : job[t].at = "none"
  BY <1>1 DEF UpdateInv, FileInv
<1>3. /\ job'["staged"].at = "none" /\ \A t \in Tasks : ~job'[t].dry
      /\ \/ job'["resume"].at \in {"none", "wait"}
         \/ job'["resume"].at = "finish" /\ flash.header # Blank /\ flash.done = "control"
  <2>1. PICK a \in {"none", "wait", "finish"} :
          /\ job' = [NoJob EXCEPT !["resume"].at = a]
          /\ a = "finish" => flash.header # Blank /\ flash.done = "control"
    BY DEF BootApp, Resumes
  <2>2. QED
    BY <2>1 DEF NoJob, NoTask, Tasks
<1>4. stm'.runs = stm.runs /\ stm'.img = stm.img /\ stm'.marker = stm.marker
  BY ReadyHeardStm DEF BootApp
<1>5. AtMostOne'
  BY <1>1, <1>2, <1>3, JournalReadType DEF AtMostOne, Active, Sleeping, Tasks
<1>6. JournalInv'
  BY <1>1, <1>2, <1>3, JournalReadType DEF BundleInv, JournalInv, Early, Late, Tasks
<1>7. ServeInv'
  <2>1. \A t \in Tasks : job'[t].at # "serve"
    BY <1>3 DEF Tasks
  <2>2. ASSUME JournalHeld PROVE JournalHeld'
    BY <1>1, <1>2, <1>3, <2>2, JournalReadType DEF JournalHeld, Tasks
  <2>3. QED
    BY <1>1, <1>4, <2>1, <2>2, JournalReadType, ServeKept DEF BundleInv
<1>8. ControlInv'
  BY <1>1, <1>4, JournalReadType DEF BundleInv, ControlInv, Whole
<1>9. QED
  BY <1>5, <1>6, <1>7, <1>8 DEF BundleInv

\* No bundle counts as installed on a board that waits for USB: any image will do.
LEMMA UsbRepairBundle ==
    ASSUME UpdateInv, BundleInv, UsbRepair
    PROVE  BundleInv'
<1>1. AtMostOne'
  BY DEF BundleInv, AtMostOne, UsbRepair
<1>2. JournalInv'
  BY DEF BundleInv, JournalInv, UsbRepair
<1>3. ControlInv'
  BY DEF BundleInv, ControlInv, LoaderRuns, UsbRepair
<1>8. ServeInv'
  BY DEF BundleInv, ServeInv, AtWork, Served, JournalHeld, LoaderRuns, UsbRepair
<1>9. QED
  BY <1>1, <1>2, <1>3, <1>8 DEF BundleInv

\* The radio manager stops the portal, once its HTTP server is idle.
LEMMA MgrStopBundle ==
    ASSUME UpdateInv, BundleInv, MgrStop
    PROVE  BundleInv'
<1>1. AtMostOne'
  BY DEF BundleInv, AtMostOne, MgrStop
<1>2. JournalInv'
  BY DEF BundleInv, JournalInv, MgrStop
<1>3. ControlInv'
  BY DEF BundleInv, ControlInv, LoaderRuns, Whole, MgrStop
<1>8. ServeInv'
  BY DEF BundleInv, ServeInv, AtWork, Served, JournalHeld, LoaderRuns, MgrStop
<1>9. QED
  BY <1>1, <1>2, <1>3, <1>8 DEF BundleInv

\* The portal starts, and a resume may look at it.
LEMMA PortalStartBundle ==
    ASSUME UpdateInv, BundleInv, PortalStart
    PROVE  BundleInv'
<1>1. AtMostOne'
  BY DEF BundleInv, AtMostOne, PortalStart
<1>2. JournalInv'
  BY DEF BundleInv, JournalInv, PortalStart
<1>3. ControlInv'
  BY DEF BundleInv, ControlInv, LoaderRuns, Whole, PortalStart
<1>8. ServeInv'
  BY DEF BundleInv, ServeInv, AtWork, Served, JournalHeld, LoaderRuns, PortalStart
<1>9. QED
  BY <1>1, <1>2, <1>3, <1>8 DEF BundleInv

\* An upload takes the update while nobody has it.
LEMMA UploadEnterBundle ==
    ASSUME UpdateInv, BundleInv, UploadEnter
    PROVE  BundleInv'
<1>4. \A t \in Tasks : job[t].at \in {"none", "wait"}
  BY NobodyBusy DEF UpdateInv, BundleInv, Sleeping, UploadEnter
<1>1. AtMostOne'
  BY <1>4 DEF BundleInv, AtMostOne, Active, Sleeping, Tasks, UploadEnter
<1>2. JournalInv'
  BY DEF BundleInv, JournalInv, UploadEnter
<1>3. ControlInv'
  BY DEF BundleInv, ControlInv, AtMostOne, Active, LoaderRuns, Whole, UploadEnter
<1>8. ServeInv'
  BY DEF BundleInv, ServeInv, AtWork, Served, JournalHeld, LoaderRuns, AtMostOne, Active,
     UploadEnter
<1>9. QED
  BY <1>1, <1>2, <1>3, <1>8 DEF BundleInv

\* The file's header is read; the staged job is made and sleeps.
LEMMA UploadHeaderBundle ==
    ASSUME UpdateInv, BundleInv, UploadHeader
    PROVE  BundleInv'
<1>4. \A t \in Tasks : job[t].at \in {"none", "wait"}
  BY NobodyBusy DEF UpdateInv, BundleInv, Sleeping, UploadHeader
<1>5. /\ http'.at = "erase_stage" /\ http'.dry = http.dry /\ http.at = "header"
      /\ UNCHANGED <<flash, stm, loader>>
  BY DEF UpdateInv, UpdateTypes, HttpSet, UploadHeader, HttpGoes
<1>6. /\ job'["staged"].at = "asleep" /\ job'["staged"].dry = http.dry
      /\ job'["resume"] = job["resume"]
  BY DEF UpdateInv, UpdateTypes, Tasks, NoTask, UploadHeader
<1>7. EspIs(esp', esp.power, esp.busy, 1, esp.header, esp.portal, esp.ready)
  BY DEF UpdateInv, UpdateTypes, EspSet, EspIs, UploadHeader
<1>1. AtMostOne'
  BY <1>4, <1>5, <1>6, <1>7 DEF BundleInv, AtMostOne, Active, Sleeping, Tasks, EspIs
<1>2. JournalInv'
  BY <1>4, <1>5, <1>6, <1>7 DEF BundleInv, JournalInv, Early, Late, Tasks, EspIs
<1>3. ControlInv'
  BY <1>5, <1>7 DEF BundleInv, ControlInv, Whole, EspIs, UpdateInv, FileInv
<1>8. ServeInv'
  BY <1>5, <1>6, <1>7, NotAtWork, ServeKept DEF BundleInv, EspIs, Tasks
<1>9. QED
  BY <1>1, <1>2, <1>3, <1>8 DEF BundleInv

\* The stage, the storage and the journal are erased, in this order.
LEMMA UploadEraseBundle ==
    ASSUME UpdateInv, BundleInv, UploadErase
    PROVE  BundleInv'
<1>4. UNCHANGED <<esp, job, stm, loader>>
  BY DEF UploadErase, HttpOnly
<1>5. ASSUME http.at = "erase_stage"
      PROVE  JournalInv' /\ ControlInv'
  <2>2. /\ flash' = [flash EXCEPT !.stage = Blank]
        /\ http' = [http EXCEPT !.at = "erase_storage"]
    BY <1>5 DEF UploadErase, HttpGoes
  <2>3. /\ http'.at = "erase_storage" /\ http'.file = http.file /\ http'.dry = http.dry
    BY <2>2
  <2>4. /\ flash'.header = flash.header
        /\ flash'.packed = flash.packed
        /\ flash'.done = flash.done
        /\ flash'.trigger = flash.trigger /\ flash'.app = flash.app
    BY <2>2
  <2>5. QED
    BY <2>3, <2>4, <1>4, <1>5 DEF BundleInv, JournalInv, ControlInv, LoaderRuns, Whole
<1>6. ASSUME http.at = "erase_storage"
      PROVE  JournalInv' /\ ControlInv'
  <2>2. /\ flash' = [flash EXCEPT !.data = Blank, !.trigger = Blank]
        /\ http' = [http EXCEPT !.at = "erase_meta"]
    BY <1>6 DEF UploadErase, HttpGoes
  <2>3. /\ http'.at = "erase_meta" /\ http'.file = http.file /\ http'.dry = http.dry
    BY <2>2
  <2>4. /\ flash'.header = flash.header
        /\ flash'.packed = flash.packed
        /\ flash'.done = flash.done
        /\ flash'.trigger = Blank /\ flash'.app = flash.app
    BY <2>2
  <2>5. QED
    BY <2>3, <2>4, <1>4, <1>6 DEF BundleInv, JournalInv, ControlInv, LoaderRuns, Whole
<1>7. ASSUME http.at = "erase_meta"
      PROVE  JournalInv' /\ ControlInv'
  <2>1. flash \in FlashSet /\ http \in HttpSet
    BY DEF UpdateInv, UpdateTypes
  <2>2. /\ flash' = [flash EXCEPT !.header = Blank, !.packed = Blank, !.done = "ones"]
        /\ http' = [http EXCEPT !.at = "control"]
    BY <1>7 DEF UploadErase, HttpGoes
  <2>3. /\ http'.at = "control" /\ http'.file = http.file /\ http'.dry = http.dry
    BY <2>2
  <2>4. flash'.header = Blank /\ flash'.packed = Blank /\ flash'.done = "ones"
        /\ flash'.trigger = flash.trigger /\ flash'.app = flash.app
    BY <2>1, <2>2, JournalErased
  <2>5. QED
    BY <2>3, <2>4, <1>4, <1>7
      DEF BundleInv, JournalInv, ControlInv, AtMostOne, Sleeping, Early, Late, Tasks,
          LoaderRuns, Whole
<1>1. AtMostOne'
  BY DEF BundleInv, AtMostOne, Sleeping, Recovering, UploadErase, HttpGoes, HttpOnly,
         UpdateInv, UpdateTypes, HttpSet
<1>2. JournalInv'
  BY <1>5, <1>6, <1>7 DEF UploadErase
<1>3. ControlInv'
  BY <1>5, <1>6, <1>7 DEF UploadErase
<1>8. ServeInv'
  <2>1. http.at # "idle"
    BY DEF UploadErase
  <2>2. QED
    BY <1>4, <2>1, NotAtWork, ServeKept DEF BundleInv
<1>9. QED
  BY <1>1, <1>2, <1>3, <1>8 DEF BundleInv

\* The control image is stored; the journal stays erased.
LEMMA UploadControlBundle ==
    ASSUME UpdateInv, BundleInv, UploadControl
    PROVE  BundleInv'
<1>1. AtMostOne'
  BY DEF BundleInv, AtMostOne, Sleeping, Recovering, UploadControl, HttpGoes, HttpOnly
<1>2. JournalInv'
  BY DEF BundleInv, JournalInv, UploadControl, HttpGoes, HttpOnly
<1>3. ControlInv'
  BY DEF BundleInv, ControlInv, LoaderRuns, Whole, UploadControl, HttpOnly
<1>8. ServeInv'
  BY DEF BundleInv, ServeInv, AtWork, Served, JournalHeld, LoaderRuns, UploadControl, HttpOnly
<1>9. QED
  BY <1>1, <1>2, <1>3, <1>8 DEF BundleInv

\* The application is staged; the journal stays erased.
LEMMA UploadDataBundle ==
    ASSUME UpdateInv, BundleInv, UploadData
    PROVE  BundleInv'
<1>1. AtMostOne'
  BY DEF BundleInv, AtMostOne, Sleeping, Recovering, UploadData, HttpGoes, HttpOnly
<1>2. JournalInv'
  BY DEF BundleInv, JournalInv, UploadData, HttpGoes, HttpOnly
<1>3. ControlInv'
  BY DEF BundleInv, ControlInv, LoaderRuns, Whole, UploadData, HttpOnly
<1>8. ServeInv'
  BY DEF BundleInv, ServeInv, AtWork, Served, JournalHeld, LoaderRuns, UploadData, HttpOnly
<1>9. QED
  BY <1>1, <1>2, <1>3, <1>8 DEF BundleInv

\* A dry run is checked and leaves the journal erased.
LEMMA UploadDryBundle ==
    ASSUME UpdateInv, BundleInv, UploadDry
    PROVE  BundleInv'
<1>0. UpdateInv'
  BY UploadDryInv
<1>4. UNCHANGED <<flash, stm, loader>>
  BY DEF UploadDry
<1>6. /\ job'["resume"] = job["resume"]
      /\ job'["staged"].at = "usb" /\ job'["staged"].dry = job["staged"].dry
      /\ http'.at = "idle" /\ http.at = "check" /\ http.dry = TRUE
  BY DEF UpdateInv, UpdateTypes, Tasks, HttpIdle, Verified, UploadDry
<1>1. AtMostOne'
  BY <1>0
    DEF BundleInv, AtMostOne, Sleeping, Recovering, UploadDry, Verified, HttpIdle,
        UpdateInv, UpdateTypes
<1>2. JournalInv'
  BY <1>4, <1>6 DEF BundleInv, JournalInv, AtMostOne, Sleeping, Late, Tasks
<1>3. ControlInv'
  BY DEF BundleInv, ControlInv, LoaderRuns, Whole, UploadDry, Verified
<1>8. ServeInv'
  BY DEF BundleInv, ServeInv, AtWork, Served, JournalHeld, LoaderRuns, UploadDry, Verified
<1>9. QED
  BY <1>1, <1>2, <1>3, <1>8 DEF BundleInv

\* The journal is committed with the file just stored and checked.
LEMMA UploadCommitBundle ==
    ASSUME UpdateInv, BundleInv, UploadCommit
    PROVE  BundleInv'
<1>1. AtMostOne'
  BY DEF BundleInv, AtMostOne, Sleeping, Recovering, UploadCommit, Commit, Verified,
         HttpGoes, HttpOnly, UpdateInv, UpdateTypes, HttpSet
<1>2. JournalInv'
  BY DEF BundleInv, JournalInv, UploadCommit, Commit, Verified, HttpGoes, HttpOnly,
         UpdateInv, UpdateTypes, FlashSet, HttpSet
<1>3. ControlInv'
  BY DEF BundleInv, ControlInv, JournalInv, LoaderRuns, Whole, UploadCommit, Commit,
         Verified, HttpOnly, UpdateInv, UpdateTypes, FlashSet
<1>8. ServeInv'
  BY DEF BundleInv, ServeInv, AtWork, Served, JournalHeld, LoaderRuns, JournalInv,
     UploadCommit, Commit, Verified, HttpOnly, UpdateInv, UpdateTypes, FlashSet
<1>9. QED
  BY <1>1, <1>2, <1>3, <1>8 DEF BundleInv

\* The handler wakes its job, which has the journal from here on.
LEMMA UploadInstallBundle ==
    ASSUME UpdateInv, BundleInv, UploadInstall
    PROVE  BundleInv'
<1>0. UpdateInv'
  BY UploadInstallInv
<1>4. UNCHANGED <<flash, stm, loader>>
  BY DEF UploadInstall
<1>5. EspIs(esp', esp.power, esp.busy, 3, http.file.bundle, esp.portal, esp.ready)
  <2>1. esp \in EspSet /\ http.file.bundle \in Content
    BY FileFields DEF UpdateInv, UpdateTypes, HttpSet
  <2>2. QED
    BY <2>1, EspEnds DEF UploadInstall
<1>6. /\ job'["resume"] = job["resume"]
      /\ job'["staged"].at = "usb" /\ job'["staged"].dry = job["staged"].dry
      /\ http'.at = "idle" /\ http.at = "installing" /\ http.dry = FALSE
  BY DEF UpdateInv, UpdateTypes, Tasks, HttpIdle, BundleInv, JournalInv, UploadInstall
<1>7. http.file.bundle # Blank
  BY FileFields, Contents DEF UpdateInv, FileInv, UploadInstall
<1>1. AtMostOne'
  BY <1>0
    DEF BundleInv, AtMostOne, Sleeping, Recovering, UploadInstall, HttpIdle, UpdateInv,
        UpdateTypes
<1>2. JournalInv'
  BY <1>4, <1>5, <1>6, <1>7 DEF BundleInv, JournalInv, Late, Tasks, EspIs
<1>3. ControlInv'
  BY DEF BundleInv, ControlInv, LoaderRuns, Whole, UploadInstall, UpdateInv, FileInv
<1>8. ServeInv'
  BY DEF BundleInv, ServeInv, AtWork, Served, JournalHeld, LoaderRuns, UploadInstall,
     UpdateInv, FileInv
<1>9. QED
  BY <1>1, <1>2, <1>3, <1>8 DEF BundleInv

\* A failed upload ends with its sleeping job.
LEMMA UploadFailedBundle ==
    ASSUME UpdateInv, BundleInv, UploadFailed
    PROVE  BundleInv'
<1>4. job["resume"].at \in {"none", "wait"}
  BY NobodyBusy
    DEF UpdateInv, BundleInv, AtMostOne, Sleeping, Tasks, UploadFailed, Uploading
<1>5. /\ http.at # "idle" /\ http'.at = "idle" /\ http.at # "r_restart"
      /\ UNCHANGED <<flash, stm, loader>>
  BY DEF UploadFailed, Uploading, HttpIdle
<1>6. job'["staged"] = NoTask /\ job'["resume"] = job["resume"]
  BY DEF UpdateInv, UpdateTypes, Tasks, UploadFailed
<1>7. EspIs(esp', esp.power, FALSE, 5, esp.header, esp.portal, esp.ready)
  <2> DEFINE x == [esp EXCEPT !.phase = 5]
             y == [x EXCEPT !.busy = FALSE]
  <2>1. x \in EspSet /\ EspIs(x, esp.power, esp.busy, 5, esp.header, esp.portal, esp.ready)
    BY DEF UpdateInv, UpdateTypes, EspSet, EspIs
  <2>2. y \in EspSet /\ EspIs(y, esp.power, FALSE, 5, esp.header, esp.portal, esp.ready)
    <3> HIDE DEF x
    <3>1. QED
      BY <2>1 DEF EspSet, EspIs
  <2>3. esp' = [y EXCEPT !.entry = FALSE]
    BY DEF UploadFailed
  <2>4. QED
    <3> HIDE DEF y
    <3>1. QED
      BY <2>2, <2>3 DEF EspSet, EspIs
<1>1. AtMostOne'
  BY <1>4, <1>5, <1>6 DEF BundleInv, AtMostOne, Active, Sleeping, Tasks, NoTask
<1>2. JournalInv'
  BY <1>4, <1>5, <1>6, <1>7
    DEF BundleInv, JournalInv, AtMostOne, Active, Early, Late, Tasks, NoTask, EspIs
<1>3. ControlInv'
  BY <1>5, <1>7 DEF BundleInv, ControlInv, Whole, EspIs, UpdateInv, FileInv
<1>8. ServeInv'
  BY <1>5, <1>6, <1>7, NotAtWork, ServeKept DEF BundleInv, Tasks, NoTask, EspIs
<1>9. QED
  BY <1>1, <1>2, <1>3, <1>8 DEF BundleInv

\* The service OTA begins while nobody has the update.
LEMMA RecoveryEnterBundle ==
    ASSUME UpdateInv, BundleInv, RecoveryEnter
    PROVE  BundleInv'
<1>4. \A t \in Tasks : job[t].at \in {"none", "wait"}
  BY NobodyBusy DEF UpdateInv, BundleInv, Sleeping, RecoveryEnter, OtaInProgress
<1>1. AtMostOne'
  BY <1>4 DEF BundleInv, AtMostOne, Active, Sleeping, Tasks, RecoveryEnter, OtaInProgress
<1>2. JournalInv'
  BY DEF BundleInv, JournalInv, RecoveryEnter
<1>3. ControlInv'
  BY DEF BundleInv, ControlInv, AtMostOne, Active, LoaderRuns, Whole, RecoveryEnter,
         OtaInProgress
<1>8. ServeInv'
  BY DEF BundleInv, ServeInv, AtWork, Served, JournalHeld, LoaderRuns, AtMostOne, Active,
     RecoveryEnter, OtaInProgress
<1>9. QED
  BY <1>1, <1>2, <1>3, <1>8 DEF BundleInv

\* The service OTA discards the journal before it sets a trigger.
LEMMA RecoveryWriteBundle ==
    ASSUME UpdateInv, BundleInv, RecoveryWrite
    PROVE  BundleInv'
<1>4. UNCHANGED <<esp, job, stm, loader>>
  BY DEF RecoveryWrite, HttpOnly
<1>5. ASSUME http.at = "r_erase" PROVE JournalInv' /\ ControlInv'
  <2>2. /\ flash' = [flash EXCEPT !.data = Blank, !.trigger = Blank]
        /\ http' = [http EXCEPT !.at = "r_data"]
    BY <1>5 DEF RecoveryWrite, HttpGoes
  <2>3. /\ http'.at = "r_data" /\ http'.file = http.file /\ http'.dry = http.dry
    BY <2>2
  <2>4. /\ flash'.header = flash.header
        /\ flash'.packed = flash.packed
        /\ flash'.done = flash.done
        /\ flash'.trigger = Blank /\ flash'.app = flash.app
    BY <2>2
  <2>5. QED
    BY <2>3, <2>4, <1>4, <1>5 DEF BundleInv, JournalInv, ControlInv, LoaderRuns, Whole
<1>6. ASSUME http.at = "r_data" PROVE JournalInv' /\ ControlInv'
  <2>2. /\ flash' = [flash EXCEPT !.data = http.file.esp]
        /\ http' = [http EXCEPT !.at = "r_check"]
    BY <1>6 DEF RecoveryWrite, HttpGoes
  <2>3. /\ http'.at = "r_check" /\ http'.file = http.file /\ http'.dry = http.dry
    BY <2>2
  <2>4. /\ flash'.header = flash.header
        /\ flash'.packed = flash.packed
        /\ flash'.done = flash.done
        /\ flash'.trigger = flash.trigger /\ flash'.app = flash.app
    BY <2>2
  <2>5. QED
    BY <2>3, <2>4, <1>4, <1>6 DEF BundleInv, JournalInv, ControlInv, LoaderRuns, Whole
<1>7. ASSUME http.at = "r_check" PROVE JournalInv' /\ ControlInv'
  <2>1. flash \in FlashSet /\ http \in HttpSet
    BY DEF UpdateInv, UpdateTypes
  <2>2. /\ flash' = [flash EXCEPT !.header = Blank, !.packed = Blank, !.done = "ones"]
        /\ http' = [http EXCEPT !.at = "r_commit"]
    BY <1>7 DEF RecoveryWrite, HttpGoes
  <2>3. /\ http'.at = "r_commit" /\ http'.file = http.file /\ http'.dry = http.dry
    BY <2>2
  <2>4. flash'.header = Blank /\ flash'.packed = Blank /\ flash'.done = "ones"
        /\ flash'.trigger = flash.trigger /\ flash'.app = flash.app
    BY <2>1, <2>2, JournalErased
  <2>5. \A t \in Tasks : job[t].at \in {"none", "wait"}
    BY <1>7, NobodyBusy DEF UpdateInv, BundleInv, Sleeping
  <2>6. QED
    BY <2>3, <2>4, <2>5, <1>4, <1>7
      DEF BundleInv, JournalInv, ControlInv, Early, Late, Whole
<1>8. ASSUME http.at = "r_commit" PROVE JournalInv' /\ ControlInv'
  <2>2. /\ flash' = [flash EXCEPT !.trigger = http.file.bundle]
        /\ http' = [http EXCEPT !.at = "r_restart"]
    BY <1>8 DEF RecoveryWrite, HttpGoes
  <2>3. /\ http'.at = "r_restart" /\ http'.file = http.file /\ http'.dry = http.dry
    BY <2>2
  <2>4. /\ flash'.header = flash.header
        /\ flash'.packed = flash.packed
        /\ flash'.done = flash.done
        /\ flash'.app = flash.app
    BY <2>2
  <2>5. QED
    BY <2>3, <2>4, <1>4, <1>8
      DEF BundleInv, JournalInv, ControlInv, AtMostOne, Active, Early, Tasks, LoaderRuns,
          Whole
<1>1. AtMostOne'
  BY DEF BundleInv, AtMostOne, Sleeping, Recovering, RecoveryWrite, HttpGoes, HttpOnly,
         UpdateInv, UpdateTypes, HttpSet
<1>2. JournalInv'
  BY <1>5, <1>6, <1>7, <1>8 DEF RecoveryWrite
<1>3. ControlInv'
  BY <1>5, <1>6, <1>7, <1>8 DEF RecoveryWrite
<1>10. ServeInv'
  <2>1. http.at # "idle"
    BY DEF RecoveryWrite
  <2>2. QED
    BY <1>4, <2>1, NotAtWork, ServeKept DEF BundleInv
<1>9. QED
  BY <1>1, <1>2, <1>3, <1>10 DEF BundleInv

\* A failed service OTA has set no trigger.
LEMMA RecoveryFailedBundle ==
    ASSUME UpdateInv, BundleInv, RecoveryFailed
    PROVE  BundleInv'
<1>1. AtMostOne'
  BY DEF BundleInv, AtMostOne, Sleeping, Recovering, RecoveryFailed, HttpIdle
<1>2. JournalInv'
  BY DEF BundleInv, JournalInv, RecoveryFailed, HttpIdle
<1>3. ControlInv'
  BY DEF BundleInv, ControlInv, LoaderRuns, Whole, RecoveryFailed
<1>8. ServeInv'
  BY DEF BundleInv, ServeInv, AtWork, Served, JournalHeld, LoaderRuns, RecoveryFailed
<1>9. QED
  BY <1>1, <1>2, <1>3, <1>8 DEF BundleInv

\* A job waits for the tunnel to end, then prepares.
LEMMA JobUsbBundle ==
    ASSUME UpdateInv, BundleInv, NEW t \in Tasks, JobUsb(t)
    PROVE  BundleInv'
<1>1. /\ esp \in EspSet /\ job \in [Tasks -> TaskSet] /\ job[t].at = "usb"
      /\ UNCHANGED <<flash, http, stm, loader>>
  BY DEF UpdateInv, UpdateTypes, JobUsb
<1>2. PICK n \in {3, 5}, r \in {FALSE, esp.ready} :
        EspIs(esp', esp.power, esp.busy, n, esp.header, esp.portal, r)
  <2>1. CASE esp' = [esp EXCEPT !.phase = 5]
    <3>1. EspIs(esp', esp.power, esp.busy, 5, esp.header, esp.portal, esp.ready)
      BY <1>1, <2>1 DEF EspSet, EspIs
    <3>2. QED
      BY <3>1
  <2>2. CASE esp' = [esp EXCEPT !.ready = FALSE, !.phase = 3]
    <3> DEFINE x == [esp EXCEPT !.ready = FALSE]
    <3>1. x \in EspSet /\ EspIs(x, esp.power, esp.busy, esp.phase, esp.header, esp.portal, FALSE)
      BY <1>1 DEF EspSet, EspIs
    <3>2. esp' = [x EXCEPT !.phase = 3]
      BY <2>2
    <3> HIDE DEF x
    <3>3. EspIs(esp', esp.power, esp.busy, 3, esp.header, esp.portal, FALSE)
      BY <3>1, <3>2 DEF EspSet, EspIs
    <3>4. QED
      BY <3>3
  <2>3. QED
    BY <2>1, <2>2 DEF JobUsb, JobFails
<1>3. /\ job'[t].at \in {"prepare", "end", "release"} /\ job'[t].dry = job[t].dry
      /\ \A u \in Tasks : u # t => job'[u] = job[u]
  BY <1>1 DEF TaskSet, JobUsb, JobFails, JobGoes
<1>5. AtMostOne'
  BY <1>1, <1>2, <1>3, JobStays DEF UpdateInv, BundleInv, Active, EspIs
<1>6. JournalInv'
  BY <1>1, <1>2, <1>3 DEF BundleInv, JournalInv, Early, Late, EspIs
<1>7. ControlInv'
  <2>2. esp.power = "on"
    BY <1>1 DEF UpdateInv, FileInv
  <2>3. QED
    BY <1>1, <1>2, <2>2 DEF BundleInv, ControlInv, Whole, EspIs
<1>8. ServeInv'
  <2>1. \A u \in Tasks : job'[u].at = "serve" => job[u].at = "serve" /\ job'[u].dry = job[u].dry
    BY <1>3
  <2>2. QED
    BY <1>1, <1>2, <2>1, NotAtWork, ServeKept DEF BundleInv, EspIs
<1>9. QED
  BY <1>5, <1>6, <1>7, <1>8 DEF BundleInv

\* The STM32 is asked to prepare, and the job stays where it is.
LEMMA JobPrepareBundle ==
    ASSUME UpdateInv, BundleInv, NEW t \in Tasks, JobPrepare(t)
    PROVE  BundleInv'
<1>4. /\ job[t].at = "prepare" /\ UNCHANGED <<flash, http, loader>>
      /\ \A u \in Tasks : job'[u].at = job[u].at /\ job'[u].dry = job[u].dry
  BY DEF UpdateInv, UpdateTypes, TaskSet, JobPrepare
<1>5. /\ EspIs(esp', esp.power, esp.busy, esp.phase, esp.header, esp.portal, esp'.ready)
      /\ (esp'.ready => esp.ready) \/ stm.runs = "app"
  <2>1. CASE esp' = [esp EXCEPT !.ready = TRUE] /\ stm.runs = "app"
    BY <2>1 DEF UpdateInv, UpdateTypes, EspSet, EspIs
  <2>2. CASE esp' = esp
    BY <2>2 DEF EspIs
  <2>3. QED
    BY <2>1, <2>2 DEF JobPrepare, FramesRead
<1>6. stm'.runs = stm.runs /\ stm'.img = stm.img /\ stm'.marker = stm.marker
  BY DEF UpdateInv, UpdateTypes, StmSet, JobPrepare
<1>1. AtMostOne'
  BY <1>4, <1>5 DEF BundleInv, AtMostOne, Tasks, EspIs
<1>2. JournalInv'
  BY <1>4, <1>5 DEF BundleInv, JournalInv, EspIs
<1>3. ControlInv'
  <2>1. esp.power = "on"
    BY <1>4 DEF UpdateInv, FileInv
  <2>2. QED
    BY <1>4, <1>5, <1>6, <2>1 DEF BundleInv, ControlInv, Whole, EspIs
<1>8. ServeInv'
  <2>1. CASE stm.runs = "app"
    BY <1>6, <2>1 DEF ServeInv, AtWork, LoaderRuns
  <2>2. CASE esp'.ready => esp.ready
    BY <1>4, <1>6, <2>2, NotAtWork, ServeKept DEF BundleInv
  <2>3. QED
    BY <1>5, <2>1, <2>2
<1>9. QED
  BY <1>1, <1>2, <1>3, <1>8 DEF BundleInv

\* The STM32 does not answer, and the job gives up.
LEMMA JobUnpreparedBundle ==
    ASSUME UpdateInv, BundleInv, NEW t \in Tasks, JobUnprepared(t)
    PROVE  BundleInv'
<1>1. AtMostOne'
  BY DEF BundleInv, AtMostOne, Active, JobUnprepared, JobFails, JobGoes
<1>2. JournalInv'
  BY DEF BundleInv, JournalInv, Early, Late, JobUnprepared, JobFails, JobGoes
<1>3. ControlInv'
  BY DEF BundleInv, ControlInv, LoaderRuns, Whole, JobUnprepared, JobFails, UpdateInv,
         FileInv
<1>8. ServeInv'
  <2>1. job[t].at = "prepare" /\ job'[t].at \in {"end", "release"}
        /\ \A u \in Tasks : u # t => job'[u] = job[u]
    BY JobMoves DEF UpdateInv, JobUnprepared, JobFails
  <2>2. UNCHANGED <<stm, loader>> /\ esp'.ready = esp.ready
    BY DEF UpdateInv, UpdateTypes, EspSet, JobUnprepared, JobFails
  <2>3. \A u \in Tasks : job'[u].at = "serve" => job[u].at = "serve" /\ job'[u].dry = job[u].dry
    BY <2>1
  <2>4. QED
    BY <2>1, <2>2, <2>3, NotAtWork, ServeKept DEF BundleInv
<1>9. QED
  BY <1>1, <1>2, <1>3, <1>8 DEF BundleInv

\* The STM32 starts the RAM program for the bundle of the journal, or does not.
LEMMA JobExecBundle ==
    ASSUME UpdateInv, BundleInv, NEW t \in Tasks, JobExec(t)
    PROVE  BundleInv'
<1>1. /\ esp \in EspSet /\ stm \in StmSet /\ job \in [Tasks -> TaskSet]
      /\ job[t].at = "prepare" /\ UNCHANGED <<flash, http>>
  BY DEF UpdateInv, UpdateTypes, JobExec
<1>2. EspIs(esp', esp.power, esp.busy, esp.phase, esp.header, esp.portal, FALSE)
  <2>1. esp' = [esp EXCEPT !.ready = FALSE]
    BY DEF JobExec
  <2>2. QED
    BY <1>1, <2>1 DEF EspSet, EspIs
<1>3. /\ job'[t].at = "serve" /\ job'[t].dry = job[t].dry
      /\ \A u \in Tasks : u # t => job'[u] = job[u]
  BY <1>1 DEF JobExec, JobGoes
<1>4. http.at = "idle" /\ \A u \in Tasks : u # t => job[u].at \in {"none", "wait"}
  BY <1>1, JobIsAlone DEF UpdateInv, BundleInv, Active
<1>5. AtMostOne'
  BY <1>1, <1>2, <1>3, JobStays DEF UpdateInv, BundleInv, Active, EspIs
<1>6. JournalInv'
  BY <1>1, <1>2, <1>3 DEF BundleInv, JournalInv, Early, Late, EspIs
<1>7. ~LoaderRuns /\ esp.power = "on"
  BY <1>1 DEF BundleInv, ServeInv, JobExec, UpdateInv, FileInv
<1>8. CASE loader' = loader /\ (stm' = stm \/ stm' = [stm EXCEPT !.prepared = NoPrepare])
  <2>1. stm'.runs = stm.runs /\ stm'.img = stm.img /\ stm'.marker = stm.marker
    BY <1>1, <1>8, NoPrepareType, StmPrepares
  <2>2. ControlInv'
    BY <1>1, <1>2, <1>7, <1>8, <2>1 DEF BundleInv, ControlInv, Whole, EspIs
  <2>3. ServeInv'
    BY <1>7, <2>1 DEF ServeInv, AtWork, LoaderRuns
  <2>4. QED
    BY <1>5, <1>6, <2>2, <2>3 DEF BundleInv
<1>9. CASE /\ FramesRead /\ StmFree
           /\ stm' = [stm EXCEPT !.runs = "check", !.prepared = NoPrepare]
           /\ loader' = [target |-> esp.header, dry |-> job[t].dry, page |-> 1,
                         got |-> esp.header]
  <2>1. stm'.runs = "check" /\ stm'.img = stm.img /\ stm'.marker = stm.marker
    BY <1>1, <1>9, StmLaunch
  <2>2. stm.marker = "valid"
    BY <1>9, StmParts DEF UpdateInv, BootInv, FramesRead, StmFree, UpdateReady
  <2>3. /\ flash.done = "ones" /\ flash.trigger = Blank /\ esp.phase # 4
        /\ ~job[t].dry => esp.header = flash.header
    BY <1>1 DEF BundleInv, JournalInv, Early
  <2>4. loader'.target = esp.header /\ loader'.dry = job[t].dry
    BY <1>9
  <2>5. ControlInv'
    BY <1>1, <1>2, <1>7, <2>1, <2>2, <2>3 DEF BundleInv, ControlInv, Whole, EspIs
  <2>6. \A u \in Tasks : /\ job'[u].at \in {"none", "wait", "serve"}
                         /\ job'[u].at = "serve" => u = t
    BY <1>3, <1>4
  <2>7. JournalHeld'
    BY <1>1, <1>2, <1>3, <1>4, <2>3, <2>4, <2>6 DEF JournalHeld, EspIs
  <2>8. ServeInv'
    BY <1>2, <1>3, <2>4, <2>6, <2>7 DEF ServeInv, EspIs
  <2>9. QED
    BY <1>5, <1>6, <2>5, <2>8 DEF BundleInv
<1>10. QED
  BY <1>8, <1>9 DEF JobExec

\* The RAM program is done with this bundle, and the journal says so.
LEMMA JobInstalledBundle ==
    ASSUME UpdateInv, BundleInv, NEW t \in Tasks, JobInstalled(t)
    PROVE  BundleInv'
<1>1. AtMostOne'
  BY DEF BundleInv, AtMostOne, Active, Tasks, JobInstalled, JobFails, JobGoes, UpdateInv,
         UpdateTypes, EspSet, TaskSet
<1>2. JournalInv'
  BY DEF BundleInv, JournalInv, AtMostOne, Active, Early, Late, Tasks, JobInstalled,
         Installed, JobFails, JobGoes, UpdateInv, UpdateTypes, FlashSet, TaskSet
<1>3. ControlInv'
  BY DEF BundleInv, ControlInv, JournalInv, Early, LoaderRuns, Whole, JobInstalled,
         Installed, JobFails, UpdateInv, UpdateTypes, FlashSet, EspSet, FileInv
<1>8. ServeInv'
  BY DEF BundleInv, ServeInv, AtWork, Served, JournalHeld, LoaderRuns, JournalInv, Early,
     JobInstalled, Installed, JobFails, UpdateInv, UpdateTypes, FlashSet, EspSet, FileInv
<1>9. QED
  BY <1>1, <1>2, <1>3, <1>8 DEF BundleInv

\* A dry run or a failed one is over; the journal is as it was.
LEMMA JobServedBundle ==
    ASSUME UpdateInv, BundleInv, NEW t \in Tasks, JobServed(t)
    PROVE  BundleInv'
<1>1. AtMostOne'
  BY DEF BundleInv, AtMostOne, Active, Tasks, JobServed, JobFails, JobGoes, UpdateInv,
         UpdateTypes, EspSet, TaskSet
<1>2. JournalInv'
  BY DEF BundleInv, JournalInv, AtMostOne, Early, Late, Tasks, JobServed, JobFails, JobGoes,
         UpdateInv, UpdateTypes, TaskSet
<1>3. ControlInv'
  BY DEF BundleInv, ControlInv, LoaderRuns, Whole, JobServed, JobFails, UpdateInv,
         UpdateTypes, EspSet, FileInv
<1>8. ServeInv'
  <2>1. /\ job[t].at = "serve" /\ job'[t].at = IF job[t].dry THEN "end" ELSE "release"
        /\ \A u \in Tasks : u # t => job'[u] = job[u]
    BY JobMoves DEF UpdateInv, JobServed, JobFails
  <2>2. UNCHANGED <<flash, http, stm, loader>>
    BY DEF JobServed
  <2>3. esp'.ready = esp.ready /\ esp'.portal = esp.portal /\ esp'.phase \in {5, 6}
    BY DEF UpdateInv, UpdateTypes, EspSet, JobServed, JobFails
  <2>4. \A u \in Tasks : u # t => job[u].at \in {"none", "wait"}
    BY <2>1, JobIsAlone DEF UpdateInv, BundleInv, Active
  <2>5. ~Served'
    BY <2>1, <2>4 DEF Served
  <2>6. ASSUME AtWork' PROVE JournalHeld'
    <3>1. stm.runs \in {"mark", "erase", "vectors", "validate"} /\ AtWork /\ LoaderRuns /\ ~loader.dry
      BY <2>2, <2>5, <2>6 DEF AtWork, LoaderRuns, BundleInv, ControlInv
    <3>2. ~job[t].dry
      BY <2>1, <3>1 DEF BundleInv, ServeInv
    <3>3. QED
      BY <2>1, <2>2, <2>3, <2>4, <3>1, <3>2 DEF BundleInv, ServeInv, JournalHeld
  <2>7. \A u \in Tasks : job'[u].at # "serve"
    BY <2>1, <2>4
  <2>8. QED
    BY <2>2, <2>3, <2>6, <2>7 DEF BundleInv, ServeInv, LoaderRuns
<1>9. QED
  BY <1>1, <1>2, <1>3, <1>8 DEF BundleInv

\* The application is the bundle's, or is to be installed, or the update fails.
LEMMA JobFinishBundle ==
    ASSUME UpdateInv, BundleInv, NEW t \in Tasks, JobFinish(t)
    PROVE  BundleInv'
<1>1. AtMostOne'
  BY DEF BundleInv, AtMostOne, Active, Tasks, JobFinish, JobFails, JobGoes, UpdateInv,
         UpdateTypes, EspSet, TaskSet
<1>2. JournalInv'
  BY DEF BundleInv, JournalInv, AtMostOne, Early, Late, Tasks, JobFinish, JobFails, JobGoes,
         UpdateInv, UpdateTypes, FlashSet, EspSet, TaskSet
<1>3. ControlInv'
  BY DEF BundleInv, ControlInv, JournalInv, Late, LoaderRuns, Whole, JobFinish, JobFails,
         UpdateInv, UpdateTypes, FlashSet, EspSet, FileInv
<1>8. ServeInv'
  <2>1. job[t].at = "finish" /\ job'[t].at \in {"end", "release", "trigger"}
        /\ \A u \in Tasks : u # t => job'[u] = job[u]
    BY JobMoves DEF UpdateInv, JobFinish, JobFails
  <2>2. UNCHANGED <<stm, loader>> /\ esp'.ready = esp.ready
    BY DEF UpdateInv, UpdateTypes, EspSet, JobFinish, JobFails
  <2>3. \A u \in Tasks : job'[u].at = "serve" => job[u].at = "serve" /\ job'[u].dry = job[u].dry
    BY <2>1
  <2>4. QED
    BY <2>1, <2>2, <2>3, NotAtWork, ServeKept DEF BundleInv
<1>9. QED
  BY <1>1, <1>2, <1>3, <1>8 DEF BundleInv

\* The bootloader is given the bundle whose control side is installed.
LEMMA JobTriggerBundle ==
    ASSUME UpdateInv, BundleInv, NEW t \in Tasks, JobTrigger(t)
    PROVE  BundleInv'
<1>4. /\ job[t].at = "trigger" /\ UNCHANGED <<http, stm, loader>>
      /\ job'[t].at \in {"restart", "release", "end"} /\ job'[t].dry = job[t].dry
      /\ \A u \in Tasks : u # t => job'[u] = job[u]
  BY JobMoves DEF UpdateInv, JobTrigger, JobFails
<1>5. PICK n \in {esp.phase, 5} :
        EspIs(esp', esp.power, esp.busy, n, esp.header, esp.portal, esp.ready)
  BY DEF UpdateInv, UpdateTypes, EspSet, EspIs, JobTrigger, JobFails
<1>6. /\ flash'.header = flash.header /\ flash'.packed = flash.packed
      /\ flash'.done = flash.done /\ flash'.app = flash.app
      /\ flash'.trigger = flash.trigger \/ job'[t].at = "restart"
  BY <1>4, JobMoves DEF UpdateInv, UpdateTypes, FlashSet, JobTrigger
<1>7. http.at = "idle" /\ \A u \in Tasks : u # t => job[u].at \in {"none", "wait"}
  BY <1>4, JobIsAlone DEF UpdateInv, BundleInv, Active
<1>1. AtMostOne'
  BY <1>4, <1>5, JobStays DEF UpdateInv, BundleInv, Active, EspIs
<1>2. JournalInv'
  BY <1>4, <1>5, <1>6, <1>7 DEF BundleInv, JournalInv, Early, Late, EspIs
<1>3. ControlInv'
  BY <1>4, <1>5, <1>6
    DEF BundleInv, ControlInv, JournalInv, Late, Whole, EspIs, UpdateInv, FileInv
<1>8. ServeInv'
  <2>1. \A u \in Tasks : job'[u].at = "serve" => job[u].at = "serve" /\ job'[u].dry = job[u].dry
    BY <1>4
  <2>2. QED
    BY <1>4, <1>5, <2>1, NotAtWork, ServeKept DEF BundleInv, EspIs
<1>9. QED
  BY <1>1, <1>2, <1>3, <1>8 DEF BundleInv

\* A job that ends leaves the journal as it is.
LEMMA JobEndBundle ==
    ASSUME UpdateInv, BundleInv, NEW t \in Tasks, JobEnd(t)
    PROVE  BundleInv'
<1>1. AtMostOne'
  BY DEF BundleInv, AtMostOne, Active, Tasks, JobEnd, NoTask, UpdateInv, UpdateTypes
<1>2. JournalInv'
  BY DEF BundleInv, JournalInv, Early, Late, JobEnd, NoTask
<1>3. ControlInv'
  BY DEF BundleInv, ControlInv, LoaderRuns, Whole, JobEnd
<1>8. ServeInv'
  <2>1. /\ job[t].at = "end" /\ job'[t].at = "none"
        /\ \A u \in Tasks : u # t => job'[u] = job[u]
    BY DEF UpdateInv, UpdateTypes, NoTask, JobEnd
  <2>2. UNCHANGED <<stm, loader>> /\ esp'.ready = esp.ready
    BY DEF UpdateInv, UpdateTypes, EspSet, JobEnd
  <2>3. \A u \in Tasks : job'[u].at = "serve" => job[u].at = "serve" /\ job'[u].dry = job[u].dry
    BY <2>1
  <2>4. QED
    BY <2>1, <2>2, <2>3, NotAtWork, ServeKept DEF BundleInv
<1>9. QED
  BY <1>1, <1>2, <1>3, <1>8 DEF BundleInv

\* The resume has the journal and goes on as a job.
LEMMA ResumeInstallBundle ==
    ASSUME UpdateInv, BundleInv, ResumeInstall, ~spent'.raced
    PROVE  BundleInv'
<1>0. JournalStands /\ job["resume"].at = "wait" /\ esp.portal
  BY DEF ResumeInstall, UpdateInv, UpdateTypes, SpentSet
<1>4. \A t \in Tasks : job[t].at \in {"none", "wait"}
  BY <1>0, NobodyBusy DEF UpdateInv, BundleInv, JournalStands, Sleeping
<1>5. /\ UNCHANGED <<flash, http, stm, loader>> /\ http.at = "idle" /\ flash.done = "ones"
      /\ esp.header = flash.header /\ esp.header # Blank /\ esp.power = "on"
  BY <1>0, Contents DEF ResumeInstall, JournalStands, UpdateInv, FileInv, Waiting, Tasks
<1>6. /\ job'["resume"].at = "usb" /\ job'["resume"].dry = job["resume"].dry
      /\ job'["staged"] = job["staged"] /\ job["staged"].at = "none"
  BY <1>4, JobMoves DEF UpdateInv, BundleInv, AtMostOne, Tasks, ResumeInstall
<1>7. EspIs(esp', esp.power, TRUE, 3, esp.header, esp.portal, esp.ready)
  BY DEF UpdateInv, UpdateTypes, EspSet, EspIs, ResumeInstall
<1>1. AtMostOne'
  BY <1>5, <1>6, <1>7 DEF BundleInv, AtMostOne, Active, Sleeping, Tasks, EspIs
<1>2. JournalInv'
  BY <1>4, <1>5, <1>6, <1>7
    DEF BundleInv, JournalInv, AtMostOne, Early, Late, Tasks, EspIs
<1>3. ControlInv'
  BY <1>5, <1>7 DEF BundleInv, ControlInv, Whole, EspIs
<1>8. ServeInv'
  <2>1. ~AtWork
    BY <1>0, <1>4 DEF BundleInv, ServeInv, JournalHeld
  <2>2. \A u \in Tasks : job'[u].at # "serve"
    BY <1>6 DEF Tasks
  <2>3. QED
    BY <1>5, <1>7, <2>1, <2>2, ServeKept DEF BundleInv, EspIs
<1>9. QED
  BY <1>1, <1>2, <1>3, <1>8 DEF BundleInv

\* The portal does not come up, and the resume gives up.
LEMMA ResumeGivesUpBundle ==
    ASSUME UpdateInv, BundleInv, ResumeGivesUp
    PROVE  BundleInv'
<1>4. /\ job'["resume"].at = "none" /\ job'["resume"].dry = job["resume"].dry
      /\ job["resume"].at = "wait" /\ job'["staged"] = job["staged"]
      /\ UNCHANGED <<flash, http, stm, loader>>
  BY JobMoves DEF UpdateInv, ResumeGivesUp, Tasks
<1>5. EspIs(esp', esp.power, esp.busy, 5, esp.header, esp.portal, esp.ready)
  BY DEF UpdateInv, UpdateTypes, EspSet, EspIs, ResumeGivesUp
<1>1. AtMostOne'
  BY <1>4, <1>5 DEF BundleInv, AtMostOne, Active, Sleeping, Tasks, EspIs
<1>2. JournalInv'
  BY <1>4, <1>5 DEF BundleInv, JournalInv, Early, Late, Tasks, EspIs
<1>3. ControlInv'
  BY <1>4, <1>5 DEF BundleInv, ControlInv, Whole, EspIs, UpdateInv, FileInv, Tasks
<1>8. ServeInv'
  <2>1. ASSUME JournalHeld PROVE JournalHeld'
    BY <1>4, <1>5, <2>1 DEF JournalHeld, Tasks, EspIs
  <2>2. \A u \in Tasks : job'[u].at = "serve" => job[u].at = "serve" /\ job'[u].dry = job[u].dry
    BY <1>4 DEF Tasks
  <2>3. QED
    BY <1>4, <1>5, <2>1, <2>2, ServeKept DEF BundleInv, EspIs
<1>9. QED
  BY <1>1, <1>2, <1>3, <1>8 DEF BundleInv

\* The RAM program compares the STM32 with its target.
LEMMA LoaderCheckBundle ==
    ASSUME UpdateInv, BundleInv, LoaderCheck
    PROVE  BundleInv'
<1>1. /\ stm \in StmSet /\ loader \in LoaderSet /\ stm.runs = "check" /\ AtWork
      /\ stm.marker = "valid" /\ UNCHANGED <<flash, esp, http, job>>
  BY DEF UpdateInv, UpdateTypes, BundleInv, ControlInv, LoaderCheck, LoaderOnly, AtWork
<1>2. loader'.target = loader.target /\ loader'.dry = loader.dry
  <2>1. PICK p, g : loader' = [loader EXCEPT !.page = p, !.got = g]
    BY DEF LoaderCheck
  <2> DEFINE x == [loader EXCEPT !.page = p]
  <2>2. /\ DOMAIN x = {"target", "dry", "page", "got"}
        /\ x.target = loader.target /\ x.dry = loader.dry
    BY <1>1 DEF LoaderSet
  <2> HIDE DEF x
  <2>3. [x EXCEPT !.got = g].target = x.target /\ [x EXCEPT !.got = g].dry = x.dry
    BY <2>2
  <2>4. QED
    BY <2>1, <2>3 DEF x
<1>3. \/ stm' = stm
      \/ \E r \in {"failed", "verified"} : stm' = [stm EXCEPT !.runs = r]
      \/ ~loader.dry /\ Whole(loader.target) /\ stm' = [stm EXCEPT !.runs = "linger"]
      \/ ~loader.dry /\ stm' = [stm EXCEPT !.runs = "mark"]
  BY DEF LoaderCheck, Runs
<1>4. stm'.img = stm.img /\ stm'.marker = "valid"
  BY <1>1, <1>3, StmRuns DEF RunSet
<1>5. \/ stm'.runs \in {"check", "failed", "verified"}
      \/ stm'.runs = "linger" /\ Whole(loader.target)
      \/ stm'.runs = "mark" /\ ~loader.dry
  BY <1>1, <1>3, StmRuns DEF RunSet
<1>6. QED
  BY <1>1, <1>2, <1>4, <1>5, LoaderGoesOn DEF Whole

\* A RAM program that nobody serves has failed.
LEMMA LoaderUnservedBundle ==
    ASSUME UpdateInv, BundleInv, LoaderUnserved
    PROVE  BundleInv'
<1>1. AtMostOne'
  BY DEF BundleInv, AtMostOne, LoaderUnserved, LoaderOnly
<1>2. JournalInv'
  BY DEF BundleInv, JournalInv, LoaderUnserved, LoaderOnly
<1>3. ControlInv'
  <2>1. stm'.runs = "failed" /\ stm'.img = stm.img /\ stm'.marker = stm.marker
    BY StmParts, StmRuns DEF LoaderUnserved, Runs, RunSet
  <2>2. QED
    BY <2>1 DEF BundleInv, ControlInv, Whole, LoaderUnserved, LoaderOnly
<1>8. ServeInv'
  BY DEF BundleInv, ServeInv, AtWork, Served, JournalHeld, LoaderRuns, LoaderUnserved,
     LoaderOnly, Runs
<1>9. QED
  BY <1>1, <1>2, <1>3, <1>8 DEF BundleInv

\* The bootloader's mark is set to downloading before a page is touched.
LEMMA LoaderMarkBundle ==
    ASSUME UpdateInv, BundleInv, LoaderMark
    PROVE  BundleInv'
<1>1. /\ stm \in StmSet /\ stm.runs = "mark" /\ AtWork /\ ~loader.dry
      /\ UNCHANGED <<flash, esp, http, job, loader>>
  BY DEF UpdateInv, UpdateTypes, BundleInv, ControlInv, LoaderMark, LoaderOnly, AtWork
<1>2. \/ stm' = [stm EXCEPT !.marker = "blank"]
      \/ stm' = [stm EXCEPT !.marker = "downloading", !.runs = "erase"]
  BY DEF LoaderMark, BootState
<1>3. CASE stm' = [stm EXCEPT !.marker = "blank"]
  <2>1. stm'.runs = "mark"
    BY <1>1, <1>3
  <2>2. QED
    BY <1>1, <2>1, LoaderGoesOn
<1>4. CASE stm' = [stm EXCEPT !.marker = "downloading", !.runs = "erase"]
  <2>1. stm'.runs = "erase" /\ stm'.marker = "downloading" /\ stm'.img = stm.img
    BY <1>1, <1>4, StmMarks DEF RunSet
  <2>2. QED
    BY <1>1, <2>1, LoaderGoesOn
<1>5. QED
  BY <1>2, <1>3, <1>4

\* A page is erased under the mark.
LEMMA LoaderEraseBundle ==
    ASSUME UpdateInv, BundleInv, LoaderErase
    PROVE  BundleInv'
<1>1. AtMostOne'
  BY DEF BundleInv, AtMostOne, LoaderErase, LoaderOnly
<1>2. JournalInv'
  BY DEF BundleInv, JournalInv, LoaderErase, LoaderOnly
<1>3. ControlInv'
  BY DEF BundleInv, ControlInv, ServeInv, AtWork, JournalHeld, LoaderErase, LoaderOnly
<1>8. ServeInv'
  BY DEF BundleInv, ServeInv, AtWork, Served, JournalHeld, LoaderRuns, LoaderErase, LoaderOnly
<1>9. QED
  BY <1>1, <1>2, <1>3, <1>8 DEF BundleInv

\* A page is written under the mark.
LEMMA LoaderWriteBundle ==
    ASSUME UpdateInv, BundleInv, LoaderWrite
    PROVE  BundleInv'
<1>1. AtMostOne'
  BY DEF BundleInv, AtMostOne, LoaderWrite, LoaderOnly
<1>2. JournalInv'
  BY DEF BundleInv, JournalInv, LoaderWrite, LoaderOnly
<1>3. ControlInv'
  BY DEF BundleInv, ControlInv, ServeInv, AtWork, JournalHeld, LoaderWrite, LoaderOnly
<1>8. ServeInv'
  BY DEF BundleInv, ServeInv, AtWork, Served, JournalHeld, LoaderRuns, LoaderWrite, LoaderOnly
<1>9. QED
  BY <1>1, <1>2, <1>3, <1>8 DEF BundleInv

\* The vector table is the last part of the image.
LEMMA LoaderVectorsBundle ==
    ASSUME UpdateInv, BundleInv, LoaderVectors
    PROVE  BundleInv'
<1>1. /\ stm \in StmSet /\ stm.runs = "vectors" /\ AtWork /\ ~loader.dry
      /\ UNCHANGED <<flash, esp, http, job, loader>>
  BY DEF UpdateInv, UpdateTypes, BundleInv, ControlInv, LoaderVectors, LoaderOnly,
         AtWork
<1>2. PICK r \in {"validate", "failed"} :
        stm' = Written([stm.img EXCEPT ![0] = loader.target], r)
  BY DEF LoaderVectors, Written
<1>3. stm'.runs = r
  <2>1. loader.target \in Content /\ stm.img \in [0 .. Pages -> Content]
    BY DEF UpdateInv, UpdateTypes, StmSet, LoaderSet
  <2>2. r \in RunSet /\ [stm.img EXCEPT ![0] = loader.target] \in [0 .. Pages -> Content]
    BY <2>1 DEF RunSet
  <2>3. QED
    BY <1>1, <1>2, <2>2, StmWrites
<1>4. QED
  BY <1>1, <1>3, LoaderGoesOn

\* The mark becomes valid on the whole image of the target.
LEMMA LoaderValidateBundle ==
    ASSUME UpdateInv, BundleInv, LoaderValidate
    PROVE  BundleInv'
<1>1. /\ stm \in StmSet /\ stm.runs = "validate" /\ AtWork /\ ~loader.dry
      /\ UNCHANGED <<flash, esp, http, job, loader>>
  BY DEF UpdateInv, UpdateTypes, BundleInv, ControlInv, LoaderValidate, LoaderOnly,
         AtWork
<1>2. \/ stm' = [stm EXCEPT !.marker = "blank"]
      \/ stm' = [stm EXCEPT !.marker = "valid", !.runs = "linger"]
  BY DEF LoaderValidate, BootState
<1>3. CASE stm' = [stm EXCEPT !.marker = "blank"]
  <2>1. stm'.runs = "validate"
    BY <1>1, <1>3
  <2>2. QED
    BY <1>1, <2>1, LoaderGoesOn
<1>4. CASE stm' = [stm EXCEPT !.marker = "valid", !.runs = "linger"]
  <2>1. stm'.runs = "linger" /\ stm'.marker = "valid" /\ stm'.img = stm.img
    BY <1>1, <1>4, StmMarks DEF RunSet
  <2>2. Whole(loader.target)'
    BY <1>1, <2>1 DEF UpdateInv, BootInv, Whole
  <2>3. QED
    BY <1>1, <2>1, <2>2, LoaderGoesOn
<1>5. QED
  BY <1>2, <1>3, <1>4

\* An error of the RAM program leaves the mark as it is.
LEMMA LoaderErrorBundle ==
    ASSUME UpdateInv, BundleInv, LoaderError
    PROVE  BundleInv'
<1>1. AtMostOne'
  BY DEF BundleInv, AtMostOne, LoaderError
<1>2. JournalInv'
  BY DEF BundleInv, JournalInv, LoaderError
<1>3. ControlInv'
  <2>1. stm'.runs = "failed" /\ stm'.img = stm.img /\ stm'.marker = stm.marker
    BY StmParts, StmRuns DEF LoaderError, Runs, RunSet
  <2>2. QED
    BY <2>1 DEF BundleInv, ControlInv, Whole, LoaderError
<1>8. ServeInv'
  BY DEF BundleInv, ServeInv, AtWork, Served, JournalHeld, LoaderRuns, LoaderError, Runs
<1>9. QED
  BY <1>1, <1>2, <1>3, <1>8 DEF BundleInv

\* The ESP8684 loses its power or restarts, wherever the update is.
LEMMA GoneBundle ==
    ASSUME UpdateInv, BundleInv,
           \/ EspPowerOff \/ StmGivesUp \/ EspRestart
           \/ RecoveryRestart \/ \E t \in Tasks : JobRestart(t)
    PROVE  BundleInv'
<1>1. CASE EspPowerOff \/ StmGivesUp
  <2>1. EspGone("off") /\ UNCHANGED <<flash, loader>>
    BY <1>1 DEF EspPowerOff, StmGivesUp
  <2>2. stm'.runs = stm.runs /\ stm'.img = stm.img /\ stm'.marker = stm.marker
    BY <1>1 DEF UpdateInv, UpdateTypes, StmSet, EspPowerOff, StmGivesUp
  <2>3. QED
    BY <2>1, <2>2, EspGoneBundle
<1>2. CASE EspRestart
  <2>1. stm.runs # "dfu"
    BY <1>2 DEF EspRestart, BundleInv, ControlInv
  <2>2. QED
    BY <1>2, <2>1, EspGoneBundle DEF EspRestart
<1>3. CASE RecoveryRestart \/ \E t \in Tasks : JobRestart(t)
  <2>1. esp.power = "on"
    BY <1>3 DEF RecoveryRestart, JobRestart, UpdateInv, FileInv
  <2>2. stm.runs # "dfu"
    BY <2>1 DEF BundleInv, ControlInv
  <2>3. EspGone("boot") /\ UNCHANGED <<flash, stm, loader>>
    BY <1>3 DEF RecoveryRestart, JobRestart
  <2>4. QED
    BY <2>2, <2>3, EspGoneBundle
<1>4. QED
  BY <1>1, <1>2, <1>3

\* A job releases the STM32: both restart, or the job is at its end.
LEMMA JobReleaseBundle ==
    ASSUME UpdateInv, BundleInv, NEW t \in Tasks, JobRelease(t)
    PROVE  BundleInv'
<1>1. CASE BothReset
  BY <1>1, BothResetBundle
<1>2. CASE JobGoes(t, "end") /\ UNCHANGED <<flash, esp, http, stm, loader>>
  <2>1. /\ job[t].at = "release" /\ job'[t].at = "end" /\ job'[t].dry = job[t].dry
        /\ \A u \in Tasks : u # t => job'[u] = job[u]
    BY <1>2 DEF UpdateInv, UpdateTypes, JobRelease, JobGoes
  <2>2. AtMostOne'
    BY <1>2, <2>1 DEF BundleInv, AtMostOne, Active, Tasks
  <2>3. JournalInv'
    BY <1>2, <2>1 DEF BundleInv, JournalInv, Early, Late
  <2>4. ControlInv'
    BY <1>2, <2>1 DEF BundleInv, ControlInv, LoaderRuns, Whole
  <2>5. ~AtWork
    <3>1. \A u \in Tasks : job[u].at # "serve"
      BY <2>1, JobIsAlone DEF UpdateInv, BundleInv, Active
    <3>2. QED
      BY <3>1 DEF AtWork, Served, JobRelease
  <2>6. ServeInv'
    BY <1>2, <2>1, <2>5, ServeKept DEF BundleInv
  <2>7. QED
    BY <2>2, <2>3, <2>4, <2>6 DEF BundleInv
<1>3. QED
  BY <1>1, <1>2 DEF JobRelease

\* The program starts with no update under way.
LEMMA BundleInit == Init => BundleInv
<1> SUFFICES ASSUME Init PROVE BundleInv
  OBVIOUS
<1>1. AtMostOne
  BY DEF Init, AtMostOne, Active, Sleeping, Tasks, HttpIdle, NoJob, NoTask
<1>2. JournalInv
  BY DEF Init, JournalInv, Early, Late, HttpIdle, NoJob, NoTask
<1>3. ControlInv
  BY DEF Init, ControlInv, LoaderRuns, EspReset
<1>4. ServeInv
  BY DEF Init, ServeInv, AtWork, LoaderRuns
<1>5. QED
  BY <1>1, <1>2, <1>3, <1>4 DEF BundleInv

\* Every step keeps the journal and its users in order.
LEMMA BundleNext ==
    ASSUME UpdateInv, BundleInv, [Next]_vars, ~spent'.raced
    PROVE  BundleInv'
<1>1. CASE UNCHANGED vars
  BY <1>1, BundleKept DEF vars, updateVars, EspIs
<1>2. CASE BootStep
  BY <1>2, EspPowerOnBundle, BootEraseBundle, BootReplaceBundle, BootAppBundle
    DEF BootStep
<1>3. CASE UploadStep
  BY <1>3, UploadEnterBundle, UploadHeaderBundle, UploadEraseBundle, UploadControlBundle,
     UploadDataBundle, UploadDryBundle, UploadCommitBundle, UploadInstallBundle,
     UploadFailedBundle, RecoveryEnterBundle, RecoveryWriteBundle, RecoveryFailedBundle,
     GoneBundle
    DEF UploadStep
<1>4. CASE RadioStep
  BY <1>4, RadioBundle, MgrStopBundle, PortalStartBundle, GoneBundle DEF RadioStep
<1>5. CASE UsbStep
  <2>1. UNCHANGED <<flash, esp, http, job, stm, loader>>
    BY <1>5 DEF UsbStep, updateVars
  <2>2. QED
    BY <2>1, BundleKept DEF EspIs
<1>6. CASE ResumeStep
  BY <1>6, ResumeInstallBundle, ResumeGivesUpBundle DEF ResumeStep
<1>7. CASE LoaderStep
  BY <1>7, LoaderCheckBundle, LoaderUnservedBundle, LoaderMarkBundle, LoaderEraseBundle,
     LoaderWriteBundle, LoaderVectorsBundle, LoaderValidateBundle, BothResetBundle
    DEF LoaderStep, LoaderStops
<1>8. ASSUME NEW t \in Tasks, JobStep(t) PROVE BundleInv'
  BY <1>8, JobUsbBundle, JobPrepareBundle, JobUnpreparedBundle, JobExecBundle,
     JobInstalledBundle, JobServedBundle, JobFinishBundle, JobTriggerBundle, GoneBundle,
     JobReleaseBundle, JobEndBundle
    DEF JobStep
<1>9. CASE PowerLoss \/ EspPowerOff \/ EspRestart \/ LoaderError \/ UsbRepair
  BY <1>9, BothResetBundle, GoneBundle, LoaderErrorBundle, UsbRepairBundle DEF PowerLoss
<1>10. QED
  BY <1>1, <1>2, <1>3, <1>4, <1>5, <1>6, <1>7, <1>8, <1>9 DEF Next


(* Once a resume has raced, it stays on record.                              *)
LEMMA RacedStays ==
    ASSUME UpdateInv, spent.raced, [Next]_vars
    PROVE  spent'.raced
<1>1. spent \in SpentSet
  BY DEF UpdateInv, UpdateTypes
<1>2. CASE spent' = spent
  BY <1>2
<1>3. CASE Event \/ spent' = [spent EXCEPT !.uploads = @ + 1]
  BY <1>1, <1>3 DEF Event, SpentSet
<1>4. CASE \E b \in BOOLEAN : spent' = [spent EXCEPT !.events = @ + 1, !.lone = b]
  BY <1>1, <1>4 DEF SpentSet
<1>5. CASE spent' = [spent EXCEPT !.events = @ + 1, !.raced = TRUE]
  BY <1>1, <1>5 DEF SpentSet
<1> DEFINE Counted ==
      \/ spent' = spent \/ Event \/ spent' = [spent EXCEPT !.uploads = @ + 1]
      \/ \E b \in BOOLEAN : spent' = [spent EXCEPT !.events = @ + 1, !.lone = b]
      \/ spent' = [spent EXCEPT !.events = @ + 1, !.raced = TRUE]
<1>6. ASSUME BootStep \/ UploadStep \/ UNCHANGED vars PROVE Counted
  BY <1>6 DEF BootStep, EspPowerOn, BootErase, BootReplace, BootApp, UploadStep, UploadEnter,
     UploadHeader, UploadErase, UploadControl, UploadData, UploadDry, UploadCommit, Commit,
     UploadInstall, UploadFailed, RecoveryEnter, RecoveryWrite, RecoveryFailed, RecoveryRestart,
     HttpOnly, vars, updateVars
<1>7. ASSUME RadioStep \/ UsbStep \/ ResumeStep PROVE Counted
  BY <1>7 DEF RadioStep, StmCommand, StmSendCommand, StmGivesUp, HoldExpires, ScanRequest,
     MgrAnnounce, MgrTake, MgrStop, MgrFinish, PortalStart, PrepareExpires, UsbStep, ResumeStep,
     ResumeInstall, ResumeGivesUp, updateVars
<1>8. ASSUME LoaderStep PROVE Counted
  BY <1>8 DEF LoaderStep, LoaderCheck, LoaderUnserved, LoaderMark, LoaderErase, LoaderWrite,
     LoaderVectors, LoaderValidate, LoaderStops, LoaderOnly
<1>9. ASSUME NEW t \in Tasks, JobStep(t) PROVE Counted
  BY <1>9 DEF JobStep, JobUsb, JobPrepare, JobUnprepared, JobExec, JobInstalled, JobServed,
     JobFinish, JobTrigger, JobRestart, JobRelease, JobEnd
<1>10. ASSUME PowerLoss \/ EspPowerOff \/ EspRestart \/ LoaderError \/ UsbRepair PROVE Counted
  <2>1. spent.lone \/ Stranded \in BOOLEAN
    BY <1>1 DEF SpentSet, Stranded
  <2>2. QED
    BY <1>1, <1>10, <2>1
      DEF PowerLoss, EspPowerOff, EspRestart, LoaderError, UsbRepair, SpentSet
<1>11. QED
  BY <1>2, <1>3, <1>4, <1>5, <1>6, <1>7, <1>8, <1>9, <1>10 DEF Next

\* The invariant says what OneBundle asks.
LEMMA BundleInvOneBundle ==
    ASSUME UpdateInv, BundleInv
    PROVE  OneBundle
<1>1. ASSUME Writing
      PROVE  loader.target = flash.header /\ loader.target = flash.packed
  <2>1. AtWork /\ LoaderRuns /\ ~loader.dry
    BY <1>1 DEF Writing, AtWork, LoaderRuns, BundleInv, ControlInv
  <2>2. loader.target = flash.header /\ loader.target \in Images
    BY <2>1 DEF BundleInv, ServeInv, JournalHeld, UpdateInv, BootInv
  <2>3. QED
    BY <2>2, Contents DEF BundleInv, JournalInv
<1>2. QED
  BY <1>1 DEF BundleInv, ControlInv, OneBundle

(* The two halves of an update belong together, as bundle_update.c journals  *)
(* it: the STM32 is only written while the journal holds that bundle; the    *)
(* control side counts as installed, and the bootloader of the ESP8684 is    *)
(* given its header, only with that image whole in the STM32; and an update  *)
(* is complete only with both applications of one bundle: until a resume     *)
(* begins its install beside an upload or a service OTA, or after one.       *)
THEOREM OneBundleAlways == Spec => []OneBundle
<1>1. Init => spent.raced \/ BundleInv
  BY BundleInit
<1>2. UpdateIInv /\ (spent.raced \/ BundleInv) /\ [Next]_vars => (spent.raced \/ BundleInv)'
  BY BundleNext, RacedStays DEF UpdateIInv
<1>3. UpdateIInv /\ (spent.raced \/ BundleInv) => OneBundle
  BY BundleInvOneBundle DEF UpdateIInv, OneBundle
<1>4. QED
  BY <1>1, <1>2, <1>3, UpdateIInvHolds, PTL DEF Spec

=============================================================================
