---------------------------- MODULE CompanionLink ----------------------------
(***************************************************************************)
(* One Bluetooth command travelling from the STM32 to the ESP8684 and its  *)
(* result travelling back: the job state, the READY/HELLO handshake and    *)
(* the power control of src/stm32/esp_companion.cpp, the loop that drives  *)
(* them (serviceCompanion in src/stm32/stm32.ino), the UART between the    *)
(* boards, and the receive task and radio manager of                       *)
(* src/esp8684/main/app_main.c.                                            *)
(*                                                                         *)
(* The STM32 is one loop, cut where it reads the UART: "app" (the loop may *)
(* collect a result or start a job), "read" (first readEspFrames) and      *)
(* "link" (second readEspFrames, then handshake and sending).  The ESP has *)
(* two tasks: the UART receive task, which is busy while a reply of its    *)
(* waits for the transmit lock, and the manager.                           *)
(* A UART frame is delivered in order or lost (CRC, ring overrun); sending *)
(* one is the step in which its last byte arrives.                         *)
(***************************************************************************)
EXTENDS Naturals, Sequences, FiniteSets

CONSTANTS
    HelloMaxAttempts,   \* HELLO_MAX_ATTEMPTS
    MaxLinkFailures,    \* MAX_VICTRON_LINK_FAILURES
    PreDelivery,        \* VICTRON_PRE_DELIVERY_TIMEOUT_MS, in ticks
    DeliveryTimeout,    \* VICTRON_DELIVERY_TIMEOUT_MS, in ticks
    JobTimeout,         \* VICTRON_JOB_TIMEOUT_MS, in ticks
    OtaHold,            \* the 600 s firmware-update hold, in ticks
    RefusedIds,         \* the commands whose settings the ESP finds invalid
    UartCapacity,       \* bound: frames unread in one direction
    MaxId,              \* the last identifier before the counter wraps, 0x7FFF
    MaxAllocations,     \* bound: request identifiers handed out
    MaxJobs,            \* bound: jobs requested
    MaxRestarts,        \* bound: spontaneous restarts of the ESP
    MaxUploads          \* bound: firmware uploads

ASSUME LimitsAssumption ==
    /\ HelloMaxAttempts \in Nat \ {0} /\ MaxLinkFailures \in Nat \ {0}
    /\ PreDelivery \in Nat \ {0} /\ DeliveryTimeout \in Nat \ {0}
    /\ JobTimeout \in Nat \ {0} /\ OtaHold \in Nat \ {0}

ASSUME BoundsAssumption ==
    /\ UartCapacity \in Nat \ {0} /\ MaxJobs \in Nat
    /\ MaxId \in Nat \ {0} /\ RefusedIds \subseteq 1..MaxId /\ MaxAllocations \in Nat
    /\ MaxRestarts \in Nat /\ MaxUploads \in Nat

VARIABLES
    pc,             \* where the STM32 loop is
    desiredPortal,  \* WiFi wanted (or a scan held): power is wanted without a job
    bleBusy,        \* stm32.ino: a command was handed to the companion
    link,           \* powered, ready, helloId, helloAttempts, nextRequestId
    job,            \* the victron* variables of esp_companion.cpp
    clock,          \* of a job in progress: ticks since it was activated, first
                    \* sent, and first accepted
    otaHold,        \* ticks left of otaHoldUntil
    victronResult,  \* NoResult unless victronResultReady
    toEsp, toStm,   \* frames on the UART
    esp,            \* the state of the ESP application
    history         \* auxiliary: what happened, for the properties; finishedOk:
                    \* what was completed since the job was first sent

stmVars == <<pc, desiredPortal, bleBusy, link, job, clock, otaHold, victronResult>>
vars == <<stmVars, toEsp, toStm, esp, history>>

-----------------------------------------------------------------------------
(* Frames.  Identifiers start at 1; 0 marks "none", as in the code.        *)

ResultCodes == {"ok", "fail", "bad_settings", "busy"}
Timeout == "companion_timeout"
NoResult == "none"

Ids == 1..MaxId

(* The session of READY and HELLO_ACK (how often the ESP had restarted) is  *)
(* auxiliary: the real frames do not carry it and no handler reads it.     *)
Sessions == 0..MaxRestarts

Frame(type, id, code, session) ==
    [type |-> type, id |-> id, code |-> code, session |-> session]
Hello(id)       == Frame("HELLO", id, NoResult, 0)
LoadSet(id)     == Frame("VICTRON_LOAD_SET", id, NoResult, 0)
Ready(s)        == Frame("READY", 0, NoResult, s)
HelloAck(id, s) == Frame("HELLO_ACK", id, NoResult, s)
Accepted(id)    == Frame("VICTRON_ACCEPTED", id, NoResult, 0)
Result(id, c)   == Frame("VICTRON_RESULT", id, c, 0)
OtaState(on)    == Frame("OTA_STATE", IF on THEN 1 ELSE 0, NoResult, 0)

EspFrames == {Hello(i) : i \in Ids} \cup {LoadSet(i) : i \in Ids}
Replies   == {HelloAck(i, s) : i \in Ids, s \in Sessions}
             \cup {Accepted(i) : i \in Ids}
             \cup {Result(i, c) : i \in Ids, c \in ResultCodes}
StmFrames == Replies \cup {Ready(s) : s \in Sessions}
             \cup {OtaState(TRUE), OtaState(FALSE)}

NoReply == Frame("none", 0, NoResult, 0)

(* allocateRequestId: the identifier handed out when the counter stands at  *)
(* n.  The counter itself is then one more.                                *)
Allocated(n) == IF n > MaxId THEN 1 ELSE n

(* What a line may hold after a frame is sent: the frame arrives behind the *)
(* others, or is lost on the wire or because the receive ring is full.      *)
Put(line, f) ==
    {line} \cup (IF Len(line) < UartCapacity THEN {Append(line, f)} ELSE {})

-----------------------------------------------------------------------------
(* Initial values and resets.                                              *)

IdleJob(id, failures) ==
    [pending |-> FALSE, deliveryStarted |-> FALSE, requestPending |-> FALSE,
     requestId |-> id, accepted |-> FALSE, everAccepted |-> FALSE,
     linkFailures |-> failures]

ZeroClock == [activated |-> 0, delivery |-> 0, job |-> 0]

FreshEsp ==
    [helloSeen |-> FALSE, reply |-> NoReply, manager |-> "idle",
     outgoing |-> NoReply,
     requestActive |-> FALSE, workPending |-> FALSE, requestId |-> 0,
     cacheId |-> 0, cacheCode |-> NoResult, restart |-> FALSE,
     otaBusy |-> FALSE]

Init ==
    /\ pc = "app"
    /\ desiredPortal \in BOOLEAN
    /\ bleBusy = FALSE
    /\ link = [powered |-> FALSE, ready |-> FALSE, helloId |-> 0,
               helloAttempts |-> 0, nextRequestId |-> 1]
    /\ job = IdleJob(0, 0)
    /\ clock = ZeroClock
    /\ otaHold = 0
    /\ victronResult = NoResult
    /\ toEsp = <<>> /\ toStm = <<>>
    /\ esp = FreshEsp
    /\ history = [jobs |-> 0, restarts |-> 0, uploads |-> 0, allocations |-> 0,
                  held |-> FALSE, started |-> {}, finishedOk |-> {},
                  ackSession |-> 0]

-----------------------------------------------------------------------------
(* STM32: the loop.                                                        *)

(* finishVictron: the job is over and its result waits to be taken.        *)
Finish(j, code) ==
    /\ job' = [j EXCEPT !.pending = FALSE, !.requestPending = FALSE,
                        !.accepted = FALSE]
    /\ victronResult' = code
    /\ clock' = ZeroClock

(* powerEspOff: the ESP loses its state, and what it had not yet received. *)
(* What it sent stays in the STM32 receive ring until powerEspOn drains it.*)
PowerOff(l) == [l EXCEPT !.powered = FALSE, !.ready = FALSE]

EspLost ==
    /\ esp' = FreshEsp
    /\ toEsp' = <<>>
    /\ history' = [history EXCEPT !.started = {}]

(* companionTakeVictronResult ends every pass: a result is collected before *)
(* the loop does anything else.                                            *)
TakeResult ==
    /\ pc = "app" /\ victronResult # NoResult
    /\ bleBusy' = FALSE
    /\ victronResult' = NoResult
    /\ UNCHANGED <<pc, desiredPortal, link, job, clock, otaHold, toEsp, toStm,
                   esp, history>>

StartPass == pc = "app" /\ victronResult = NoResult /\ pc' = "read"

(* A pass of the loop in which nothing new is asked of the companion.      *)
LoopPass ==
    /\ StartPass
    /\ UNCHANGED <<desiredPortal, bleBusy, link, job, clock, otaHold,
                   victronResult, toEsp, toStm, esp, history>>

(* The WiFi demand changes (wifiWanted, companionSetDemand).               *)
LoopDemand ==
    /\ StartPass
    /\ desiredPortal' = ~desiredPortal
    /\ UNCHANGED <<bleBusy, link, job, clock, otaHold, victronResult, toEsp,
                   toStm, esp, history>>

(* Time passes between two passes: millis() moves by one tick.  A clock     *)
(* stops at ClockMax, a bound later than every deadline.                   *)
ClockMax == PreDelivery + DeliveryTimeout + JobTimeout + 1

Later(ticks) == IF ticks < ClockMax THEN ticks + 1 ELSE ticks

LoopTick ==
    /\ StartPass
    /\ clock' = IF job.pending
                THEN [activated |-> Later(clock.activated),
                      delivery  |-> IF job.deliveryStarted
                                    THEN Later(clock.delivery) ELSE 0,
                      job       |-> IF job.everAccepted
                                    THEN Later(clock.job) ELSE 0]
                ELSE ZeroClock
    /\ otaHold' = IF otaHold = 0 THEN 0 ELSE otaHold - 1
    /\ history' = [history EXCEPT !.held = @ \/ (job.pending /\ otaHold > 0)]
    /\ UNCHANGED <<desiredPortal, bleBusy, link, job, victronResult, toEsp,
                   toStm, esp>>

(* An input edge or a downlink asks for a command and no command is under   *)
(* way (executeActions): serviceCompanion calls companionRequestVictronLoad.*)
(* The previous identifier stays in victronRequestId until the first send. *)
LoopRequest ==
    /\ StartPass
    /\ ~bleBusy /\ ~job.pending
    /\ history.jobs < MaxJobs
    /\ bleBusy' = TRUE
    /\ job' = [IdleJob(job.requestId, 0) EXCEPT !.pending = TRUE]
    /\ clock' = ZeroClock
    /\ history' = [history EXCEPT !.jobs = @ + 1, !.held = FALSE]
    /\ UNCHANGED <<desiredPortal, link, otaHold, victronResult, toEsp, toStm, esp>>

-----------------------------------------------------------------------------
(* STM32: frames received (handleFrame).                                   *)

(* READY always opens a new ESP session.  In an established session it is  *)
(* counted as a failure of the link.                                       *)
HandleReady(f) ==
    LET again == [job EXCEPT !.requestPending = FALSE, !.accepted = FALSE]
        failed == [again EXCEPT !.linkFailures =
                       IF @ < MaxLinkFailures THEN @ + 1 ELSE @]
    IN  /\ f.type = "READY"
        /\ link' = [link EXCEPT !.ready = FALSE, !.helloId = 0,
                                !.helloAttempts = 0]
        /\ otaHold' = 0
        /\ IF ~(link.ready /\ job.pending)
           THEN job' = again /\ UNCHANGED <<clock, victronResult>>
           ELSE IF failed.linkFailures >= MaxLinkFailures
           THEN Finish(failed, Timeout)
           ELSE job' = failed /\ UNCHANGED <<clock, victronResult>>

HandleHelloAck(f) ==
    /\ f.type = "HELLO_ACK"
    /\ link' = [link EXCEPT !.ready = @ \/ f.id = link.helloId]
    /\ UNCHANGED <<job, clock, otaHold, victronResult>>

(* A frame about the command in progress; others are dropped, and so is     *)
(* every one until the session is established.  [mutants: the identifier,  *)
(* or the job in progress, is not compared]                                *)
AnyCommand(f) == link.ready /\ job.pending
AnyTime(f) == link.ready /\ f.id = job.requestId
ForThisJob(f) == link.ready /\ job.pending /\ f.id = job.requestId

(* The clock of the accepted job starts at the first ACCEPTED only.        *)
(* [mutant: at every ACCEPTED]                                             *)
EachAcceptedClock == [clock EXCEPT !.job = 0]
AcceptedClock == IF job.everAccepted THEN clock ELSE [clock EXCEPT !.job = 0]

HandleAccepted(f) ==
    /\ f.type = "VICTRON_ACCEPTED"
    /\ IF ForThisJob(f)
       THEN /\ job' = [job EXCEPT !.accepted = TRUE, !.everAccepted = TRUE]
            /\ clock' = AcceptedClock
       ELSE UNCHANGED <<job, clock>>
    /\ UNCHANGED <<link, otaHold, victronResult>>

(* handleVictronResult: a result whose fields do not parse, or do not fit  *)
(* the function that was asked for, ends the job as a timeout.             *)
HandleResult(f) ==
    /\ f.type = "VICTRON_RESULT"
    /\ IF ForThisJob(f)
       THEN \E code \in {f.code, Timeout} : Finish(job, code)
       ELSE UNCHANGED <<job, clock, victronResult>>
    /\ UNCHANGED <<link, otaHold>>

HandleOtaState(f) ==
    /\ f.type = "OTA_STATE"
    /\ otaHold' = IF ~link.ready THEN otaHold
                  ELSE IF f.id = 1 THEN OtaHold ELSE 0
    /\ UNCHANGED <<link, job, clock, victronResult>>

(* readEspFrames reads all that has arrived before the loop goes on.       *)
Drained == toStm = <<>>

ReadFrame ==
    /\ \/ pc = "read" /\ link.powered
       \/ pc = "link"
    /\ ~Drained
    /\ toStm' = Tail(toStm)
    /\ LET f == Head(toStm)
       IN  /\ \/ HandleReady(f) \/ HandleHelloAck(f) \/ HandleAccepted(f)
              \/ HandleResult(f) \/ HandleOtaState(f)
           /\ history' = IF f.type = "HELLO_ACK" /\ f.id = link.helloId
                         THEN [history EXCEPT !.ackSession = f.session]
                         ELSE history
    /\ UNCHANGED <<pc, desiredPortal, bleBusy, toEsp, esp>>

-----------------------------------------------------------------------------
(* STM32: companionService between its two readings of the UART.           *)

(* [mutant: a command alone does not power the ESP]                         *)
PortalPower == desiredPortal
PowerWanted == desiredPortal \/ job.pending

(* The deadlines of the job, checked in every session of the ESP and        *)
(* between them.                                                           *)
JobOverdue ==
    /\ job.pending
    /\ \/ ~job.deliveryStarted /\ clock.activated >= PreDelivery
       \/ job.everAccepted /\ clock.job >= JobTimeout
       \/ /\ ~job.everAccepted /\ job.deliveryStarted
          /\ clock.delivery >= DeliveryTimeout

ServiceTurn == pc = "read" /\ (link.powered => Drained)

(* A firmware update holds the companion: nothing else is serviced.        *)
ServiceHeld ==
    /\ ServiceTurn /\ otaHold > 0
    /\ pc' = "app"
    /\ UNCHANGED <<desiredPortal, bleBusy, link, job, clock, otaHold,
                   victronResult, toEsp, toStm, esp, history>>

ServiceUnwanted ==
    /\ ServiceTurn /\ otaHold = 0 /\ ~PowerWanted
    /\ pc' = "app"
    /\ IF link.powered
       THEN link' = PowerOff(link) /\ EspLost
       ELSE UNCHANGED <<link, esp, toEsp, history>>
    /\ UNCHANGED <<desiredPortal, bleBusy, job, clock, otaHold, victronResult, toStm>>

(* timeoutCurrentVictronJob: the result is a timeout, and cutting the power *)
(* fences a worker that may be running the command.                        *)
ServiceOverdue ==
    /\ ServiceTurn /\ otaHold = 0 /\ JobOverdue
    /\ pc' = "app"
    /\ Finish(job, Timeout)
    /\ link' = PowerOff(link)
    /\ EspLost
    /\ UNCHANGED <<desiredPortal, bleBusy, otaHold, toStm>>

(* The ESP is off: power it on when nextPowerAttemptAt has come.           *)
ServicePowerOn ==
    /\ ServiceTurn /\ otaHold = 0 /\ PowerWanted /\ ~JobOverdue
    /\ ~link.powered
    /\ pc' = "app"
    /\ link' = [link EXCEPT !.powered = TRUE, !.ready = FALSE,
                            !.helloId = 0, !.helloAttempts = 0]
    /\ toStm' = <<>>
    /\ UNCHANGED <<desiredPortal, bleBusy, job, clock, otaHold, victronResult,
                   toEsp, esp, history>>

ServicePowerWait ==
    /\ ServiceTurn /\ otaHold = 0 /\ PowerWanted /\ ~JobOverdue
    /\ ~link.powered
    /\ pc' = "app"
    /\ UNCHANGED <<desiredPortal, bleBusy, link, job, clock, otaHold,
                   victronResult, toEsp, toStm, esp, history>>

ServicePowered ==
    /\ ServiceTurn /\ otaHold = 0 /\ PowerWanted /\ ~JobOverdue
    /\ link.powered
    /\ pc' = "link"
    /\ UNCHANGED <<desiredPortal, bleBusy, link, job, clock, otaHold,
                   victronResult, toEsp, toStm, esp, history>>

-----------------------------------------------------------------------------
(* STM32: companionService after its second reading of the UART.           *)

LinkTurn == pc = "link" /\ Drained

(* handleCompanionLinkFailure.                                             *)
LinkFailure ==
    LET failed == [job EXCEPT !.linkFailures =
                       IF @ < MaxLinkFailures THEN @ + 1 ELSE @,
                              !.requestPending = FALSE]
    IN  /\ link' = PowerOff(link)
        /\ EspLost
        /\ IF ~job.pending
           THEN /\ job' = [job EXCEPT !.requestPending = FALSE]
                /\ UNCHANGED <<clock, victronResult>>
           ELSE IF failed.linkFailures >= MaxLinkFailures
           THEN Finish(failed, Timeout)
           ELSE job' = failed /\ UNCHANGED <<clock, victronResult>>

IdLeft == history.allocations < MaxAllocations

CountAllocation(fresh) ==
    history' = [history EXCEPT !.allocations = IF fresh THEN @ + 1 ELSE @]

(* Nothing is due yet: the next HELLO, or the next retry of a request (or   *)
(* the bound on identifiers is reached and none can be sent).              *)
LinkWait ==
    /\ LinkTurn
    /\ \/ ~link.ready \/ otaHold > 0 \/ ~job.pending \/ job.requestPending
       \/ ~IdLeft
    /\ pc' = "app"
    /\ UNCHANGED <<desiredPortal, bleBusy, link, job, clock, otaHold,
                   victronResult, toEsp, toStm, esp, history>>

(* [mutant: one attempt too many]                                          *)
OneHelloMore == link.helloAttempts <= HelloMaxAttempts
HelloLeft == link.helloAttempts < HelloMaxAttempts

(* sendHello keeps its identifier until READY or a power cycle clears it.  *)
LinkHello ==
    /\ LinkTurn /\ ~link.ready
    /\ HelloLeft
    /\ pc' = "app"
    /\ LET fresh == link.helloId = 0
           id == IF fresh THEN Allocated(link.nextRequestId) ELSE link.helloId
       IN  /\ fresh => IdLeft
           /\ link' = [link EXCEPT !.helloId = id, !.helloAttempts = @ + 1,
                                   !.nextRequestId = IF fresh THEN id + 1 ELSE @]
           /\ toEsp' \in Put(toEsp, Hello(id))
           /\ CountAllocation(fresh)
    /\ UNCHANGED <<desiredPortal, bleBusy, job, clock, otaHold, victronResult,
                   toStm, esp>>

LinkHelloExhausted ==
    /\ LinkTurn /\ ~link.ready
    /\ ~HelloLeft
    /\ pc' = "app"
    /\ LinkFailure
    /\ UNCHANGED <<desiredPortal, bleBusy, otaHold, toStm>>

(* Portal control went unanswered; the ESP is not power-cycled underneath  *)
(* a job.                                                                  *)
LinkPortalExhausted ==
    /\ LinkTurn /\ link.ready /\ otaHold = 0
    /\ ~job.pending
    /\ pc' = "app"
    /\ LinkFailure
    /\ UNCHANGED <<desiredPortal, bleBusy, otaHold, toStm>>

(* What has completed counts from the first send of the present command.    *)
FirstSend(fresh) ==
    history' = IF fresh THEN [history EXCEPT !.allocations = @ + 1, !.finishedOk = {}]
               ELSE history

(* sendVictronRequest: the first send gives the job its identifier, later  *)
(* ones (a retry, a replay, a new ESP session) keep it.                    *)
LinkRequest ==
    /\ LinkTurn /\ link.ready /\ otaHold = 0
    /\ job.pending
    /\ pc' = "app"
    /\ LET fresh == ~job.deliveryStarted
           id == IF fresh THEN Allocated(link.nextRequestId) ELSE job.requestId
       IN  /\ fresh => IdLeft
           /\ link' = [link EXCEPT !.nextRequestId = IF fresh THEN id + 1 ELSE @]
           /\ job' = [job EXCEPT !.requestId = id, !.deliveryStarted = TRUE,
                                 !.accepted = IF fresh THEN FALSE ELSE @,
                                 !.requestPending = TRUE]
           /\ clock' = IF fresh THEN [clock EXCEPT !.delivery = 0] ELSE clock
           /\ toEsp' \in Put(toEsp, LoadSet(id))
           /\ FirstSend(fresh)
    /\ UNCHANGED <<desiredPortal, bleBusy, otaHold, victronResult, toStm, esp>>

-----------------------------------------------------------------------------
(* ESP: the UART receive task (receive_uart_frame).  It handles one frame   *)
(* at a time; its reply goes out when it gets the transmit lock.           *)

Session == history.restarts

EspReady == link.powered /\ esp.reply = NoReply

ReceiveHello ==
    /\ EspReady /\ toEsp # <<>> /\ Head(toEsp).type = "HELLO"
    /\ toEsp' = Tail(toEsp)
    /\ esp' = [esp EXCEPT !.reply = HelloAck(Head(toEsp).id, Session)]
    /\ UNCHANGED <<stmVars, toStm, history>>

(* The last command answered in this session is known by its identifier.    *)
(* [mutant: it is forgotten]                                               *)
NeverAnswered(id) == FALSE
Answered(id) == esp.cacheId = id

(* handle_victron_load_set.  A command already answered is answered again   *)
(* from the cache, the command under way is accepted again, another one is  *)
(* refused; a new one is either invalid (and cached as such) or queued.    *)
ReceiveLoadSet ==
    /\ EspReady /\ toEsp # <<>> /\ Head(toEsp).type = "VICTRON_LOAD_SET"
    /\ toEsp' = Tail(toEsp)
    /\ LET id == Head(toEsp).id
       IN  \/ /\ Answered(id)
              /\ esp' = [esp EXCEPT !.reply = Result(id, esp.cacheCode)]
           \/ /\ ~Answered(id) /\ esp.requestActive
              /\ esp' = [esp EXCEPT !.reply = IF esp.requestId = id THEN Accepted(id)
                                             ELSE Result(id, "busy")]
           \/ /\ ~Answered(id) /\ ~esp.requestActive /\ id \notin RefusedIds
              /\ esp' = [esp EXCEPT !.reply = Accepted(id),
                                    !.requestActive = TRUE,
                                    !.workPending = TRUE,
                                    !.requestId = id]
           \/ /\ ~Answered(id) /\ ~esp.requestActive /\ id \in RefusedIds
              /\ esp' = [esp EXCEPT !.reply = Result(id, "bad_settings"),
                                    !.cacheId = id,
                                    !.cacheCode = "bad_settings"]
    /\ UNCHANGED <<stmVars, toStm, history>>

(* The reply leaves; only then does handle_hello record that it saw HELLO. *)
SendReply ==
    /\ link.powered /\ esp.reply # NoReply
    /\ toStm' \in Put(toStm, esp.reply)
    /\ esp' = [esp EXCEPT !.reply = NoReply,
                          !.helloSeen = @ \/ esp.reply.type = "HELLO_ACK"]
    /\ UNCHANGED <<stmVars, toEsp, history>>

-----------------------------------------------------------------------------
(* ESP: the radio manager (manager_task_main).                             *)

(* The manager finds that HELLO was not seen; it sends READY afterwards,    *)
(* outside the lock.                                                       *)
ManagerCheck ==
    /\ link.powered /\ esp.manager = "idle" /\ ~esp.helloSeen
    /\ esp' = [esp EXCEPT !.manager = "announce"]
    /\ UNCHANGED <<stmVars, toEsp, toStm, history>>

ManagerAnnounce ==
    /\ link.powered /\ esp.manager = "announce"
    /\ toStm' \in Put(toStm, Ready(Session))
    /\ esp' = [esp EXCEPT !.manager = "idle"]
    /\ UNCHANGED <<stmVars, toEsp, history>>

(* The command is taken out of the shared state and run (manager_run_victron).*)
ManagerStart ==
    /\ link.powered /\ esp.manager = "idle" /\ ~esp.otaBusy
    /\ esp.workPending
    /\ esp' = [esp EXCEPT !.workPending = FALSE, !.manager = "run"]
    /\ history' = [history EXCEPT !.started = @ \cup {esp.requestId}]
    /\ UNCHANGED <<stmVars, toEsp, toStm>>

(* victron_ble_run is over: send_victron_result caches the result under the *)
(* lock.  A stack that could not be stopped is always a failure and makes   *)
(* the manager restart the ESP once the result is sent.                    *)
ManagerFinish(code, restart) ==
    /\ link.powered /\ esp.manager = "run"
    /\ restart => code = "fail" /\ history.restarts < MaxRestarts
    /\ esp' = [esp EXCEPT !.manager = "send", !.restart = restart,
                          !.outgoing = Result(esp.requestId, code),
                          !.cacheId = esp.requestId, !.cacheCode = code,
                          !.requestActive = FALSE]
    /\ history' = [history EXCEPT !.finishedOk =
                       IF code = "ok" THEN @ \cup {esp.requestId} ELSE @]
    /\ UNCHANGED <<stmVars, toEsp, toStm>>

ManagerSend ==
    /\ link.powered /\ esp.manager = "send"
    /\ toStm' \in Put(toStm, esp.outgoing)
    /\ esp' = [esp EXCEPT !.outgoing = NoReply,
                          !.manager = IF esp.restart THEN "restart" ELSE "idle"]
    /\ UNCHANGED <<stmVars, toEsp, history>>

(* The ESP restarts: controlled_radio_restart, or a reset of its own.      *)
EspRestart ==
    /\ link.powered
    /\ history.restarts < MaxRestarts
    /\ esp' = FreshEsp
    /\ toEsp' = <<>>
    /\ history' = [history EXCEPT !.started = {}, !.restarts = @ + 1]
    /\ UNCHANGED <<stmVars, toStm>>

(* A firmware upload begins, and ends without an installation.             *)
UploadBegin ==
    /\ link.powered /\ esp.manager = "idle" /\ esp.helloSeen /\ ~esp.otaBusy
    /\ history.uploads < MaxUploads
    /\ esp' = [esp EXCEPT !.otaBusy = TRUE]
    /\ toStm' \in Put(toStm, OtaState(TRUE))
    /\ history' = [history EXCEPT !.uploads = @ + 1]
    /\ UNCHANGED <<stmVars, toEsp>>

UploadEnd ==
    /\ link.powered /\ esp.otaBusy
    /\ esp' = [esp EXCEPT !.otaBusy = FALSE]
    /\ toStm' \in Put(toStm, OtaState(FALSE))
    /\ UNCHANGED <<stmVars, toEsp, history>>

-----------------------------------------------------------------------------
Service == \/ ServiceHeld \/ ServiceUnwanted \/ ServiceOverdue
           \/ ServicePowerOn \/ ServicePowerWait \/ ServicePowered

Link == \/ LinkWait \/ LinkHello \/ LinkHelloExhausted
        \/ LinkPortalExhausted \/ LinkRequest

LoopStep == \/ LoopPass \/ LoopDemand \/ LoopTick \/ LoopRequest
            \/ ReadFrame \/ Service \/ Link \/ TakeResult

EspStep == \/ ReceiveHello \/ ReceiveLoadSet \/ SendReply
           \/ ManagerCheck \/ ManagerAnnounce \/ ManagerStart
           \/ \E code \in {"ok", "fail"}, restart \in BOOLEAN :
                  ManagerFinish(code, restart)
           \/ ManagerSend \/ EspRestart \/ UploadBegin \/ UploadEnd

Next == LoopStep \/ EspStep

(* The loop keeps running (delay() in loop() only paces it), it empties the *)
(* receive ring faster than the UART can fill it, and millis() keeps       *)
(* advancing.  Nothing is assumed of the ESP or of what the UART delivers.  *)
Fairness ==
    /\ WF_vars(ReadFrame) /\ SF_vars(Service) /\ SF_vars(Link)
    /\ WF_vars(TakeResult) /\ SF_vars(LoopTick)

Spec == Init /\ [][Next]_vars
FairSpec == Spec /\ Fairness

-----------------------------------------------------------------------------
(* Properties.                                                             *)

Outcomes == ResultCodes \cup {Timeout}

LinkType ==
    [powered : BOOLEAN, ready : BOOLEAN, helloId : 0..MaxId,
     helloAttempts : 0..HelloMaxAttempts, nextRequestId : 1..MaxId + 1]

JobType ==
    [pending : BOOLEAN, deliveryStarted : BOOLEAN, requestPending : BOOLEAN,
     requestId : 0..MaxId, accepted : BOOLEAN, everAccepted : BOOLEAN,
     linkFailures : 0..MaxLinkFailures]

ClockType == [activated : 0..ClockMax, delivery : 0..ClockMax, job : 0..ClockMax]

EspType ==
    [helloSeen : BOOLEAN, reply : Replies \cup {NoReply},
     manager : {"idle", "announce", "run", "send", "restart"},
     outgoing : Replies \cup {NoReply}, requestActive : BOOLEAN,
     workPending : BOOLEAN, requestId : 0..MaxId, cacheId : 0..MaxId,
     cacheCode : ResultCodes \cup {NoResult}, restart : BOOLEAN,
     otaBusy : BOOLEAN]

HistoryType ==
    [jobs : 0..MaxJobs, restarts : Sessions, uploads : 0..MaxUploads,
     allocations : 0..MaxAllocations, held : BOOLEAN, started : SUBSET Ids,
     finishedOk : SUBSET Ids, ackSession : Sessions]

(* Every variable has its type, and a frame is only ever of a kind its      *)
(* receiver knows.                                                         *)
TypeOK ==
    /\ pc \in {"app", "read", "link"}
    /\ desiredPortal \in BOOLEAN /\ bleBusy \in BOOLEAN
    /\ link \in LinkType /\ job \in JobType /\ clock \in ClockType
    /\ otaHold \in 0..OtaHold
    /\ victronResult \in Outcomes \cup {NoResult}
    /\ toEsp \in Seq(EspFrames) /\ toStm \in Seq(StmFrames)
    /\ esp \in EspType /\ history \in HistoryType

(* A command in progress ends within the pre-delivery, delivery and job     *)
(* deadlines together, however often READY or HELLO starts the handshake    *)
(* anew, the ESP restarts, ACCEPTED is repeated or the request is replayed; *)
(* only a firmware-update hold, which services nothing, may exceed it.     *)
JobBounded ==
    job.pending /\ ~history.held =>
        clock.activated <= PreDelivery + DeliveryTimeout + JobTimeout

(* A command that has been sent reports success only if the Bluetooth       *)
(* worker completed it after that first send: never on a result of an       *)
(* earlier command, late, cached or left by a worker that was given up.     *)
(* Of a command that has not been sent yet ResultIsOfThisCommand speaks.    *)
SuccessIsGenuine ==
    victronResult = "ok" /\ job.deliveryStarted => job.requestId \in history.finishedOk

(* A result that waits to be collected belongs to a command the application *)
(* still waits for, and a command that is over leaves a result: the busy    *)
(* flag of stm32.ino and the job of esp_companion.cpp never part ways.     *)
BusyMatchesJob ==
    /\ job.pending => bleBusy /\ victronResult = NoResult
    /\ bleBusy /\ ~job.pending => victronResult # NoResult
    /\ ~bleBusy => victronResult = NoResult

(* Within one session of the ESP a command is run at most once, although    *)
(* the STM32 repeats its request until it is accepted and again afterwards. *)
RunsOnce == [][ManagerStart => esp.requestId \notin history.started]_vars

(* A command that was asked for is answered, whatever the ESP and the UART  *)
(* do: the application never stays busy.                                   *)
CommandAnswered == bleBusy ~> ~bleBusy

(* The Bluetooth command as the application sees it.                       *)
Command == INSTANCE BleCommand WITH
    phase <- IF ~bleBusy THEN "idle" ELSE IF job.pending THEN "running" ELSE "done",
    outcome <- victronResult, Codes <- Outcomes, Nothing <- NoResult

(* Every request is answered once, and collected before the next request.  *)
ImplementsCommand == Command!Spec

-----------------------------------------------------------------------------
(* What the repository says of the program, and the code does not do.      *)

(* docs/MANUAL.md: status reports the last command result; a result from    *)
(* the ESP can only be that of a command that was sent.                    *)
ResultIsOfThisCommand ==
    victronResult \in ResultCodes => job.deliveryStarted

(* esp_companion.cpp, timeoutCurrentVictronJob: a possibly running worker is *)
(* fenced before a later command is given a new identifier.                *)
WorkerFenced ==
    [][job'.requestId # job.requestId => ~esp.requestActive]_vars

(* esp_companion.cpp, handleFrame: READY after a completed handshake means  *)
(* the ESP restarted.                                                      *)
ReadyMeansRestart ==
    [][ReadFrame /\ Head(toStm).type = "READY" /\ link.ready
           => Head(toStm).session # history.ackSession]_vars

=============================================================================
