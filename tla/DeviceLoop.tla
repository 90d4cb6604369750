----------------------------- MODULE DeviceLoop -----------------------------
(***************************************************************************)
(* The application of the STM32, src/stm32/stm32.ino: the contact input    *)
(* with its debounce and its cancellable delayed action, the queue of      *)
(* downlinked commands, the relay and its pulse, the Bluetooth command     *)
(* handed to the companion, and the status uplinks that report on them.    *)
(*                                                                         *)
(* loop() is cut where an interrupt may matter; the RUI callbacks run in   *)
(* the delay() that ends it.  Two interrupts run anywhere: the 10 ms       *)
(* sampling of the contact and the end of a relay pulse; a step of the     *)
(* first is a tick of the clock.  The companion behind the Bluetooth       *)
(* command is the one BleCommand promises.                                 *)
(*                                                                         *)
(* A revision counter is only ever compared with the copy taken for the    *)
(* uplink in flight and with the copy last acknowledged, so what is kept   *)
(* of it are the two differences.                                          *)
(***************************************************************************)
EXTENDS Naturals

CONSTANTS
    Debounce,       \* CONTACT_DEBOUNCE_MS, in ticks
    Hold,           \* by level: edgeHoldSeconds + edgeDelaySeconds, in ticks
    PulseTime,      \* relayPulseMs, in ticks
    RetryTime,      \* STATUS_RETRY_MS, in ticks
    RebootTime,     \* the 2500 ms before a reboot, in ticks
    QueueSize,      \* slots of remoteActionQueue, one of which stays empty
    InputActions,   \* by level: the actions set for an edge
    Commands,       \* the action sets of the downlinks that are allowed
    MaxEvents       \* bound: changes of the contact, downlinks and portal actions together

Actions == {"uplink", "relay_on", "relay_off", "relay_pulse", "load"}

ASSUME TimesAssumption ==
    /\ Debounce \in Nat /\ Hold \in [BOOLEAN -> Nat] /\ PulseTime \in Nat \ {0}
    /\ RetryTime \in Nat /\ RebootTime \in Nat /\ QueueSize \in Nat \ {0, 1}

ASSUME ActionsAssumption ==
    /\ InputActions \in [BOOLEAN -> SUBSET Actions]
    /\ Commands \subseteq SUBSET Actions
    /\ MaxEvents \in Nat

VARIABLES
    pc,         \* where loop() is
    contact,    \* lastRawContact and its age, stableContact
    input,      \* edgeVersion ahead of edgeConsumed, age of the edge, InputActionTimer
    relay,      \* output, pulse timer, report flag, relayExpiredEvent
    queue,      \* remoteActionQueue, remoteWrite, remoteRead; duplicate guard
    ble,        \* pendingAlwaysOn, bleBusy, lastBleResult
    phase, outcome,     \* the companion (BleCommand)
    uplink,     \* due: statusRevision is ahead of statusRevisionAcked; dueAfter: and of the
                \* uplink in flight; the same of busyEventRevision; the retry timer
    mac,        \* joined, and what the radio sends (external)
    reboot,     \* ticks until pendingRebootAt, or NoReboot
    order,      \* auxiliary: the last relay action executed, and its age
    history     \* auxiliary: what happened, for the properties and bounds

vars == <<pc, contact, input, relay, queue, ble, phase, outcome, uplink, mac,
          reboot, order, history>>

NoReboot == RebootTime + 1
Results == {"ok", "failed"}
Nothing == "nothing"
Seen == Results \cup {"not_run", "busy", Nothing}

Companion == INSTANCE BleCommand WITH Codes <- Results

MaxHold == IF Hold[TRUE] > Hold[FALSE] THEN Hold[TRUE] ELSE Hold[FALSE]
Less(n) == IF n = 0 THEN 0 ELSE n - 1
More(n, top) == IF n < top THEN n + 1 ELSE n

-----------------------------------------------------------------------------
(* Start: boot is not an edge, the relay is off, a status is due.          *)

Steady(level) == [raw |-> level, age |-> 0, stable |-> level]
NoEdge == [fresh |-> FALSE, age |-> 0, pending |-> FALSE, rising |-> FALSE, wait |-> 0]
RelayOff == [on |-> FALSE, pulse |-> FALSE, left |-> 0, report |-> FALSE, expired |-> FALSE]
EmptyQueue == [slot |-> [i \in 0..QueueSize - 1 |-> {}], write |-> 0, read |-> 0, heard |-> FALSE]
NotRun == [pending |-> FALSE, busy |-> FALSE, result |-> "not_run"]
StatusDue == [due |-> TRUE, dueAfter |-> FALSE, busyDue |-> FALSE, busyAfter |-> FALSE,
              busySent |-> FALSE, inFlight |-> FALSE, retry |-> 0, manual |-> FALSE]
NotJoined == [joined |-> FALSE, known |-> FALSE, accepted |-> FALSE, sends |-> "nothing"]
NoOrder == [action |-> "relay_off", age |-> 0]
Unheard == [result |-> Nothing, on |-> FALSE]

Init ==
    /\ pc = "top"
    /\ contact \in {Steady(level) : level \in BOOLEAN}
    /\ input = NoEdge /\ relay = RelayOff /\ queue = EmptyQueue
    /\ ble = NotRun /\ Companion!Init
    /\ uplink = StatusDue /\ mac = NotJoined /\ reboot = NoReboot
    /\ order = NoOrder
    /\ history = [fires |-> 0, owed |-> 0, sent |-> Unheard, told |-> Unheard,
                  events |-> 0]

(* The reboot that was asked for.                                          *)
Restart ==
    /\ pc = "reboot" /\ reboot = 0
    /\ pc' = "top"
    /\ contact' \in {Steady(level) : level \in BOOLEAN}
    /\ input' = NoEdge /\ relay' = RelayOff /\ queue' = EmptyQueue
    /\ ble' = NotRun /\ phase' = "idle" /\ outcome' = Nothing
    /\ uplink' = StatusDue /\ mac' = NotJoined /\ reboot' = NoReboot
    /\ order' = NoOrder
    /\ history' = [history EXCEPT !.fires = 0, !.owed = 0, !.sent = Unheard, !.told = Unheard]

-----------------------------------------------------------------------------
(* The interrupts.  What comes from outside is bounded as a whole.         *)

(* sampleContact, and the timers that advance with it; a pulse that is over *)
(* ends in relayPulseExpired before anything else runs.                    *)
Sampled(level) ==
    LET age == IF level # contact.raw THEN 0 ELSE More(contact.age, Debounce)
    IN  [raw |-> level, age |-> age,
         stable |-> IF age >= Debounce THEN level ELSE contact.stable]

RelayPulseExpired(r) ==
    IF r.pulse THEN [r EXCEPT !.on = FALSE, !.pulse = FALSE, !.left = 0, !.expired = TRUE]
               ELSE [r EXCEPT !.left = 0]

Input == history.events < MaxEvents

Tick(level) ==
    /\ level # contact.raw => Input
    /\ contact' = Sampled(level)
    /\ LET edge == contact'.stable # contact.stable
       IN  /\ input' = [input EXCEPT !.fresh = @ \/ edge,
                                     !.age = IF edge THEN 0 ELSE More(@, MaxHold),
                                     !.wait = Less(@)]
           /\ history' = [history EXCEPT !.fires = IF edge THEN 0 ELSE @,
                                         !.events = IF level # contact.raw THEN @ + 1 ELSE @]
    /\ order' = [order EXCEPT !.age = More(@, PulseTime)]
    /\ relay' = IF relay.left = 1 THEN RelayPulseExpired(relay)
                                  ELSE [relay EXCEPT !.left = Less(@)]
    /\ uplink' = [uplink EXCEPT !.retry = Less(@)]
    /\ reboot' = IF reboot = NoReboot THEN reboot ELSE Less(reboot)
    /\ UNCHANGED <<pc, queue, ble, phase, outcome, mac>>

-----------------------------------------------------------------------------
(* executeActions and setRelay.                                            *)

Requested(u) == [u EXCEPT !.due = TRUE, !.dueAfter = u.inFlight]
BusyEvent(u) == [u EXCEPT !.busyDue = TRUE, !.busyAfter = u.inFlight]
RequestedIf(report, u) == IF report THEN Requested(u) ELSE u

(* Mutant: the timer of an earlier pulse is left running.                   *)
PulseKept(action, report, timerRuns) ==
    [relay EXCEPT !.on = action # "relay_off" /\ timerRuns,
                  !.pulse = @ \/ (action = "relay_pulse" /\ timerRuns),
                  !.left = IF action = "relay_pulse" /\ timerRuns THEN PulseTime ELSE @,
                  !.report = report]

SetRelay(action, report, timerRuns) ==
    [relay EXCEPT !.on = action = "relay_on" \/ (action = "relay_pulse" /\ timerRuns),
                  !.pulse = action = "relay_pulse" /\ timerRuns,
                  !.left = IF action = "relay_pulse" /\ timerRuns THEN PulseTime ELSE 0,
                  !.report = report]

(* Only a pulse needs the timer, and it may fail to start.                 *)
TimerRuns(action) == IF action = "relay_pulse" THEN BOOLEAN ELSE {TRUE}

RelayActions(actions) == actions \cap {"relay_on", "relay_off", "relay_pulse"}

ExecuteActions(actions) ==
    LET report == "uplink" \in actions
        refused == "load" \in actions /\ (ble.pending \/ ble.busy)
    IN  /\ IF RelayActions(actions) = {}
             THEN UNCHANGED <<relay, order>>
             ELSE \E action \in RelayActions(actions) : \E timerRuns \in TimerRuns(action) :
                    /\ relay' = SetRelay(action, report, timerRuns)
                    /\ order' = [action |-> IF timerRuns THEN action ELSE "relay_off", age |-> 0]
        /\ ble' = IF "load" \in actions /\ ~refused
                    THEN [ble EXCEPT !.pending = TRUE, !.result = "not_run"] ELSE ble
        /\ uplink' = RequestedIf(report, IF refused /\ report THEN BusyEvent(uplink) ELSE uplink)

-----------------------------------------------------------------------------
(* loop(), from its top to the delay.                                      *)

Top ==
    /\ pc = "top"
    /\ pc' = "input"
    /\ relay' = [relay EXCEPT !.expired = FALSE]
    /\ uplink' = RequestedIf(relay.expired /\ relay.report, uplink)
    /\ UNCHANGED <<contact, input, queue, ble, phase, outcome, mac, reboot, order, history>>

(* Mutant: the edge is taken over and not consumed.                         *)
Rearmed ==
    IF input.fresh
      THEN [input EXCEPT !.pending = TRUE, !.rising = contact.stable,
                         !.wait = IF Hold[contact.stable] > input.age
                                    THEN Hold[contact.stable] - input.age ELSE 0]
      ELSE input

(* updateContact: with interrupts off, take over the newest edge and claim *)
(* its action if the time is up and the sample agrees with the level.      *)
Armed ==
    IF input.fresh
      THEN [input EXCEPT !.fresh = FALSE, !.pending = TRUE, !.rising = contact.stable,
                         !.wait = IF Hold[contact.stable] > input.age
                                    THEN Hold[contact.stable] - input.age ELSE 0]
      ELSE input

Claims(i) == contact.raw = contact.stable /\ i.pending /\ i.rising = contact.stable /\ i.wait = 0

UpdateContact ==
    /\ pc = "input"
    /\ pc' = "remote"
    /\ IF reboot # NoReboot
         THEN /\ input' = [input EXCEPT !.fresh = FALSE, !.pending = FALSE]
              /\ UNCHANGED <<relay, ble, uplink, order, history>>
         ELSE LET stale == contact.raw = contact.stable /\ Armed.rising # contact.stable
              IN  /\ input' = [Armed EXCEPT !.pending = @ /\ ~stale /\ ~Claims(Armed)]
                  /\ IF Claims(Armed)
                       THEN /\ ExecuteActions(InputActions[contact.stable])
                            /\ history' = [history EXCEPT !.fires = @ + 1]
                       ELSE UNCHANGED <<relay, ble, uplink, order, history>>
    /\ UNCHANGED <<contact, queue, phase, outcome, mac, reboot>>

Queued == (queue.write + QueueSize - queue.read) % QueueSize

(* One downlinked command for each turn of the loop.                       *)
Remote ==
    /\ pc = "remote"
    /\ pc' = "network"
    /\ IF queue.read # queue.write
         THEN /\ queue' = [queue EXCEPT !.read = (@ + 1) % QueueSize, !.slot[queue.read] = {}]
              /\ ExecuteActions(queue.slot[queue.read])
              /\ history' = [history EXCEPT !.owed = Less(@)]
         ELSE UNCHANGED <<queue, relay, ble, uplink, order, history>>
    /\ UNCHANGED <<contact, input, phase, outcome, mac, reboot>>

Needed == uplink.manual \/ uplink.due \/ uplink.busyDue

(* networkTick may complete a join or, when no uplink and no manual         *)
(* confirmation needs the session, leave it.  Then a change of wifiWanted,  *)
(* a new session, or the interval asks for a status.                       *)
SessionHeld == uplink.inFlight \/ (uplink.manual /\ mac.joined)

Sessions ==
    IF reboot # NoReboot THEN {mac.joined}
    ELSE IF mac.accepted THEN {TRUE}
    ELSE IF SessionHeld THEN {mac.joined} ELSE {mac.joined, FALSE}

Network ==
    /\ pc = "network"
    /\ pc' = "send"
    /\ \E joined \in Sessions, wifiChanged \in BOOLEAN, intervalOver \in BOOLEAN :
          /\ wifiChanged => Input
          /\ intervalOver => joined /\ ~Needed /\ ~uplink.inFlight
          /\ mac' = [mac EXCEPT !.joined = joined, !.known = joined,
                                !.accepted = @ /\ reboot # NoReboot]
          /\ uplink' = RequestedIf(wifiChanged \/ intervalOver \/ (joined /\ ~mac.known), uplink)
          /\ history' = [history EXCEPT !.events = IF wifiChanged THEN @ + 1 ELSE @]
    /\ UNCHANGED <<contact, input, relay, queue, ble, phase, outcome, reboot, order>>

-----------------------------------------------------------------------------
(* sendStatusUplink.                                                       *)

MaySend ==
    /\ mac.joined /\ Needed
    /\ ~uplink.inFlight /\ reboot = NoReboot /\ uplink.retry = 0

Payload == [result |-> IF uplink.busyDue THEN "busy" ELSE ble.result,
            on |-> relay.on]

(* Mutant: a refused status is left in flight.                              *)
StillInFlight(accepted) ==
    [uplink EXCEPT !.dueAfter = FALSE, !.busyAfter = FALSE, !.retry = RetryTime, !.manual = FALSE,
                   !.inFlight = TRUE, !.busySent = uplink.busyDue]

(* The revisions in the payload are captured; the manual request is used up *)
(* even if the stack refuses, and so is the retry time.                    *)
Submitted(accepted) ==
    [uplink EXCEPT !.dueAfter = FALSE, !.busyAfter = FALSE, !.retry = RetryTime, !.manual = FALSE,
                   !.inFlight = accepted, !.busySent = accepted /\ uplink.busyDue]

Accept ==
    /\ mac.sends = "nothing"
    /\ uplink' = Submitted(TRUE)
    /\ mac' = [mac EXCEPT !.sends = "status"]
    /\ history' = [history EXCEPT !.sent = Payload]

(* Power not set or radio busy: nothing is captured.  A refusal may come    *)
(* with a frame of MAC commands that the stack sends in its place.         *)
Refuse ==
    /\ \/ UNCHANGED <<uplink, mac>>
       \/ /\ mac.sends = "nothing"
          /\ uplink' = Submitted(FALSE)
          /\ mac' \in {mac, [mac EXCEPT !.sends = "commands"]}
    /\ UNCHANGED history

Sending(here, next) ==
    /\ pc = here
    /\ pc' = next
    /\ UNCHANGED <<contact, input, relay, queue, ble, phase, outcome, reboot, order>>

Send == Sending("send", "companion") \/ Sending("send again", "reboot")

SendAccepted == Send /\ MaySend /\ Accept
SendRefused == Send /\ MaySend /\ Refuse
NothingToSend == Send /\ ~MaySend /\ UNCHANGED <<uplink, mac, history>>

-----------------------------------------------------------------------------
(* serviceCompanion: hand over the command, do what the portal asks, run    *)
(* the companion, collect its result.                                      *)

RequestLoad ==
    /\ pc = "companion"
    /\ pc' = "portal"
    /\ IF ~ble.pending
         THEN UNCHANGED <<ble, phase, outcome, uplink>>
         ELSE IF phase = "idle"
           THEN /\ Companion!Request
                /\ ble' = [ble EXCEPT !.pending = FALSE, !.busy = TRUE]
                /\ UNCHANGED uplink
           ELSE /\ ble' = [ble EXCEPT !.pending = FALSE, !.result = "busy"]
                /\ uplink' = Requested(BusyEvent(uplink))
                /\ UNCHANGED <<phase, outcome>>
    /\ UNCHANGED <<contact, input, relay, queue, mac, reboot, order, history>>

PortalActions ==
    {InputActions[TRUE], InputActions[FALSE], {"relay_pulse", "uplink"}, {"relay_off", "uplink"},
     {"load", "uplink"}}

Asked == reboot = NoReboot /\ Input

Portal(action) ==
    /\ pc = "portal" /\ Asked
    /\ pc' = "result"
    /\ ExecuteActions(action)
    /\ history' = [history EXCEPT !.events = @ + 1]
    /\ UNCHANGED <<contact, input, queue, phase, outcome, mac, reboot>>

(* Send now: one confirmed uplink, which skips the retry time.             *)
PortalConfirm ==
    /\ pc = "portal" /\ Asked
    /\ pc' = "result"
    /\ uplink' = [Requested(uplink) EXCEPT !.manual = TRUE, !.retry = 0]
    /\ history' = [history EXCEPT !.events = @ + 1]
    /\ UNCHANGED <<contact, input, relay, queue, ble, phase, outcome, mac, reboot, order>>

(* Reboot, or settings saved: refused while a Bluetooth command runs.      *)
PortalReboot ==
    /\ pc = "portal" /\ Asked
    /\ pc' = "result"
    /\ reboot' = RebootTime
    /\ uplink' \in {uplink} \cup IF ble.busy \/ ble.pending THEN {} ELSE {Requested(uplink)}
    /\ history' = [history EXCEPT !.events = @ + 1]
    /\ UNCHANGED <<contact, input, relay, queue, ble, phase, outcome, mac, order>>

NothingAsked ==
    /\ pc = "portal"
    /\ pc' = "result"
    /\ UNCHANGED <<contact, input, relay, queue, ble, phase, outcome, uplink, mac, reboot,
                   order, history>>

Conclude ==
    /\ pc = "result"
    /\ Companion!Conclude
    /\ UNCHANGED <<pc, contact, input, relay, queue, ble, uplink, mac, reboot, order, history>>

TakeResult ==
    /\ pc = "result"
    /\ pc' = "send again"
    /\ IF phase = "done"
         THEN /\ Companion!Collect
              /\ ble' = [ble EXCEPT !.busy = FALSE, !.result = outcome]
              /\ uplink' = Requested(uplink)
         ELSE UNCHANGED <<phase, outcome, ble, uplink>>
    /\ UNCHANGED <<contact, input, relay, queue, mac, reboot, order, history>>

Settle ==
    /\ pc = "reboot" /\ reboot # 0
    /\ pc' = "delay"
    /\ UNCHANGED <<contact, input, relay, queue, ble, phase, outcome, uplink, mac, reboot,
                   order, history>>

Again ==
    /\ pc = "delay"
    /\ pc' = "top"
    /\ UNCHANGED <<contact, input, relay, queue, ble, phase, outcome, uplink, mac, reboot,
                   order, history>>

-----------------------------------------------------------------------------
(* The callbacks of RUI, which run in the delay.                           *)

(* sendCallback, which ignores the end of a frame that is not a status.  A  *)
(* missed health check may cost the session.                               *)
Ended == [uplink EXCEPT !.inFlight = FALSE, !.busySent = FALSE,
                        !.dueAfter = FALSE, !.busyAfter = FALSE]

(* Mutants: no status follows a BUSY; a failed status is not ended.         *)
NotFollowed(ok) ==
    IF ~ok THEN Ended
           ELSE [Ended EXCEPT !.due = uplink.dueAfter,
                              !.busyDue = IF uplink.busySent THEN uplink.busyAfter ELSE @]
FailureKept(ok) ==
    IF ~ok THEN uplink
           ELSE RequestedIf(uplink.busySent,
                    [Ended EXCEPT !.due = uplink.dueAfter,
                                  !.busyDue = IF uplink.busySent THEN uplink.busyAfter ELSE @])

Completed(ok) ==
    IF ~ok THEN Ended
           ELSE RequestedIf(uplink.busySent,
                    [Ended EXCEPT !.due = uplink.dueAfter,
                                  !.busyDue = IF uplink.busySent THEN uplink.busyAfter ELSE @])

SendCallback(ok) ==
    /\ pc = "delay" /\ mac.sends # "nothing"
    /\ IF uplink.inFlight
         THEN /\ uplink' = Completed(ok)
              /\ history' = [history EXCEPT !.sent = Unheard,
                                            !.told = IF ok THEN history.sent ELSE @]
              /\ \E joined \in {mac.joined, FALSE} :
                   mac' = [mac EXCEPT !.sends = "nothing", !.joined = joined]
         ELSE /\ mac' = [mac EXCEPT !.sends = "nothing"]
              /\ UNCHANGED <<uplink, history>>
    /\ UNCHANGED <<pc, contact, input, relay, queue, ble, phase, outcome, reboot, order>>

(* joinCallback: a new session counts its downlinks from the start.        *)
JoinCallback(ok) ==
    /\ pc = "delay" /\ ~mac.joined /\ ~mac.accepted
    /\ mac' = [mac EXCEPT !.accepted = ok, !.known = ok]
    /\ uplink' = RequestedIf(ok, uplink)
    /\ queue' = [queue EXCEPT !.heard = @ /\ ~ok]
    /\ UNCHANGED <<pc, contact, input, relay, ble, phase, outcome, reboot, order, history>>

(* Mutant: a command is written whenever the slot of the reader is free.    *)
FullLate == queue.write = queue.read /\ queue.slot[queue.read] # {}

(* receiveCallback: a downlink is either new or the last one once more; its *)
(* counter is kept whether or not the command is allowed or fits.          *)
Full == (queue.write + 1) % QueueSize = queue.read

Known(again) == again /\ queue.heard

Receive(command, again) ==
    /\ pc = "delay" /\ mac.joined
    /\ IF again THEN queue.heard ELSE Input
    /\ ~Known(again)
    /\ LET fits == command # {} /\ ~Full
           lost == command # {} /\ Full
       IN  /\ queue' = [queue EXCEPT
                           !.heard = TRUE,
                           !.slot = IF fits THEN [@ EXCEPT ![queue.write] = command] ELSE @,
                           !.write = IF fits THEN (@ + 1) % QueueSize ELSE @]
           /\ uplink' = IF lost THEN Requested(BusyEvent(uplink)) ELSE uplink
           /\ history' = [history EXCEPT !.events = IF again THEN @ ELSE @ + 1,
                                         !.owed = IF fits /\ ~again THEN @ + 1 ELSE @]
    /\ UNCHANGED <<pc, contact, input, relay, ble, phase, outcome, mac, reboot, order>>

-----------------------------------------------------------------------------
Loop ==
    \/ Top \/ UpdateContact \/ Remote \/ Network
    \/ SendAccepted \/ SendRefused \/ NothingToSend
    \/ RequestLoad \/ (\E action \in PortalActions : Portal(action))
    \/ PortalConfirm \/ PortalReboot \/ NothingAsked
    \/ TakeResult \/ Settle \/ Restart \/ Again

Callbacks ==
    \/ \E ok \in BOOLEAN : SendCallback(ok) \/ JoinCallback(ok)
    \/ \E command \in Commands \cup {{}}, again \in BOOLEAN : Receive(command, again)

Next ==
    \/ \E level \in BOOLEAN : Tick(level)
    \/ Loop \/ Conclude \/ Callbacks

Spec == Init /\ [][Next]_vars

Delivered == uplink.inFlight /\ SendCallback(TRUE)

(* The loop and the clock go on and the radio ends what it sends; when the  *)
(* radio is asked again and again it accepts and succeeds at some time.    *)
Fairness ==
    /\ WF_vars(Loop) /\ WF_vars(\E level \in BOOLEAN : Tick(level))
    /\ SF_vars(\E ok \in BOOLEAN : SendCallback(ok))
    /\ SF_vars(SendAccepted) /\ SF_vars(Delivered)

FairSpec == Spec /\ Fairness

-----------------------------------------------------------------------------
(* Properties.                                                             *)

ContactType == [raw : BOOLEAN, age : 0..Debounce, stable : BOOLEAN]
InputType == [fresh : BOOLEAN, age : 0..MaxHold, pending : BOOLEAN, rising : BOOLEAN,
              wait : 0..MaxHold]
RelayType == [on : BOOLEAN, pulse : BOOLEAN, left : 0..PulseTime, report : BOOLEAN,
              expired : BOOLEAN]
QueueType == [slot : [0..QueueSize - 1 -> Commands \cup {{}}], write : 0..QueueSize - 1,
              read : 0..QueueSize - 1, heard : BOOLEAN]
BleType == [pending : BOOLEAN, busy : BOOLEAN, result : Seen]
UplinkType == [due : BOOLEAN, dueAfter : BOOLEAN, busyDue : BOOLEAN, busyAfter : BOOLEAN,
               busySent : BOOLEAN, inFlight : BOOLEAN, retry : 0..RetryTime, manual : BOOLEAN]
MacType == [joined : BOOLEAN, known : BOOLEAN, accepted : BOOLEAN,
            sends : {"nothing", "status", "commands"}]

(* The variables have their types; among them, a pulse is on while its      *)
(* timer runs, a command is with the companion while it is busy, and an     *)
(* uplink is in flight while the radio sends a status.                     *)
TypeOK ==
    /\ pc \in {"top", "input", "remote", "network", "send", "companion", "portal", "result",
              "send again", "reboot", "delay"}
    /\ contact \in ContactType /\ input \in InputType /\ relay \in RelayType
    /\ queue \in QueueType /\ ble \in BleType /\ uplink \in UplinkType /\ mac \in MacType
    /\ reboot \in 0..NoReboot
    /\ relay.pulse <=> relay.left > 0
    /\ ble.busy <=> phase # "idle"
    /\ uplink.inFlight <=> mac.sends = "status"

(* An action of the contact happens at most once for an edge, and only when *)
(* the debounced level has held for the minimum time plus the delay,        *)
(* however long the loop was kept from looking.                            *)
EdgeHeld ==
    [][history'.fires > history.fires =>
         history.fires = 0 /\ input.age >= Hold[contact.stable] /\ contact.raw = contact.stable]_vars

(* The relay is on exactly when the last action executed says so: switched  *)
(* on, or pulsed less than the pulse time ago.  An old pulse never ends a   *)
(* newer command.                                                          *)
RelayAsCommanded ==
    relay.on <=> \/ order.action = "relay_on"
                 \/ order.action = "relay_pulse" /\ order.age < PulseTime

(* Every downlinked command taken is in the queue until it is executed,     *)
(* once: no slot is overwritten, and a repeated frame adds nothing.        *)
DownlinksAccounted == history.owed = Queued

(* When nothing is left to report, the last status that went out tells the  *)
(* present state: the result of the last Bluetooth command unless one is    *)
(* under way, and the relay if its last action was to be reported.         *)
NetworkKnows ==
    ~uplink.due /\ ~uplink.busyDue =>
        /\ ~ble.pending /\ ~ble.busy => history.told.result = ble.result
        /\ relay.report /\ ~relay.expired =>
             history.told.on = relay.on

(* Once a session lasts, a status that is due goes out, and so does the     *)
(* news that a command was turned away, through refusals and failures.     *)
StatusReported ==
    <>[]mac.joined => (Needed ~> ~uplink.due /\ ~uplink.busyDue)

=============================================================================
