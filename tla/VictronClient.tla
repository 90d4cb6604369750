---------------------------- MODULE VictronClient ----------------------------
(***************************************************************************)
(* The Bluetooth client of the ESP8684, src/esp8684/main/victron_ble.c:    *)
(* victron_ble_run, called by the radio manager, which switches a Victron  *)
(* MPPT or BatteryProtect, or writes one GATT characteristic, in at most   *)
(* three attempts.                                                         *)
(*                                                                         *)
(* Two tasks share the context.  The manager's task runs the attempt and   *)
(* waits, always with a timeout; the NimBLE host task runs the callbacks,  *)
(* which store a status and give a semaphore.  NimBLE, the radio and the   *)
(* device are external.  They may be late, refuse, or lose the link, but a *)
(* link delivers in order and no procedure outlives it.                    *)
(*                                                                         *)
(* A timeout may strike whenever it is waited for, so the clock, and the   *)
(* semaphores whose taker looks at the state in any case (security_done,   *)
(* value_done, disconnect_done), are not modelled.  A message is one chunk *)
(* and a register holds one of the values the client tells apart.          *)
(***************************************************************************)
EXTENDS Naturals, Sequences, SequencesExt, FiniteSets

CONSTANTS
    Requests,       \* the requests that may come
    Devices,        \* the devices there may be, as they are found
    Window,         \* chunks granted to the device when the session opens (0x80)
    ReturnAt,       \* received chunks from which they are granted again (32)
    TxLimit,        \* requests the device takes without a new grant
    MaxPolls        \* bound: reads of the output in one attempt (30, or 10 s)

Modes == {"on", "off", "auto"}
Outputs == {"lit", "dark"}
None == "none"
Request == [profile : {"mppt", "battery", "write", "reread"}, mode : Modes, pairing : BOOLEAN,
            known : BOOLEAN, instance : {0, 1}, attempts : 1..3]

ASSUME RequestsAssumption ==
    /\ Requests \subseteq Request
    /\ \A r \in Requests : r.profile = "battery" => r.mode # "auto" /\ r.instance = 0
ASSUME DevicesAssumption == Devices \subseteq [mode : Modes, output : Outputs, matches : BOOLEAN]
ASSUME CreditsAssumption ==
    /\ Window \in Nat /\ ReturnAt \in 1..Window /\ TxLimit \in Nat \ {0}
    /\ MaxPolls \in Nat \ {0}

VARIABLES
    pc, step,   \* where the client is, and how far along Plan
    request,    \* the victron_request_t
    result,     \* the victron_result_t; sum: changed_any
    context,    \* victron_context_t without the session; sems: the semaphores given
    session,    \* its part under notification_lock
    nimble,     \* host task, scan, link, pairing, pending procedure, events to deliver (external)
    air,        \* messages under way on the link, by direction (external)
    device,     \* the Victron device (external)
    truth       \* auxiliary: what became of the device since the request and since the connection

vars == <<pc, step, request, result, context, session, nimble, air, device, truth>>
client == <<pc, step, request, result>>
radio == <<nimble, air, device, truth>>

-----------------------------------------------------------------------------
(* The course of an attempt after the connection.                          *)

Prepare == <<"mtu", "services", "characteristics", "descriptors", "descriptors", "descriptors",
             "info", "cccd", "cccd", "cccd", "open", "devices", "subscribe0">>
Switch == <<"set", "readback", "output">>
Plan ==
    CASE request.profile = "write" -> <<"services", "characteristics", "write">>
      [] request.profile = "reread" -> <<"services", "characteristics", "write", "reread">>
      [] request.profile = "battery" ->
            Prepare \o <<"product", "initial", "output_before">> \o Switch
      [] request.profile = "mppt" ->
            Prepare \o (IF request.instance = 0 THEN <<>> ELSE <<"subscribe1">>)
                    \o <<"keepalive", "initial">> \o Switch
      [] OTHER -> <<None>>
Stage == Plan[step]

Procedures == {"mtu", "services", "characteristics", "descriptors", "info", "reread"}
Writes == {"cccd", "write"}
Subscribes == {"subscribe0", "subscribe1"}
Register(stage) ==
    CASE stage = "product" -> "product"
      [] stage \in {"initial", "readback"} -> "mode"
      [] stage \in {"output_before", "output"} -> "output"
      [] OTHER -> None
FailCode(stage) ==
    CASE stage \in {"mtu", "services", "characteristics", "descriptors", "cccd"} -> "gatt_not_found"
      [] stage \in {"set", "write"} -> "write_failed"
      [] stage \in {"reread", "readback", "output"} -> "verify_failed"
      [] OTHER -> "initial_read_failed"

(* The state of the switch output that confirms a mode; none for auto.     *)
ExpectedOutput(mode) == CASE mode = "on" -> "lit" [] mode = "off" -> "dark" [] OTHER -> None
Confirms(output, mode) == mode = "auto" \/ output = ExpectedOutput(mode)

-----------------------------------------------------------------------------
(* Start and end of a run.                                                 *)

Unset == [code |-> "stack_error", attempts |-> 1, initial |-> None, verified |-> FALSE,
          changed |-> FALSE, value |-> None, load |-> None, restart |-> FALSE, polls |-> 0,
          sum |-> FALSE]
NoOwner == [attempt |-> 0, step |-> 0]
Pending == [ok |-> FALSE, of |-> NoOwner]
Freed == [live |-> FALSE, sems |-> {}, connected |-> FALSE, reset |-> FALSE, seen |-> FALSE,
          sync |-> "unknown", connect |-> "unknown", gatt |-> Pending, write |-> Pending,
          found |-> FALSE]
Created == [Freed EXCEPT !.live = TRUE]
NoSession == [tx |-> 0, received |-> 0, failed |-> FALSE, rejected |-> FALSE, awaited |-> None,
              value |-> None, heard |-> {}, target |-> None]
Off == [host |-> FALSE, scanning |-> FALSE, link |-> "down", paired |-> FALSE, procs |-> <<>>,
        events |-> <<>>]
Silence == [toDevice |-> <<>>, toClient |-> <<>>]
NoRequest == [profile |-> None, mode |-> None, pairing |-> FALSE, known |-> FALSE,
              instance |-> 0, attempts |-> 1]
Met(d) == Confirms(d.output, request.mode) /\ d.mode = request.mode

Init ==
    /\ pc = "idle" /\ step = 1 /\ request = NoRequest /\ result = Unset
    /\ context = Freed /\ session = NoSession /\ nimble = Off /\ air = Silence
    /\ device \in {[mode |-> d.mode, output |-> d.output, matches |-> d.matches, grant |-> 0,
                   owed |-> 0] : d \in Devices}
    /\ truth = [executed |-> FALSE, met |-> FALSE]

(* What is done before the first attempt; the stack may fail to start.     *)
Run ==
    /\ pc = "idle" /\ request' \in Requests
    /\ result' = Unset /\ context' = Created /\ session' = NoSession
    /\ pc' = "sync" /\ nimble' = [Off EXCEPT !.host = TRUE]
    /\ UNCHANGED <<step, air, device, truth>>

(* nimble_port_init, or a later step and then the deinit, fails: reboot.   *)
(* Else the context is given back.                                         *)
StackFails ==
    /\ pc = "idle" /\ request' \in Requests
    /\ \E restart \in BOOLEAN :
        /\ result' = [Unset EXCEPT !.restart = restart]
        /\ context' = IF restart THEN Created ELSE Freed
    /\ pc' = "report"
    /\ UNCHANGED <<step, session, nimble, air, device, truth>>

(* A wait: take the semaphore.                                             *)
Take(sem) == sem \in context.sems /\ context' = [context EXCEPT !.sems = @ \ {sem}]
Drained(sem) == [context EXCEPT !.sems = @ \ {sem}]

HostSynced ==
    /\ pc = "sync" /\ Take("sync") /\ context.sync = "ok" /\ ~context.reset
    /\ pc' = "scan"
    /\ UNCHANGED <<step, request, result, session, radio>>

(* Timeout, error or reset.                                                *)
HostNotSynced ==
    /\ pc = "sync" /\ pc' = "stop"
    /\ UNCHANGED <<step, request, result, context, session, radio>>

(* stop_and_deinit_stack.  Its success ends the host task and its callbacks. *)
Stop ==
    /\ pc = "stop" /\ pc' = "report"
    /\ context' = Freed /\ session' = NoSession /\ nimble' = Off /\ air' = Silence
    /\ device' = [device EXCEPT !.grant = 0, !.owed = 0]
    /\ UNCHANGED <<step, request, result, truth>>

(* Mutant: the failure frame keeps the verification of the attempt.        *)
StillVerified == [result EXCEPT !.code = "stack_error", !.restart = TRUE]

RequireRestart == [result EXCEPT !.code = "stack_error", !.verified = FALSE, !.restart = TRUE]

(* Mutant: the context is given back although the host did not stop.        *)
StopAnyway ==
    /\ pc = "stop" /\ pc' = "report" /\ result' = RequireRestart /\ context' = Freed
    /\ UNCHANGED <<step, request, session, nimble, air, device, truth>>

StopFails ==
    /\ pc = "stop" /\ pc' = "report" /\ result' = RequireRestart
    /\ nimble' \in {nimble, [Off EXCEPT !.events = nimble.events]}
    /\ UNCHANGED <<step, request, context, session, air, device, truth>>

(* The manager sends the result, and reboots the ESP if it has to.         *)
Report ==
    /\ pc = "report" /\ pc' = "idle" /\ step' = 1 /\ request' = NoRequest /\ result' = Unset
    /\ IF result.restart
       THEN context' = Freed /\ session' = NoSession /\ nimble' = Off /\ air' = Silence
            /\ device' = [device EXCEPT !.grant = 0, !.owed = 0]
       ELSE UNCHANGED <<context, session, nimble, air, device>>
    /\ truth' = [executed |-> FALSE, met |-> FALSE]

-----------------------------------------------------------------------------
(* One attempt: scan, connect, pair.                                       *)

Ends(code) == pc' = "next" /\ result' = [result EXCEPT !.code = code]
Leaves(code) == pc' = "drop" /\ result' = [result EXCEPT !.code = code]

Scan ==
    /\ pc = "scan"
    /\ context' = [Drained("scan") EXCEPT !.seen = FALSE]
    /\ \/ pc' = "scanning" /\ nimble' = [nimble EXCEPT !.scanning = TRUE]
       \/ pc' = "scan_abort" /\ UNCHANGED nimble
    /\ UNCHANGED <<step, request, result, session, air, device, truth>>

Scanned ==
    /\ pc = "scanning" /\ Take("scan") /\ ~context.reset
    /\ IF context.seen \/ request.known
       THEN pc' = "connect" /\ UNCHANGED result
       ELSE Ends("target_not_found")
    /\ UNCHANGED <<step, request, session, radio>>

ScanFails ==
    /\ pc = "scanning" /\ pc' = "scan_abort"
    /\ UNCHANGED <<step, request, result, context, session, radio>>

ScanAbort ==
    /\ pc = "scan_abort" /\ Ends("stack_error")
    /\ nimble' = [nimble EXCEPT !.scanning = FALSE]
    /\ UNCHANGED <<step, request, context, session, air, device, truth>>

(* NimBLE refuses while it scans or still has a link.                      *)
Connect ==
    /\ pc = "connect"
    /\ context' = [Drained("connect") EXCEPT !.connect = "unknown"]
    /\ \/ /\ nimble.host /\ nimble.link = "down" /\ ~nimble.scanning
          /\ pc' = "connecting" /\ nimble' = [nimble EXCEPT !.link = "connecting"]
       \/ pc' = "connect_abort" /\ UNCHANGED nimble
    /\ UNCHANGED <<step, request, result, session, air, device, truth>>

Connected ==
    /\ pc = "connecting" /\ Take("connect")
    /\ context.connect = "ok" /\ context.connected /\ ~context.reset
    /\ pc' = IF request.pairing THEN "secure" ELSE "issue"
    /\ step' = 1
    /\ UNCHANGED <<request, result, session, radio>>

ConnectFails ==
    /\ pc = "connecting" /\ pc' = "connect_abort"
    /\ context' \in {context, Drained("connect")}
    /\ UNCHANGED <<step, request, result, session, radio>>

(* A connection that is not there yet is cancelled, and waited for; one     *)
(* that came after all is dropped.                                         *)
ConnectAbort ==
    /\ pc = "connect_abort" /\ pc' = "abandoned"
    /\ nimble' = IF ~context.connected /\ nimble.link = "connecting"
                 THEN [nimble EXCEPT !.link = "down", !.events = Append(@, "connect_failed")]
                 ELSE nimble
    /\ UNCHANGED <<step, request, result, context, session, air, device, truth>>

Abandoned ==
    /\ pc = "abandoned" /\ Leaves("connect_failed")
    /\ context' \in {context, Drained("connect")}
    /\ UNCHANGED <<step, request, session, radio>>

Secured ==
    /\ pc = "secure" /\ context.connected /\ nimble.paired /\ ~context.reset
    /\ pc' = "issue"
    /\ UNCHANGED <<step, request, result, context, session, radio>>

NotSecured ==
    /\ pc = "secure" /\ Leaves("security_failed")
    /\ UNCHANGED <<step, request, context, session, radio>>

-----------------------------------------------------------------------------
(* GATT procedures and acknowledged writes: one at a time.                 *)

Owner == [attempt |-> result.attempts, step |-> step]
Advance == step' = step + 1 /\ pc' = IF Plan[step + 1] \in Procedures \cup Writes THEN "issue" ELSE "ask"

Issue ==
    /\ pc = "issue" /\ (Stage \in Writes => context.connected)
    /\ context' = IF Stage \in Writes
                  THEN [Drained("write") EXCEPT !.write = Pending]
                  ELSE [Drained("gatt") EXCEPT !.gatt = Pending, !.found = FALSE]
    /\ nimble.link = "up" /\ nimble' = [nimble EXCEPT !.procs = Append(@, Owner)]
    /\ pc' = "await"
    /\ UNCHANGED <<step, request, result, session, air, device, truth>>

(* Mutant: an MTU request without an answer is passed over.                 *)
Tolerated ==
    /\ pc \in {"issue", "await"}
    /\ IF Stage = "mtu" /\ context.connected THEN Advance /\ UNCHANGED result
       ELSE Leaves(FailCode(Stage)) /\ UNCHANGED step
    /\ UNCHANGED <<request, context, session, radio>>

(* NimBLE refuses, the link is gone, or nothing comes in time.             *)
Failed ==
    /\ pc \in {"issue", "await"} /\ Leaves(FailCode(Stage))
    /\ context' \in {context, Drained(IF Stage \in Writes THEN "write" ELSE "gatt")}
    /\ UNCHANGED <<step, request, session, radio>>

Usable == context.connected /\ ~context.reset
Completed(sem, status) ==
    /\ pc = "await" /\ Take(sem) /\ status.ok /\ Usable

(* wait_gatt, and what the procedure was to find.                          *)
Discovered ==
    /\ Stage \in Procedures \ {"reread"} /\ Completed("gatt", context.gatt) /\ context.found
    /\ session' = IF Stage = "info" THEN [session EXCEPT !.tx = 0, !.received = 0, !.failed = FALSE]
                  ELSE session
    /\ Advance
    /\ UNCHANGED <<request, result, radio>>

Written ==
    /\ Stage \in Writes /\ Completed("write", context.write)
    /\ IF request.profile = "write"
       THEN /\ pc' = "drop" /\ UNCHANGED step
            /\ result' = [result EXCEPT !.changed = TRUE, !.code = "ok"]
       ELSE /\ Advance
            /\ result' = [result EXCEPT !.changed = @ \/ Stage = "write"]
    /\ UNCHANGED <<request, session, radio>>

Reread ==
    /\ Stage = "reread" /\ Completed("gatt", context.gatt) /\ context.found
    /\ pc' = "drop" /\ result' = [result EXCEPT !.verified = TRUE, !.code = "ok"]
    /\ UNCHANGED <<step, request, session, radio>>

-----------------------------------------------------------------------------
(* The Victron session: requests against credits, answers as notifications. *)

Healthy(s) == Usable /\ ~s.failed /\ ~s.rejected

(* flush_receive_credits: grant again exactly what was received.           *)
(* Mutant: a fixed grant instead of what was received.                      *)
FixedReturn == IF session.received >= ReturnAt
               THEN <<[kind |-> "credits", n |-> ReturnAt + 1]>> ELSE <<>>
Returned == IF session.received >= ReturnAt
            THEN <<[kind |-> "credits", n |-> session.received]>> ELSE <<>>
Flushed(s) == [s EXCEPT !.received = IF @ >= ReturnAt THEN 0 ELSE @]
Message(kind, what) == [kind |-> kind, what |-> what, n |-> 1]
Transmit(messages) ==
    /\ nimble.link = "up"
    /\ air' = [air EXCEPT !.toDevice = @ \o messages]

Open ==
    /\ pc = "ask" /\ Stage = "open" /\ Healthy(session)
    /\ Transmit(Returned \o <<[kind |-> "credits", n |-> Window]>>)
    /\ session' = Flushed(session)
    /\ Advance
    /\ UNCHANGED <<request, result, context, nimble, device, truth>>

(* request_register, subscribe_instance and the list of devices: what is   *)
(* awaited is set before the request is sent.                              *)
Awaiting == [session EXCEPT !.awaited = Register(Stage),
                            !.value = IF Register(Stage) = None THEN @ ELSE None,
                            !.rejected = IF Register(Stage) = None THEN @ ELSE FALSE,
                            !.target = IF Stage \in Subscribes THEN Stage ELSE None]
Question == IF Register(Stage) = None THEN Message("list", Stage) ELSE Message("get", Register(Stage))

Ask ==
    /\ pc = "ask" /\ Stage \notin {"open", "keepalive", "set"}
    /\ Healthy(Awaiting) /\ session.tx > 0
    /\ Transmit(Returned \o <<Question>>)
    /\ session' = [Flushed(Awaiting) EXCEPT !.tx = @ - 1]
    /\ pc' = "hear"
    /\ UNCHANGED <<step, request, result, context, nimble, device, truth>>

(* maintain_session, and protocol_write while it has no credit.            *)
Maintain ==
    /\ pc \in {"ask", "hear"} /\ Stage # "open" /\ Healthy(session) /\ Returned # <<>>
    /\ Transmit(Returned) /\ session' = Flushed(session)
    /\ UNCHANGED <<client, context, nimble, device, truth>>

KeepAlive ==
    /\ \/ pc = "ask" /\ Stage = "keepalive" /\ Advance
       \/ /\ pc = "hear" /\ request.profile = "mppt" /\ Register(Stage) # None
          /\ UNCHANGED <<pc, step>>
    /\ Healthy(session) /\ session.tx > 0
    /\ Transmit(Returned \o <<Message("keepalive", None)>>)
    /\ session' = [Flushed(session) EXCEPT !.tx = @ - 1]
    /\ UNCHANGED <<request, result, context, nimble, device, truth>>

(* The mode is right already: no switch write.                             *)
AlreadySet ==
    /\ pc = "ask" /\ Stage = "set" /\ result.initial = request.mode /\ Advance
    /\ UNCHANGED <<request, result, context, session, radio>>

Set ==
    /\ pc = "ask" /\ Stage = "set" /\ result.initial # request.mode
    /\ Healthy(session) /\ session.tx > 0
    /\ Transmit(Returned \o <<Message("set", request.mode)>>)
    /\ session' = [Flushed(session) EXCEPT !.tx = @ - 1]
    /\ result' = [result EXCEPT !.changed = TRUE]
    /\ pc' = "settle"
    /\ UNCHANGED <<step, request, context, nimble, device, truth>>

(* The delays; past the deadline of the attempt they fail.                 *)
Settle ==
    /\ pc = "settle"
    /\ \/ Stage = "set" /\ Advance /\ UNCHANGED result
       \/ Stage = "output" /\ pc' = "ask" /\ UNCHANGED <<step, result>>
       \/ Leaves("verify_failed") /\ UNCHANGED step
    /\ UNCHANGED <<request, context, session, radio>>

Heard == IF Register(Stage) = None THEN Stage \in session.heard ELSE session.value # None
(* Mutant: the readback of the mode is not compared.                        *)
AnyMode(value) == Stage = "product" => value = "match"
Acceptable(value) ==
    CASE Stage = "product" -> value = "match"
      [] Stage = "initial" -> request.profile = "mppt" \/ value \in {"on", "off"}
      [] Stage = "readback" -> value = request.mode
      [] OTHER -> TRUE
Learned(value) ==
    CASE Stage = "initial" -> [result EXCEPT !.initial = value,
                                  !.load = IF request.profile = "mppt" THEN value ELSE @]
      [] Stage = "readback" -> [result EXCEPT !.value = value,
                                  !.load = IF request.profile = "mppt" THEN value ELSE @]
      [] Stage \in {"output_before", "output"} /\ request.profile = "battery" ->
            [result EXCEPT !.load = value]
      [] OTHER -> result

(* An answer, and what it decides.                                         *)
Hear ==
    /\ pc = "hear" /\ Healthy(session) /\ Heard
    /\ LET value == session.value
           learned == Learned(value)
       IN  CASE ~Acceptable(value) ->
                    /\ pc' = "drop" /\ result' = [learned EXCEPT !.code = FailCode(Stage)]
                    /\ UNCHANGED step
             [] Acceptable(value) /\ Stage # "output" -> Advance /\ result' = learned
             [] Stage = "output" /\ Confirms(value, request.mode) ->
                    /\ pc' = "drop" /\ result' = [learned EXCEPT !.verified = TRUE, !.code = "ok"]
                    /\ UNCHANGED step
             [] Stage = "output" /\ ~Confirms(value, request.mode) ->
                    /\ result' = [learned EXCEPT !.polls = @ + 1, !.code = "verify_failed"]
                    /\ pc' = IF result.polls + 1 < MaxPolls THEN "settle" ELSE "drop"
                    /\ UNCHANGED step
    /\ session' = [session EXCEPT !.awaited = None, !.target = None]
    /\ UNCHANGED <<request, context, radio>>

(* No credit, no answer in time, a rejection, a write that fails.          *)
Unheard ==
    /\ pc \in {"ask", "hear"} /\ Leaves(FailCode(Stage))
    /\ session' = [session EXCEPT !.awaited = None, !.target = None]
    /\ UNCHANGED <<step, request, context, radio>>

-----------------------------------------------------------------------------
(* The end of an attempt, and of the last one.                             *)

(* disconnect_if_needed: whether or not the disconnection is confirmed in  *)
(* time, the client takes the link for gone.  Of the session only a switch  *)
(* write that is still under way matters from here on: nothing looks at the *)
(* context's part of it before the reset_gatt_state of the next discovery. *)
(* There is at most one: an attempt sends it once, and none outlives a link. *)
Switching(messages) == \E i \in DOMAIN messages : messages[i].kind = "set"
Remains == [toDevice |-> IF Switching(air.toDevice) THEN <<Message("set", request.mode)>> ELSE <<>>,
            toClient |-> <<>>]
Terminated == IF nimble.link = "up" THEN [nimble EXCEPT !.link = "closing"] ELSE nimble
Drop(here, waiting, after) ==
    \/ /\ pc = here /\ ~context.connected /\ pc' = after
       /\ UNCHANGED <<context, nimble>>
    \/ /\ pc = here /\ context.connected /\ nimble.link = "up" /\ pc' = waiting
       /\ nimble' = Terminated
       /\ UNCHANGED context
    \/ /\ pc = here /\ context.connected /\ pc' = after
       /\ context' = [context EXCEPT !.connected = FALSE]
       /\ UNCHANGED nimble
    \/ /\ pc = waiting /\ pc' = after
       /\ context' = [context EXCEPT !.connected = FALSE]
       /\ UNCHANGED nimble

Disconnect ==
    /\ Drop("drop", "dropping", "next") \/ Drop("last_drop", "last_dropping", "stop")
    /\ air' = Remains /\ device' = [device EXCEPT !.grant = 0, !.owed = 0]
    /\ session' = NoSession
    /\ UNCHANGED <<step, request, result, truth>>

Sum == result.sum \/ result.changed

Retry ==
    /\ pc = "next" /\ result.code \notin {"ok", "stack_error"} /\ result.attempts < request.attempts
    /\ result' = [Unset EXCEPT !.attempts = result.attempts + 1, !.sum = Sum]
    /\ pc' = "scan" /\ step' = 1
    /\ UNCHANGED <<request, context, session, radio>>

Finish ==
    /\ pc = "next"
    /\ result.code \in {"ok", "stack_error"} \/ result.attempts = request.attempts
    /\ result' = [result EXCEPT !.changed = Sum]
    /\ pc' = "last_drop"
    /\ UNCHANGED <<step, request, context, session, radio>>

Client ==
    \/ Run \/ StackFails \/ HostSynced \/ HostNotSynced \/ Stop \/ StopFails \/ Report
    \/ Scan \/ Scanned \/ ScanFails \/ ScanAbort \/ Connect \/ Connected \/ ConnectFails
    \/ ConnectAbort \/ Abandoned \/ Secured \/ NotSecured
    \/ Issue \/ Failed \/ Discovered \/ Written \/ Reread
    \/ Open \/ Ask \/ Maintain \/ KeepAlive \/ AlreadySet \/ Set \/ Settle \/ Hear \/ Unheard
    \/ Disconnect \/ Retry \/ Finish

-----------------------------------------------------------------------------
(* The host task.                                                          *)

Given(sems) == [context EXCEPT !.sems = @ \cup sems]

Sync ==
    /\ nimble.host /\ context.sync # "ok"
    /\ \E status \in {"ok", "error"} : context' = [Given({"sync"}) EXCEPT !.sync = status]
    /\ UNCHANGED <<client, session, radio>>

(* The connections are broken before the callback.                         *)
Reset ==
    /\ nimble.host /\ ~context.reset /\ nimble.link = "down" /\ nimble.events = <<>>
    /\ context' = [Given({"sync", "scan", "connect", "gatt", "write"}) EXCEPT
                       !.reset = TRUE, !.sync = "error"]
    /\ nimble' = [nimble EXCEPT !.scanning = FALSE]
    /\ UNCHANGED <<client, session, air, device, truth>>

(* BLE_GAP_EVENT_DISC of the target; a cancelled scan has no other event.  *)
Sighted ==
    /\ nimble.scanning
    /\ \E cancelled \in BOOLEAN :
        /\ nimble' = [nimble EXCEPT !.scanning = ~cancelled]
        /\ context' = [(IF cancelled THEN Given({"scan"}) ELSE context) EXCEPT !.seen = TRUE]
    /\ UNCHANGED <<client, session, air, device, truth>>

ScanOver ==
    /\ nimble.scanning /\ nimble' = [nimble EXCEPT !.scanning = FALSE]
    /\ context' = Given({"scan"})
    /\ UNCHANGED <<client, session, air, device, truth>>

LinkUp ==
    /\ nimble.link = "connecting"
    /\ nimble' = [nimble EXCEPT !.link = "up", !.paired = FALSE, !.events = Append(@, "connected")]
    /\ truth' = [truth EXCEPT !.met = Met(device)]
    /\ UNCHANGED <<client, context, session, air, device>>

LinkRefused ==
    /\ nimble.link = "connecting"
    /\ nimble' = [nimble EXCEPT !.link = "down", !.events = Append(@, "connect_failed")]
    /\ UNCHANGED <<client, context, session, air, device, truth>>

(* A link that breaks fails the pending procedure first.                   *)
Answered(owner, ok) ==
    IF Plan[owner.step] \in Writes
    THEN [Given({"write"}) EXCEPT !.write = IF ok THEN [ok |-> TRUE, of |-> owner] ELSE Pending]
    ELSE [Given({"gatt"}) EXCEPT !.gatt = IF ok THEN [ok |-> TRUE, of |-> owner] ELSE Pending]

LinkLost ==
    /\ nimble.link \in {"up", "closing"}
    /\ context' = IF nimble.procs = <<>> THEN context ELSE Answered(Last(nimble.procs), FALSE)
    /\ nimble' = [nimble EXCEPT !.link = "down", !.procs = <<>>, !.paired = FALSE,
                                !.events = Append(@, "disconnected")]
    /\ air' = Silence /\ device' = [device EXCEPT !.grant = 0, !.owed = 0]
    /\ UNCHANGED <<client, session, truth>>

GapEvent(event) ==
    CASE event = "connected" -> [Given({"connect"}) EXCEPT !.connect = "ok", !.connected = TRUE]
      [] event = "connect_failed" -> [Given({"connect"}) EXCEPT !.connect = "error"]
      [] event = "disconnected" ->
            [Given({"connect", "gatt", "write"}) EXCEPT !.connected = FALSE, !.connect = "error",
                !.gatt = Pending, !.write = Pending]
Deliver ==
    /\ nimble.events # <<>>
    /\ context' = GapEvent(Head(nimble.events))
    /\ nimble' = [nimble EXCEPT !.events = Tail(@)]
    /\ UNCHANGED <<client, session, air, device, truth>>

Encrypted ==
    /\ nimble.link = "up" /\ request.pairing /\ nimble' = [nimble EXCEPT !.paired = TRUE]
    /\ UNCHANGED <<client, context, session, air, device, truth>>

(* The pending procedure ends: with an error, with or without what it was  *)
(* to find.  With the first CCCD the device may grant credits.             *)
Complete ==
    /\ nimble.procs # <<>>
    /\ \E ok \in BOOLEAN, found \in BOOLEAN : LET owner == Head(nimble.procs) IN
        /\ found => ok /\ Plan[owner.step] \notin Writes
        /\ context' = [Answered(owner, ok) EXCEPT !.found = found]
        /\ device' = IF ok /\ Plan[owner.step] = "cccd" /\ Plan[owner.step - 1] # "cccd"
                     THEN [device EXCEPT !.owed = TxLimit] ELSE device
    /\ nimble' = [nimble EXCEPT !.procs = Tail(@)]
    /\ UNCHANGED <<client, session, air, truth>>

(* inspect_notification                                                    *)
Inspected(m) ==
    CASE m.kind = "credits" -> [session EXCEPT !.failed = @ \/ session.tx + m.n > TxLimit,
                                               !.tx = IF @ + m.n > TxLimit THEN @ ELSE @ + m.n]
      [] m.kind = "list" -> [session EXCEPT !.received = @ + 1,
            !.heard = IF m.what = "devices" THEN @ \cup {"devices"} ELSE @ \cup ({session.target} \ {None})]
      [] m.kind = "refused" -> [session EXCEPT !.received = @ + 1, !.rejected = @ \/ session.awaited = "mode"]
      [] m.kind = "value" -> [session EXCEPT !.received = @ + 1,
            !.value = IF session.awaited = m.what THEN m.value ELSE @]
Overflows(m) == m.kind # "credits" /\ session.received = Window
NotifyRx ==
    /\ air.toClient # <<>> /\ nimble.link = "up"
    /\ session' = IF Overflows(Head(air.toClient)) THEN [session EXCEPT !.failed = TRUE]
                  ELSE Inspected(Head(air.toClient))
    /\ air' = [air EXCEPT !.toClient = Tail(@)]
    /\ UNCHANGED <<client, context, nimble, device, truth>>

Host == Sync \/ Reset \/ Sighted \/ ScanOver \/ LinkUp \/ LinkRefused \/ LinkLost \/ Deliver
        \/ Encrypted \/ Complete \/ NotifyRx

-----------------------------------------------------------------------------
(* The device.                                                             *)

Value(what) == CASE what = "product" -> IF device.matches THEN "match" ELSE "other"
                 [] what = "mode" -> device.mode
                 [] what = "output" -> device.output
Tell(kind, what, value) ==
    air' = [toDevice |-> IF kind = "notify" THEN air.toDevice ELSE Tail(air.toDevice),
            toClient |-> Append(air.toClient, [kind |-> IF kind = "notify" THEN "value" ELSE kind,
                                               what |-> what, value |-> value, n |-> 1])]

Live == pc \in {"ask", "hear", "settle", "drop"}

(* One request, in order.  An answer needs a grant of the client.          *)
Serve ==
    /\ air.toDevice # <<>>
    /\ LET m == Head(air.toDevice)
           taken == [air EXCEPT !.toDevice = Tail(@)]
       IN  \/ /\ m.kind = "credits" /\ air' = taken
              /\ device' = [device EXCEPT !.grant = @ + m.n] /\ UNCHANGED truth
           \/ /\ m.kind = "keepalive" /\ air' = taken
              /\ device' = [device EXCEPT !.owed = @ + 1] /\ UNCHANGED truth
           \/ /\ m.kind = "set" /\ air' = taken
              /\ device' = [device EXCEPT !.owed = IF Live THEN @ + 1 ELSE 0, !.mode = m.what]
              /\ truth' = [executed |-> TRUE, met |-> truth.met \/ Met(device')]
           \/ /\ m.kind \in {"list", "get", "set"} /\ device.grant > 0
              /\ device' = [device EXCEPT !.owed = @ + 1, !.grant = @ - 1]
              /\ CASE m.kind = "list" -> Tell("list", m.what, None)
                   [] m.kind = "get" -> Tell("value", m.what, Value(m.what))
                   [] m.kind = "set" -> Tell("refused", "mode", None)
              /\ UNCHANGED truth
    /\ UNCHANGED <<client, context, session, nimble>>

(* It speaks up by itself, and its output follows its mode in its own time. *)
Notify ==
    /\ device.grant > 0 /\ \E what \in {"mode", "output"} : Tell("notify", what, Value(what))
    /\ device' = [device EXCEPT !.grant = @ - 1]
    /\ UNCHANGED <<client, context, session, nimble, truth>>

SwitchOutput ==
    /\ \E output \in Outputs \ {device.output} : device' = [device EXCEPT !.output = output]
    /\ truth' = [truth EXCEPT !.met = @ \/ Met(device')]
    /\ UNCHANGED <<client, context, session, nimble, air>>

Grant ==
    /\ device.owed > 0
    /\ air' = [air EXCEPT !.toClient = Append(@, [kind |-> "credits", n |-> device.owed])]
    /\ device' = [device EXCEPT !.owed = 0]
    /\ UNCHANGED <<client, context, session, nimble, truth>>

(* The device gives up the session.                                        *)
Abort ==
    /\ nimble.link = "up" /\ session.tx > 0 /\ session' = [session EXCEPT !.failed = TRUE]
    /\ UNCHANGED <<client, context, radio>>

Device == Serve \/ Notify \/ SwitchOutput \/ Grant \/ Abort

Next == Client \/ Host \/ Device
Spec == Init /\ [][Next]_vars

-----------------------------------------------------------------------------
(* Properties.                                                             *)

(* An OK for a Victron command rests on the device: since this connection   *)
(* came up there was a moment at which its mode was the one asked for and   *)
(* its output the one that mode calls for, whatever late answers and        *)
(* notifications the client took for the readback (run_batteryprotect,      *)
(* run_attempt).                                                           *)
Native == request.profile \in {"mppt", "battery"}
SuccessIsVerified == Native /\ result.verified => truth.met

(* Every result sent is one the STM32 accepts: a success with the values it *)
(* compares, or a failure that is not verified; also when the stack does    *)
(* not stop after a success.  And a switch write that the device executed   *)
(* in any attempt is reported as a change.                                 *)
StmAccepts ==
    IF result.code = "ok"
    THEN CASE request.profile = "battery" -> /\ result.verified /\ result.value = request.mode
                                             /\ result.load = ExpectedOutput(request.mode)
           [] request.profile = "mppt" -> /\ result.verified /\ result.value = request.mode
                                          /\ result.load = request.mode
           [] request.profile = "write" -> ~result.verified /\ result.load = None
           [] request.profile = "reread" -> result.verified /\ result.load = None
    ELSE ~result.verified
FrameAccepted ==
    pc = "report" => /\ StmAccepts
                     /\ Native /\ truth.executed => result.changed

(* A completion that lets the client go on is the one of the procedure it   *)
(* issued last, in this attempt: never one that a timeout, a reconnection   *)
(* or a reset left over (wait_gatt, write_attribute).                      *)
Proceeds == pc = "await" /\ (step' # step \/ result'.code = "ok")
OwnCompletion ==
    [][Proceeds => (IF Stage \in Writes THEN context.write ELSE context.gatt) = [ok |-> TRUE, of |-> Owner]]_vars

(* While the session runs no credit is lost or invented in either direction: *)
(* the device's grants, the chunks under way or not yet returned, and the    *)
(* returns under way make up the window; and the client's credits, requests  *)
(* under way, and those the device has yet to return make up its limit.  A   *)
(* message weighs what it carries: n credits, or the one chunk it is.        *)
Units(messages, kinds) ==
    UNION {{i} \X (1 .. messages[i].n) : i \in {j \in DOMAIN messages : messages[j].kind \in kinds}}
Granted(messages) == Cardinality(Units(messages, {"credits"}))
Carried(messages) == Cardinality(Units(messages, {"list", "get", "set", "keepalive", "value", "refused"}))
Incoming == device.grant + Granted(air.toDevice) + Carried(air.toClient) + session.received
Outgoing == session.tx + Granted(air.toClient) + Carried(air.toDevice) + device.owed
InSession == nimble.link = "up" /\ pc \in {"ask", "hear", "settle"} /\ Stage # "open"
CreditsConserved == InSession => Incoming = Window /\ Outgoing = TxLimit

(* The semaphores and the context are given back only when no callback can  *)
(* use them any more (stop_and_deinit_stack).                              *)
ContextOutlivesHost == nimble.host => context.live

=============================================================================
