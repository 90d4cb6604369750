------------------------- MODULE VictronClientProofs -------------------------
(***************************************************************************)
(* The invariant of the Bluetooth client: what the client takes for its own *)
(* completion, its own answer and its own success is so; and the account of *)
(* a session: no credit is lost or invented.  For any requests, devices,   *)
(* windows and limits.                                                     *)
(***************************************************************************)
EXTENDS VictronClient, SequenceTheorems, FiniteSetTheorems, TLAPS

\* The places of the client: in a session, after a success, after the last attempt.
InCourse == {"issue", "await", "ask", "hear", "settle"}
Speaking == {"ask", "hear", "settle"}
Closing == {"last_drop", "last_dropping", "stop", "report"}
Over == {"drop", "dropping", "next"} \cup Closing
Places == {"idle", "sync", "scan", "scanning", "scan_abort", "connect", "connecting",
           "connect_abort", "abandoned", "secure"} \cup InCourse \cup Over

Stages == {"mtu", "services", "characteristics", "descriptors", "info", "cccd", "open", "devices",
           "subscribe0", "subscribe1", "product", "initial", "output_before", "keepalive",
           "set", "readback", "output", "write", "reread"}
Registers == {"product", "mode", "output"}
Subjects == Stages \cup Registers \cup {None}
Texts == Modes \cup Outputs \cup {"match", "other", None}
Credits == [kind : {"credits"}, n : Nat]
Orders == Credits \cup [kind : {"list", "keepalive"}, what : Stages \cup {None}, n : {1}]
                  \cup [kind : {"get"}, what : Registers, n : {1}]
                  \cup [kind : {"set"}, what : Modes, n : {1}]
Answers == Credits \cup [kind : {"value", "list", "refused"}, what : Subjects, value : Texts,
                         n : {1}]

\* The fields of each record, and the types of those the invariant is about.
ClientType ==
  /\ pc \in Places /\ step \in Nat
  /\ IF pc = "idle" THEN request = NoRequest ELSE request \in Requests
  /\ DOMAIN result = {"code", "attempts", "initial", "verified", "changed", "value", "load",
                      "restart", "polls", "sum"}
ContextType ==
  DOMAIN context = {"live", "sems", "connected", "reset", "seen", "sync", "connect", "gatt",
                    "write", "found"}
SessionType ==
  /\ DOMAIN session = {"tx", "received", "failed", "rejected", "awaited", "value", "heard",
                       "target"}
  /\ session.tx \in Nat /\ session.received \in Nat
NimbleType ==
  /\ DOMAIN nimble = {"host", "scanning", "link", "paired", "procs", "events"}
  /\ nimble.link \in {"down", "connecting", "up", "closing"}
  /\ nimble.events \in Seq({"connected", "connect_failed", "disconnected"})
AirType ==
  /\ DOMAIN air = {"toDevice", "toClient"}
  /\ air.toDevice \in Seq(Orders) /\ air.toClient \in Seq(Answers)
DeviceType ==
  /\ DOMAIN device = {"mode", "output", "matches", "grant", "owed"}
  /\ device.mode \in Modes /\ device.output \in Outputs
  /\ device.grant \in Nat /\ device.owed \in Nat
TruthType == DOMAIN truth = {"executed", "met"}
Types == /\ ClientType /\ ContextType /\ SessionType /\ NimbleType /\ AirType /\ DeviceType
         /\ TruthType

\* The stage is one of the plan, of the kind the place is for.
StageInv ==
  /\ pc = "secure" => step = 1
  /\ pc \in InCourse => step \in 1 .. Len(Plan)
  /\ pc \in {"issue", "await"} => Stage \in Procedures \cup Writes
  /\ pc \in Speaking => Stage \notin Procedures \cup Writes
  /\ pc = "hear" => Stage \notin {"open", "keepalive", "set"}
  /\ pc = "settle" => Stage \in {"set", "output"}

\* The host runs only in a run, and the context is there as long as it may.
HostInv ==
  /\ nimble.host => context.live /\ pc # "idle"
  /\ pc \notin {"idle", "report"} => nimble.host /\ context.live
  /\ pc = "idle" \/ (pc = "report" /\ ~result.restart) => ~nimble.host

\* Nothing is under way, granted or owed without a link.
Quiet == air = Silence /\ device.grant = 0 /\ device.owed = 0
LinkInv ==
  /\ ~nimble.host => nimble.link = "down"
  /\ nimble.host /\ nimble.link \in {"down", "connecting"} => Quiet
  /\ pc = "idle" \/ (pc = "report" /\ ~result.restart) => Quiet
  /\ pc = "sync" => nimble.link = "down"
  /\ pc \in {"await"} \cup Speaking \/ result.code = "ok" => nimble.link # "connecting"

\* The pending procedure is the client's; an earlier one died with its link.
Current == IF Stage \in Writes THEN context.write ELSE context.gatt
ProcInv ==
  /\ nimble.procs # <<>> => nimble.link \in {"up", "closing"}
  /\ pc \in {"connecting", "secure", "issue"} \cup Speaking => nimble.procs = <<>>
  /\ pc = "await" => nimble.procs \in {<<>>, <<Owner>>}
  /\ pc = "await" /\ Current.ok
        => Current = [ok |-> TRUE, of |-> Owner] /\ nimble.procs = <<>>
  /\ result.code = "ok" => pc \in Over

\* What an answer has put into the result so far, and what must be reported.
FrameInv ==
  /\ StmAccepts
  /\ pc \in Speaking /\ Stage = "output"
        => result.value = request.mode /\ (request.profile = "mppt" => result.load = request.mode)
  /\ ~Native => result.load = None
Executing == truth.executed \/ Switching(air.toDevice)
ChangeInv ==
  /\ Executing => result.changed \/ result.sum
  /\ pc \in Closing /\ Executing => result.changed
  /\ pc \in {"idle", "sync"} => ~truth.executed

\* What the messages under way, and the answers taken, say of the device.
Turned == device.mode = request.mode /\ (request.mode = "auto" => truth.met)
Matched(m) == m.kind = "value" /\ m.what = "mode" /\ m.value = request.mode
Confirming(m) == m.kind = "value" /\ m.what = "output" /\ Confirms(m.value, request.mode)
ReadBack == pc = "hear" /\ session.awaited = "mode" /\ session.value = request.mode
LastLook == pc \in Speaking /\ Stage = "output"
MetInv ==
  /\ nimble.link \in {"up", "closing"} /\ Met(device) => truth.met
  /\ ReadBack \/ LastLook => Turned
  /\ pc = "hear" => session.awaited = Register(Stage)
  /\ pc = "hear" /\ Stage = "output" /\ session.value # None
       /\ Confirms(session.value, request.mode)
        => truth.met
  /\ SuccessIsVerified
AirInv ==
  nimble.host =>
    /\ \A i \in 1 .. Len(air.toDevice) :
          air.toDevice[i].kind = "set" => air.toDevice[i].what = request.mode
    /\ \A i \in 1 .. Len(air.toClient) : Matched(air.toClient[i]) => Turned
    /\ \A i \in 1 .. Len(air.toClient) : Confirming(air.toClient[i])
          => \/ truth.met
             \/ /\ ~ReadBack /\ ~LastLook
                /\ \A j \in 1 .. (i - 1) : ~Matched(air.toClient[j])

Inv == /\ Types /\ StageInv /\ HostInv /\ LinkInv /\ ProcInv /\ FrameInv /\ ChangeInv
       /\ MetInv /\ AirInv

-----------------------------------------------------------------------------
(* The plans, stage by stage.                                              *)

\* The course of a single characteristic write, and of one that is read back.
LEMMA WritePlans ==
  /\ request.profile = "write" => /\ Len(Plan) = 3
                                  /\ Plan[1] = "services" /\ Plan[2] = "characteristics"
                                  /\ Plan[3] = "write"
  /\ request.profile = "reread" => /\ Len(Plan) = 4
                                   /\ Plan[1] = "services" /\ Plan[2] = "characteristics"
                                   /\ Plan[3] = "write" /\ Plan[4] = "reread"
BY DEF Plan

\* What comes before a Victron session holds none of the four deciding stages.
LEMMA PrepareIs ==
  /\ Len(Prepare) = 13
  /\ Prepare[1] = "mtu"
  /\ \A i \in 1 .. 13 : Prepare[i] \in Stages \ {"output", "reread", "write", "readback"}
BY DEF Prepare, Stages

\* A switching plan begins with the MTU and ends with set, readback, output.
LEMMA NativePlan ==
  ASSUME request.profile \in {"battery", "mppt"}
  PROVE  \E n \in Nat :
           /\ n > 3 /\ Len(Plan) = n
           /\ Plan[1] = "mtu"
           /\ Plan[n] = "output" /\ Plan[n - 1] = "readback" /\ Plan[n - 2] = "set"
           /\ \A i \in 1 .. (n - 2) : Plan[i] \in Stages \ {"output", "reread", "write", "readback"}
<1>1. CASE request.profile = "battery"
  <2>1. Len(Plan) = 19
    BY <1>1 DEF Plan, Prepare, Switch
  <2>2. Plan[1] = "mtu"
    BY <1>1 DEF Plan, Prepare, Switch
  <2>3. Plan[19] = "output" /\ Plan[18] = "readback" /\ Plan[17] = "set"
    BY <1>1 DEF Plan, Prepare, Switch
  <2>4. \A i \in 1 .. 17 : Plan[i] \in Stages \ {"output", "reread", "write", "readback"}
    BY <1>1 DEF Plan, Prepare, Switch, Stages
  <2> QED
    BY <2>1, <2>2, <2>3, <2>4
<1>2. CASE request.profile = "mppt" /\ request.instance = 0
  <2>1. Len(Plan) = 18
    BY <1>2 DEF Plan, Prepare, Switch
  <2>2. Plan[1] = "mtu"
    BY <1>2 DEF Plan, Prepare, Switch
  <2>3. Plan[18] = "output" /\ Plan[17] = "readback" /\ Plan[16] = "set"
    BY <1>2 DEF Plan, Prepare, Switch
  <2>4. \A i \in 1 .. 16 : Plan[i] \in Stages \ {"output", "reread", "write", "readback"}
    BY <1>2 DEF Plan, Prepare, Switch, Stages
  <2> QED
    BY <2>1, <2>2, <2>3, <2>4
<1>3. CASE request.profile = "mppt" /\ request.instance # 0
  <2>1. Len(Plan) = 19
    BY <1>3 DEF Plan, Prepare, Switch
  <2>2. Plan[1] = "mtu"
    BY <1>3 DEF Plan, Prepare, Switch
  <2>3. Plan[19] = "output" /\ Plan[18] = "readback" /\ Plan[17] = "set"
    BY <1>3 DEF Plan, Prepare, Switch
  <2>4. \A i \in 1 .. 17 : Plan[i] \in Stages \ {"output", "reread", "write", "readback"}
    BY <1>3 DEF Plan, Prepare, Switch, Stages
  <2> QED
    BY <2>1, <2>2, <2>3, <2>4
<1> QED
  BY <1>1, <1>2, <1>3

\* Every plan begins with a procedure and ends with what decides the request.
LEMMA PlanFacts ==
  ASSUME request \in Requests
  PROVE  /\ Len(Plan) \in Nat /\ Len(Plan) > 2
         /\ \A i \in 1 .. Len(Plan) : Plan[i] \in Stages
         /\ Plan[1] \in Procedures
         /\ Plan[Len(Plan)] \in {"output", "reread", "write"}
         /\ Plan[Len(Plan)] = "write" => request.profile = "write"
         /\ \A i \in 1 .. (Len(Plan) - 1) : Plan[i + 1] = "output" => Plan[i] = "readback"
         /\ \A i \in 1 .. Len(Plan) :
              /\ Plan[i] = "reread" => request.profile = "reread"
              /\ IF Native THEN Plan[i] \notin {"write", "reread"}
                           ELSE Plan[i] \in {"services", "characteristics", "write", "reread"}
<1>0. request.profile \in {"mppt", "battery", "write", "reread"}
  BY RequestsAssumption DEF Request
<1>1. CASE Native
  <2>1. PICK n \in Nat :
           /\ n > 3 /\ Len(Plan) = n
           /\ Plan[1] = "mtu"
           /\ Plan[n] = "output" /\ Plan[n - 1] = "readback" /\ Plan[n - 2] = "set"
           /\ \A i \in 1 .. (n - 2) : Plan[i] \in Stages \ {"output", "reread", "write", "readback"}
    BY <1>1, NativePlan DEF Native
  <2>2. \A i \in 1 .. n : i \in 1 .. (n - 2) \/ i = n - 1 \/ i = n
    BY <2>1
  <2>3. \A i \in 1 .. n : Plan[i] \in Stages \ {"reread", "write"}
    BY <2>1, <2>2 DEF Stages
  <2>4. \A i \in 1 .. (n - 1) : Plan[i + 1] = "output" => Plan[i] = "readback"
    <3> SUFFICES ASSUME NEW i \in 1 .. (n - 1), Plan[i + 1] = "output" PROVE Plan[i] = "readback"
      OBVIOUS
    <3>1. i + 1 \in 1 .. n
      OBVIOUS
    <3>2. i + 1 = n
      BY <2>1, <2>2, <3>1
    <3> QED
      BY <2>1, <3>2
  <2> QED
    BY <1>1, <2>1, <2>3, <2>4 DEF Procedures
<1>2. CASE request.profile = "write"
  <2>1. \A i \in 1 .. 3 : i = 1 \/ i = 2 \/ i = 3
    OBVIOUS
  <2>2. /\ Len(Plan) = 3 /\ Plan[3] = "write" /\ Plan[1] \in Procedures /\ ~Native
    BY <1>2, WritePlans DEF Native, Procedures
  <2>3. \A i \in 1 .. 3 : Plan[i] \in {"services", "characteristics", "write"}
    BY <1>2, <2>1, WritePlans
  <2>4. \A i \in 1 .. 2 : i + 1 \in 1 .. 3
    OBVIOUS
  <2> QED
    BY <1>2, <2>2, <2>3, <2>4 DEF Stages
<1>3. CASE request.profile = "reread"
  <2>1. \A i \in 1 .. 4 : i = 1 \/ i = 2 \/ i = 3 \/ i = 4
    OBVIOUS
  <2>2. /\ Len(Plan) = 4 /\ Plan[4] = "reread" /\ Plan[1] \in Procedures /\ ~Native
    BY <1>3, WritePlans DEF Native, Procedures
  <2>3. \A i \in 1 .. 4 : Plan[i] \in {"services", "characteristics", "write", "reread"}
    BY <1>3, <2>1, WritePlans
  <2>4. \A i \in 1 .. 3 : i + 1 \in 1 .. 4
    OBVIOUS
  <2> QED
    BY <1>3, <2>2, <2>3, <2>4 DEF Stages
<1> QED
  BY <1>0, <1>1, <1>2, <1>3 DEF Native

\* The plan is the request's.
LEMMA PlanKept == request' = request => Plan' = Plan /\ Native' = Native
BY DEF Plan, Native

\* One stage on: the plan goes on, and the next place fits its stage.
LEMMA Advanced ==
  ASSUME request \in Requests, step \in 1 .. Len(Plan), Advance, UNCHANGED request,
         Stage \notin {"output", "reread"}, Stage = "write" => request.profile # "write"
  PROVE  /\ step' \in 1 .. Len(Plan)' /\ pc' \in {"issue", "ask"}
         /\ pc' = "issue" => Stage' \in Procedures \cup Writes
         /\ pc' = "ask" => Stage' \notin Procedures \cup Writes
         /\ Stage' = "output" => Stage = "readback"
<1>1. step + 1 \in 1 .. Len(Plan)
  BY PlanFacts DEF Stage
<1>2. step' = step + 1 /\ Plan' = Plan /\ Stage' = Plan[step + 1]
  BY PlanKept DEF Advance, Stage
<1>3. Plan[step + 1] = "output" => Plan[step] = "readback"
  BY <1>1, PlanFacts
<1> QED
  BY <1>1, <1>2, <1>3 DEF Advance, Stage

-----------------------------------------------------------------------------
(* What moves each variable.                                               *)

\* The actions that may change the place, the stage or the request.
LEMMA RequestMoves ==
  Next =>
    \/ UNCHANGED request \/ Run \/ StackFails \/ Report
BY DEF Next, Client, Host, Device, client, radio, HostSynced, HostNotSynced, Stop, StopFails,
  Scan, Scanned, ScanFails, ScanAbort, Connect, Connected, ConnectFails, ConnectAbort,
  Abandoned, Secured, NotSecured, Issue, Failed, Discovered, Written, Reread, Open, Ask,
  Maintain, KeepAlive, AlreadySet, Set, Settle, Hear, Unheard, Disconnect, Retry, Finish, Sync,
  Reset, Sighted, ScanOver, LinkUp, LinkRefused, LinkLost, Deliver, Encrypted, Complete,
  NotifyRx, Serve, Notify, SwitchOutput, Grant, Abort

\* The actions that may change the result.
LEMMA ResultMoves ==
  Next =>
    \/ UNCHANGED result \/ Run \/ StackFails \/ StopFails \/ Report \/ Scanned \/ ScanAbort
       \/ Abandoned \/ NotSecured \/ Failed \/ Written \/ Reread \/ Set \/ Settle \/ Hear \/
       Unheard \/ Retry \/ Finish
BY DEF Next, Client, Host, Device, client, radio, HostSynced, HostNotSynced, Stop, Scan,
  ScanFails, Connect, Connected, ConnectFails, ConnectAbort, Secured, Issue, Discovered, Open,
  Ask, Maintain, KeepAlive, AlreadySet, Disconnect, Sync, Reset, Sighted, ScanOver, LinkUp,
  LinkRefused, LinkLost, Deliver, Encrypted, Complete, NotifyRx, Serve, Notify, SwitchOutput,
  Grant, Abort

\* The actions that may change the context.
LEMMA ContextMoves ==
  Next =>
    \/ UNCHANGED context \/ Run \/ StackFails \/ HostSynced \/ Stop \/ Report \/ Scan \/
       Scanned \/ Connect \/ Connected \/ ConnectFails \/ Abandoned \/ Issue \/ Failed \/
       Discovered \/ Written \/ Reread \/ Disconnect \/ Sync \/ Reset \/ Sighted \/ ScanOver \/
       LinkLost \/ Deliver \/ Complete
BY DEF Next, Client, Host, Device, client, radio, HostNotSynced, StopFails, ScanFails,
  ScanAbort, ConnectAbort, Secured, NotSecured, Open, Ask, Maintain, KeepAlive, AlreadySet, Set,
  Settle, Hear, Unheard, Retry, Finish, LinkUp, LinkRefused, Encrypted, NotifyRx, Serve, Notify,
  SwitchOutput, Grant, Abort

\* The actions that may change the session.
LEMMA SessionMoves ==
  Next =>
    \/ UNCHANGED session \/ Run \/ Stop \/ Report \/ Discovered \/ Open \/ Ask \/ Maintain \/
       KeepAlive \/ Set \/ Hear \/ Unheard \/ Disconnect \/ NotifyRx \/ Abort
BY DEF Next, Client, Host, Device, client, radio, StackFails, HostSynced, HostNotSynced,
  StopFails, Scan, Scanned, ScanFails, ScanAbort, Connect, Connected, ConnectFails,
  ConnectAbort, Abandoned, Secured, NotSecured, Issue, Failed, Written, Reread, AlreadySet,
  Settle, Retry, Finish, Sync, Reset, Sighted, ScanOver, LinkUp, LinkRefused, LinkLost, Deliver,
  Encrypted, Complete, Serve, Notify, SwitchOutput, Grant

\* The actions that may change the host, the link or its procedures.
LEMMA NimbleMoves ==
  Next =>
    \/ UNCHANGED nimble \/ Run \/ Stop \/ StopFails \/ Report \/ Scan \/ ScanAbort \/ Connect
       \/ ConnectAbort \/ Issue \/ Disconnect \/ Reset \/ Sighted \/ ScanOver \/ LinkUp \/
       LinkRefused \/ LinkLost \/ Deliver \/ Encrypted \/ Complete
BY DEF Next, Client, Host, Device, client, radio, StackFails, HostSynced, HostNotSynced,
  Scanned, ScanFails, Connected, ConnectFails, Abandoned, Secured, NotSecured, Failed,
  Discovered, Written, Reread, Open, Ask, Maintain, KeepAlive, AlreadySet, Set, Settle, Hear,
  Unheard, Retry, Finish, Sync, NotifyRx, Serve, Notify, SwitchOutput, Grant, Abort

\* The actions that may change what is under way.
LEMMA AirMoves ==
  Next =>
    \/ UNCHANGED air \/ Stop \/ Report \/ Open \/ Ask \/ Maintain \/ KeepAlive \/ Set \/
       Disconnect \/ LinkLost \/ NotifyRx \/ Serve \/ Notify \/ Grant
BY DEF Next, Client, Host, Device, client, radio, Run, StackFails, HostSynced, HostNotSynced,
  StopFails, Scan, Scanned, ScanFails, ScanAbort, Connect, Connected, ConnectFails,
  ConnectAbort, Abandoned, Secured, NotSecured, Issue, Failed, Discovered, Written, Reread,
  AlreadySet, Settle, Hear, Unheard, Retry, Finish, Sync, Reset, Sighted, ScanOver, LinkUp,
  LinkRefused, Deliver, Encrypted, Complete, SwitchOutput, Abort

\* The actions that may change the device.
LEMMA DeviceMoves ==
  Next =>
    \/ UNCHANGED device \/ Stop \/ Report \/ Disconnect \/ LinkLost \/ Complete \/ Serve \/
       Notify \/ SwitchOutput \/ Grant
BY DEF Next, Client, Host, Device, client, radio, Run, StackFails, HostSynced, HostNotSynced,
  StopFails, Scan, Scanned, ScanFails, ScanAbort, Connect, Connected, ConnectFails,
  ConnectAbort, Abandoned, Secured, NotSecured, Issue, Failed, Discovered, Written, Reread,
  Open, Ask, Maintain, KeepAlive, AlreadySet, Set, Settle, Hear, Unheard, Retry, Finish, Sync,
  Reset, Sighted, ScanOver, LinkUp, LinkRefused, Deliver, Encrypted, NotifyRx, Abort

\* The actions that may change the auxiliary record.
LEMMA TruthMoves ==
  Next =>
    \/ UNCHANGED truth \/ Report \/ LinkUp \/ Serve \/ SwitchOutput
BY DEF Next, Client, Host, Device, client, radio, Run, StackFails, HostSynced, HostNotSynced,
  Stop, StopFails, Scan, Scanned, ScanFails, ScanAbort, Connect, Connected, ConnectFails,
  ConnectAbort, Abandoned, Secured, NotSecured, Issue, Failed, Discovered, Written, Reread,
  Open, Ask, Maintain, KeepAlive, AlreadySet, Set, Settle, Hear, Unheard, Disconnect, Retry,
  Finish, Sync, Reset, Sighted, ScanOver, LinkRefused, LinkLost, Deliver, Encrypted, Complete,
  NotifyRx, Notify, Grant, Abort

-----------------------------------------------------------------------------
(* Types.                                                                  *)

\* A reboot cleans what an ordinary report leaves alone.
LEMMA ReportCleans ==
  Report => \/ /\ context' = Freed /\ session' = NoSession /\ nimble' = Off /\ air' = Silence
               /\ device' = [device EXCEPT !.grant = 0, !.owed = 0]
            \/ ~result.restart /\ UNCHANGED <<context, session, nimble, air, device>>
BY Zenon DEF Report

\* In an attempt the stage is one of the stages.
LEMMA StageTyped == Types /\ StageInv /\ pc \in InCourse => request \in Requests /\ Stage \in Stages
BY PlanFacts DEF Types, ClientType, StageInv, Stage, InCourse

\* What the assumption on the requests says of one.
LEMMA RequestTyped ==
  request \in Requests => /\ request.mode \in Modes
                          /\ request.profile \in {"mppt", "battery", "write", "reread"}
                          /\ request.profile = "battery" => request.mode # "auto"
BY RequestsAssumption DEF Request

\* Every message the client makes is an order.
LEMMA OrdersTyped ==
  /\ \A n \in Nat : [kind |-> "credits", n |-> n] \in Orders
  /\ \A what \in Stages \cup {None} : Message("list", what) \in Orders
  /\ \A what \in Registers : Message("get", what) \in Orders
  /\ \A what \in Modes : Message("set", what) \in Orders
  /\ Message("keepalive", None) \in Orders
BY DEF Orders, Credits, Message

\* The credits given back are an order too.
LEMMA ReturnedTyped == session.received \in Nat => Returned \in Seq(Orders)
BY OrdersTyped DEF Returned

\* The question of a stage is an order.
LEMMA QuestionTyped == Stage \in Stages => Question \in Orders
BY OrdersTyped DEF Question, Register, Registers, None

\* The first grant is an order.
LEMMA WindowTyped == <<[kind |-> "credits", n |-> Window]>> \in Seq(Orders)
BY OrdersTyped, CreditsAssumption

\* One order is a sequence of orders.
LEMMA OneTyped == \A m \in Orders : <<m>> \in Seq(Orders)
OBVIOUS

\* Sending orders keeps the type of the air.
LEMMA SentTyped ==
  ASSUME AirType, NEW messages \in Seq(Orders), air' = [air EXCEPT !.toDevice = @ \o messages]
  PROVE  AirType'
BY DEF AirType

\* Every message the device makes is an answer.
LEMMA AnswersTyped ==
  /\ \A n \in Nat : [kind |-> "credits", n |-> n] \in Answers
  /\ \A kind \in {"value", "list", "refused"}, what \in Subjects, value \in Texts :
        [kind |-> kind, what |-> what, value |-> value, n |-> 1] \in Answers
BY DEF Answers, Credits

\* Taking a message leaves messages.
LEMMA HeadTailTyped ==
  /\ \A s \in Seq(Orders) : s # <<>> => Head(s) \in Orders /\ Tail(s) \in Seq(Orders)
  /\ \A s \in Seq(Answers) : s # <<>> => Head(s) \in Answers /\ Tail(s) \in Seq(Answers)
OBVIOUS

\* No messages are messages.
LEMMA NoMessages == <<>> \in Seq(Orders) /\ <<>> \in Seq(Answers)
OBVIOUS

\* The device's registers hold what a message may carry.
LEMMA ValueTyped == DeviceType => \A what \in Registers : Value(what) \in Texts
BY DEF DeviceType, Value, Registers, Texts

\* The context keeps its fields.
LEMMA ContextTyped == Types /\ Next => ContextType'
<1> SUFFICES ASSUME Types, Next
             PROVE  ContextType'
  OBVIOUS
<1>1. CASE Run
  BY <1>1 DEF Run, Created, Freed, Pending, Types, ContextType
<1>2. CASE StackFails
  BY <1>2 DEF StackFails, Created, Freed, Types, ContextType
<1>3. CASE HostSynced
  BY <1>3 DEF HostSynced, Take, Types, ContextType
<1>4. CASE Stop
  BY <1>4 DEF Stop, Freed, Types, ContextType
<1>5. CASE Report
  BY <1>5 DEF Report, Freed, Types, ContextType
<1>6. CASE Scan
  BY <1>6 DEF Scan, Drained, Types, ContextType
<1>7. CASE Scanned
  BY <1>7 DEF Scanned, Take, Ends, Types, ContextType
<1>8. CASE Connect
  BY <1>8 DEF Connect, Drained, Types, ContextType
<1>9. CASE Connected
  BY <1>9 DEF Connected, Take, Types, ContextType
<1>10. CASE ConnectFails
  BY <1>10 DEF ConnectFails, Drained, Types, ContextType
<1>11. CASE Abandoned
  BY <1>11 DEF Abandoned, Leaves, Drained, Types, ContextType
<1>12. CASE Issue
  BY <1>12 DEF Issue, Drained, Pending, Types, ContextType
<1>13. CASE Failed
  BY <1>13 DEF Failed, Leaves, Drained, Types, ContextType
<1>14. CASE Discovered
  BY <1>14 DEF Discovered, Completed, Take, Types, ContextType
<1>15. CASE Written
  BY <1>15 DEF Written, Completed, Take, Types, ContextType
<1>16. CASE Reread
  BY <1>16 DEF Reread, Completed, Take, Types, ContextType
<1>17. CASE Disconnect
  BY <1>17 DEF Disconnect, Drop, Types, ContextType
<1>18. CASE Sync
  BY <1>18 DEF Sync, Given, Types, ContextType
<1>19. CASE Reset
  BY <1>19 DEF Reset, Given, Types, ContextType
<1>20. CASE Sighted
  BY <1>20 DEF Sighted, Given, Types, ContextType
<1>21. CASE ScanOver
  BY <1>21 DEF ScanOver, Given, Types, ContextType
<1>22. CASE LinkLost
  BY <1>22 DEF LinkLost, Answered, Given, Types, ContextType
<1>23. CASE Deliver
  <2>1. Head(nimble.events) \in {"connected", "connect_failed", "disconnected"}
    BY <1>23 DEF Deliver, Types, NimbleType
  <2> QED
    BY <1>23, <2>1 DEF Deliver, GapEvent, Given, Types, ContextType
<1>24. CASE Complete
  BY <1>24 DEF Complete, Answered, Given, Types, ContextType
<1>25. CASE UNCHANGED context
  BY <1>25 DEF Types, ContextType
<1> QED
  BY <1>1, <1>2, <1>3, <1>4, <1>5, <1>6, <1>7, <1>8, <1>9, <1>10, <1>11, <1>12, <1>13, <1>14,
    <1>15, <1>16, <1>17, <1>18, <1>19, <1>20, <1>21, <1>22, <1>23, <1>24, <1>25, ContextMoves

\* The session keeps its fields, and its counters are numbers.
LEMMA SessionTyped == Types /\ StageInv /\ Next => SessionType'
<1> SUFFICES ASSUME Types, StageInv, Next
             PROVE  SessionType'
  OBVIOUS
<1>1. CASE Run
  BY <1>1 DEF Run, NoSession, Types, SessionType
<1>2. CASE Stop
  BY <1>2 DEF Stop, NoSession, Types, SessionType
<1>3. CASE Report
  BY <1>3 DEF Report, NoSession, Types, SessionType
<1>4. CASE Discovered
  BY <1>4 DEF Discovered, Completed, Take, Types, SessionType
<1>5. CASE Open
  BY <1>5 DEF Open, Flushed, Types, SessionType
<1>6. CASE Ask
  BY <1>6 DEF Ask, Flushed, Awaiting, Types, SessionType
<1>7. CASE Maintain
  BY <1>7 DEF Maintain, Flushed, Types, SessionType
<1>8. CASE KeepAlive
  BY <1>8 DEF KeepAlive, Flushed, Types, SessionType
<1>9. CASE Set
  BY <1>9 DEF Set, Flushed, Types, SessionType
<1>10. CASE Hear
  BY <1>10 DEF Hear, Learned, Types, SessionType
<1>11. CASE Unheard
  BY <1>11 DEF Unheard, Leaves, Types, SessionType
<1>12. CASE Disconnect
  BY <1>12 DEF Disconnect, Drop, NoSession, Types, SessionType
<1>13. CASE NotifyRx
  <2>1. Head(air.toClient) \in Answers
    BY <1>13, HeadTailTyped DEF NotifyRx, Types, AirType
  <2>2. /\ Head(air.toClient).n \in Nat
        /\ Head(air.toClient).kind \in {"credits", "value", "list", "refused"}
    BY <2>1 DEF Answers, Credits
  <2> QED
    BY <1>13, <2>2 DEF NotifyRx, Inspected, Types, SessionType
<1>14. CASE Abort
  BY <1>14 DEF Abort, Types, SessionType
<1>15. CASE UNCHANGED session
  BY <1>15 DEF Types, SessionType
<1> QED
  BY <1>1, <1>2, <1>3, <1>4, <1>5, <1>6, <1>7, <1>8, <1>9, <1>10, <1>11, <1>12, <1>13, <1>14,
    <1>15, SessionMoves

\* The host keeps its fields, and its events are events.
LEMMA NimbleTyped == Types /\ Next => NimbleType'
<1> SUFFICES ASSUME Types, Next
             PROVE  NimbleType'
  OBVIOUS
<1>1. CASE Run
  BY <1>1 DEF Run, Off, Types, NimbleType
<1>2. CASE Stop
  BY <1>2 DEF Stop, Off, Types, NimbleType
<1>3. CASE StopFails
  BY <1>3 DEF StopFails, Off, Types, NimbleType
<1>4. CASE Report
  <2>1. CASE nimble' = Off
    BY <2>1 DEF Off, Types, NimbleType
  <2>2. CASE UNCHANGED nimble
    BY <2>2 DEF Types, NimbleType
  <2> QED
    BY <1>4, <2>1, <2>2, ReportCleans
<1>5. CASE Scan
  BY <1>5 DEF Scan, Types, NimbleType
<1>6. CASE ScanAbort
  BY <1>6 DEF ScanAbort, Ends, Types, NimbleType
<1>7. CASE Connect
  BY <1>7 DEF Connect, Types, NimbleType
<1>8. CASE ConnectAbort
  BY <1>8 DEF ConnectAbort, Types, NimbleType
<1>9. CASE Issue
  BY <1>9 DEF Issue, Types, NimbleType
<1>10. CASE Disconnect
  BY <1>10 DEF Disconnect, Drop, Terminated, Types, NimbleType
<1>11. CASE Reset
  BY <1>11 DEF Reset, Types, NimbleType
<1>12. CASE Sighted
  BY <1>12 DEF Sighted, Types, NimbleType
<1>13. CASE ScanOver
  BY <1>13 DEF ScanOver, Types, NimbleType
<1>14. CASE LinkUp
  BY <1>14 DEF LinkUp, Types, NimbleType
<1>15. CASE LinkRefused
  BY <1>15 DEF LinkRefused, Types, NimbleType
<1>16. CASE LinkLost
  BY <1>16 DEF LinkLost, Types, NimbleType
<1>17. CASE Deliver
  BY <1>17 DEF Deliver, Types, NimbleType
<1>18. CASE Encrypted
  BY <1>18 DEF Encrypted, Types, NimbleType
<1>19. CASE Complete
  BY <1>19 DEF Complete, Types, NimbleType
<1>20. CASE UNCHANGED nimble
  BY <1>20 DEF Types, NimbleType
<1> QED
  BY <1>1, <1>2, <1>3, <1>4, <1>5, <1>6, <1>7, <1>8, <1>9, <1>10, <1>11, <1>12, <1>13, <1>14,
    <1>15, <1>16, <1>17, <1>18, <1>19, <1>20, NimbleMoves

\* What is under way are orders and answers.
LEMMA AirTyped == Types /\ StageInv /\ Next => AirType'
<1> SUFFICES ASSUME Types, StageInv, Next
             PROVE  AirType'
  OBVIOUS
<1>1. CASE Stop
  BY <1>1 DEF Stop, Silence, Types, AirType
<1>2. CASE Report
  <2>1. CASE air' = Silence
    BY <2>1 DEF Silence, Types, AirType
  <2>2. CASE UNCHANGED air
    BY <2>2 DEF Types, AirType
  <2> QED
    BY <1>2, <2>1, <2>2, ReportCleans
<1>3. CASE Open
  <2>1. Returned \o <<[kind |-> "credits", n |-> Window]>> \in Seq(Orders)
    BY ReturnedTyped, WindowTyped DEF Types, SessionType
  <2> QED
    BY <1>3, <2>1, SentTyped DEF Open, Transmit, Types
<1>4. CASE Ask
  <2>1. Question \in Orders
    BY <1>4, StageTyped, QuestionTyped DEF Ask, InCourse
  <2>2. Returned \o <<Question>> \in Seq(Orders)
    BY <2>1, ReturnedTyped, OneTyped DEF Types, SessionType
  <2> QED
    BY <1>4, <2>2, SentTyped DEF Ask, Transmit, Types
<1>5. CASE Maintain
  <2>1. Returned \in Seq(Orders)
    BY ReturnedTyped DEF Types, SessionType
  <2> QED
    BY <1>5, <2>1, SentTyped DEF Maintain, Transmit, Types
<1>6. CASE KeepAlive
  <2>1. Returned \o <<Message("keepalive", None)>> \in Seq(Orders)
    BY ReturnedTyped, OrdersTyped, OneTyped DEF Types, SessionType
  <2> QED
    BY <1>6, <2>1, SentTyped DEF KeepAlive, Transmit, Types
<1>7. CASE Set
  <2>1. request.mode \in Modes
    BY <1>7, RequestTyped DEF Set, Types, ClientType
  <2>2. Returned \o <<Message("set", request.mode)>> \in Seq(Orders)
    BY <2>1, ReturnedTyped, OrdersTyped, OneTyped DEF Types, SessionType
  <2> QED
    BY <1>7, <2>2, SentTyped DEF Set, Transmit, Types
<1>8. CASE Disconnect
  <2>1. request.mode \in Modes
    BY <1>8, RequestTyped DEF Disconnect, Drop, Types, ClientType
  <2>2. <<Message("set", request.mode)>> \in Seq(Orders)
    BY <2>1, OrdersTyped, OneTyped
  <2> QED
    BY <1>8, <2>2, NoMessages DEF Disconnect, Remains, AirType
<1>9. CASE LinkLost
  BY <1>9 DEF LinkLost, Silence, Types, AirType
<1>10. CASE NotifyRx
  BY <1>10 DEF NotifyRx, Types, AirType
<1>11. CASE Serve
  <2> DEFINE m == Head(air.toDevice)
  <2>1. /\ m \in Orders /\ Tail(air.toDevice) \in Seq(Orders)
        /\ air.toDevice \in Seq(Orders) /\ air.toClient \in Seq(Answers)
        /\ DOMAIN air = {"toDevice", "toClient"}
    BY <1>11, HeadTailTyped DEF Serve, Types, AirType
  <2>2. CASE air' = [air EXCEPT !.toDevice = Tail(@)]
    BY <2>1, <2>2 DEF AirType
  <2>3. CASE m.kind = "list" /\ Tell("list", m.what, None)
    <3>1. m.what \in Subjects /\ None \in Texts
      BY <2>1, <2>3 DEF Orders, Credits, Subjects, Texts
    <3> QED
      BY <2>1, <2>3, <3>1, AnswersTyped DEF Tell, AirType
  <2>4. CASE m.kind = "get" /\ Tell("value", m.what, Value(m.what))
    <3>1. m.what \in Registers /\ m.what \in Subjects
      BY <2>1, <2>4 DEF Orders, Credits, Subjects
    <3>2. Value(m.what) \in Texts
      BY <3>1, ValueTyped DEF Types
    <3> QED
      BY <2>1, <2>4, <3>1, <3>2, AnswersTyped DEF Tell, AirType
  <2>5. CASE Tell("refused", "mode", None)
    <3>1. "mode" \in Subjects /\ None \in Texts
      BY DEF Subjects, Registers, Texts
    <3> QED
      BY <2>1, <2>5, <3>1, AnswersTyped DEF Tell, AirType
  <2> QED
    BY <1>11, <2>2, <2>3, <2>4, <2>5 DEF Serve
<1>12. CASE Notify
  <2>1. PICK what \in {"mode", "output"} : Tell("notify", what, Value(what))
    BY <1>12 DEF Notify
  <2>2. what \in Subjects /\ what \in Registers
    BY DEF Subjects, Registers
  <2>3. Value(what) \in Texts
    BY <2>2, ValueTyped DEF Types
  <2> QED
    BY <2>1, <2>2, <2>3, AnswersTyped DEF Tell, Types, AirType
<1>13. CASE Grant
  <2>1. [kind |-> "credits", n |-> device.owed] \in Answers
    BY AnswersTyped DEF Types, DeviceType
  <2> QED
    BY <1>13, <2>1 DEF Grant, Types, AirType
<1>14. CASE UNCHANGED air
  BY <1>14 DEF Types, AirType
<1> QED
  BY <1>1, <1>2, <1>3, <1>4, <1>5, <1>6, <1>7, <1>8, <1>9, <1>10, <1>11, <1>12, <1>13, <1>14,
    AirMoves

\* The device keeps its fields, its mode and its output.
LEMMA DeviceTyped == Types /\ Next => DeviceType'
<1> SUFFICES ASSUME Types, Next
             PROVE  DeviceType'
  OBVIOUS
<1>1. CASE Stop
  BY <1>1 DEF Stop, Types, DeviceType
<1>2. CASE Report
  <2>1. CASE device' = [device EXCEPT !.grant = 0, !.owed = 0]
    BY <2>1 DEF Types, DeviceType
  <2>2. CASE UNCHANGED device
    BY <2>2 DEF Types, DeviceType
  <2> QED
    BY <1>2, <2>1, <2>2, ReportCleans
<1>3. CASE Disconnect
  BY <1>3 DEF Disconnect, Drop, Types, DeviceType
<1>4. CASE LinkLost
  BY <1>4 DEF LinkLost, Types, DeviceType
<1>5. CASE Complete
  <2>1. device' \in {device, [device EXCEPT !.owed = TxLimit]} /\ truth' = truth
    BY <1>5 DEF Complete
  <2> QED
    BY <2>1, CreditsAssumption DEF Types, DeviceType
<1>6. CASE Serve
  <2> DEFINE m == Head(air.toDevice)
  <2>1. m \in Orders
    BY <1>6, HeadTailTyped DEF Serve, Types, AirType
  <2>2. m.n \in Nat /\ (m.kind = "set" => m.what \in Modes)
    BY <2>1 DEF Orders, Credits
  <2>4. CASE m.kind = "credits" /\ device' = [device EXCEPT !.grant = @ + m.n]
    BY <2>2, <2>4 DEF Types, DeviceType
  <2>5. CASE device' = [device EXCEPT !.owed = @ + 1]
    BY <2>5 DEF Types, DeviceType
  <2>6. CASE /\ m.kind = "set"
             /\ device' = [device EXCEPT !.owed = IF Live THEN @ + 1 ELSE 0, !.mode = m.what]
    BY <2>2, <2>6 DEF Types, DeviceType
  <2>7. CASE device.grant > 0 /\ device' = [device EXCEPT !.owed = @ + 1, !.grant = @ - 1]
    BY <2>7 DEF Types, DeviceType
  <2> QED
    BY <1>6, <2>4, <2>5, <2>6, <2>7 DEF Serve
<1>7. CASE Notify
  BY <1>7 DEF Notify, Types, DeviceType
<1>8. CASE SwitchOutput
  BY <1>8 DEF SwitchOutput, Types, DeviceType
<1>9. CASE Grant
  BY <1>9 DEF Grant, Types, DeviceType
<1>10. CASE UNCHANGED device
  BY <1>10 DEF Types, DeviceType
<1> QED
  BY <1>1, <1>2, <1>3, <1>4, <1>5, <1>6, <1>7, <1>8, <1>9, <1>10, DeviceMoves

\* The auxiliary record keeps its fields.
LEMMA TruthTyped == Types /\ Next => TruthType'
<1> SUFFICES ASSUME Types, Next
             PROVE  TruthType'
  OBVIOUS
<1>1. CASE Report
  BY <1>1 DEF Report, Types, TruthType
<1>2. CASE LinkUp
  BY <1>2 DEF LinkUp, Types, TruthType
<1>3. CASE Serve
  BY <1>3 DEF Serve, Types, TruthType
<1>4. CASE SwitchOutput
  BY <1>4 DEF SwitchOutput, Types, TruthType
<1>5. CASE UNCHANGED truth
  BY <1>5 DEF Types, TruthType
<1> QED
  BY <1>1, <1>2, <1>3, <1>4, <1>5, TruthMoves

-----------------------------------------------------------------------------
(* The result and the place.                                               *)

\* What an answer decides, case by case, as disjuncts.
LEMMA HearSplits ==
  ASSUME Hear
  PROVE  /\ pc = "hear" /\ Heard /\ UNCHANGED <<request, context, nimble, air, device, truth>>
         /\ session' = [session EXCEPT !.awaited = None, !.target = None]
         /\ \/ /\ ~Acceptable(session.value) /\ pc' = "drop" /\ UNCHANGED step
               /\ result' = [Learned(session.value) EXCEPT !.code = FailCode(Stage)]
            \/ /\ Acceptable(session.value) /\ Stage # "output" /\ Advance
               /\ result' = Learned(session.value)
            \/ /\ Stage = "output" /\ Confirms(session.value, request.mode) /\ pc' = "drop"
               /\ UNCHANGED step
               /\ result' = [Learned(session.value) EXCEPT !.verified = TRUE, !.code = "ok"]
            \/ /\ Stage = "output" /\ ~Confirms(session.value, request.mode)
               /\ pc' \in {"settle", "drop"} /\ UNCHANGED step
               /\ result' = [Learned(session.value) EXCEPT !.polls = @ + 1,
                                                             !.code = "verify_failed"]
<1> DEFINE V == session.value
           L == Learned(session.value)
<1>1. /\ pc = "hear" /\ Heard /\ UNCHANGED <<request, context, nimble, air, device, truth>>
      /\ session' = [session EXCEPT !.awaited = None, !.target = None]
  BY DEF Hear, radio
<1>2. CASE ~Acceptable(V)
  BY <1>1, <1>2 DEF Hear
<1>3. CASE Acceptable(V) /\ Stage # "output"
  BY <1>1, <1>3 DEF Hear
<1>4. CASE Acceptable(V) /\ Stage = "output" /\ Confirms(V, request.mode)
  BY <1>1, <1>4 DEF Hear
<1>5. CASE Acceptable(V) /\ Stage = "output" /\ ~Confirms(V, request.mode)
  BY <1>1, <1>5 DEF Hear
<1> QED
  BY <1>2, <1>3, <1>4, <1>5

\* The result keeps its fields.
LEMMA ResultTyped == Types /\ Next => DOMAIN result' = DOMAIN result
<1> SUFFICES ASSUME Types, Next
             PROVE  DOMAIN result' = DOMAIN result
  OBVIOUS
<1>1. CASE Run
  BY <1>1 DEF Run, Unset, Types, ClientType
<1>2. CASE StackFails
  BY <1>2 DEF StackFails, Unset, Types, ClientType
<1>3. CASE StopFails
  BY <1>3 DEF StopFails, RequireRestart, Types, ClientType
<1>4. CASE Report
  BY <1>4 DEF Report, Unset, NoRequest, Types, ClientType
<1>5. CASE Scanned
  BY <1>5 DEF Scanned, Take, Ends, radio, Types, ClientType
<1>6. CASE ScanAbort
  BY <1>6 DEF ScanAbort, Ends, Types, ClientType
<1>7. CASE Abandoned
  BY <1>7 DEF Abandoned, Leaves, radio, Types, ClientType
<1>8. CASE NotSecured
  BY <1>8 DEF NotSecured, Leaves, radio, Types, ClientType
<1>9. CASE Failed
  BY <1>9 DEF Failed, Leaves, radio, Types, ClientType
<1>10. CASE Written
  BY <1>10 DEF Written, Completed, Take, radio, Types, ClientType
<1>11. CASE Reread
  BY <1>11 DEF Reread, Completed, Take, radio, Types, ClientType
<1>12. CASE Set
  BY <1>12 DEF Set, Types, ClientType
<1>13. CASE Settle
  BY <1>13 DEF Settle, Leaves, radio, Types, ClientType
<1>14. CASE Hear
  BY <1>14 DEF Hear, Learned, radio, Types, ClientType
<1>15. CASE Unheard
  BY <1>15 DEF Unheard, Leaves, radio, Types, ClientType
<1>16. CASE Retry
  BY <1>16 DEF Retry, Unset, radio, Types, ClientType
<1>17. CASE Finish
  BY <1>17 DEF Finish, radio, Types, ClientType
<1>18. CASE UNCHANGED result
  BY <1>18 DEF Types, ClientType
<1> QED
  BY <1>1, <1>2, <1>3, <1>4, <1>5, <1>6, <1>7, <1>8, <1>9, <1>10, <1>11, <1>12, <1>13, <1>14,
    <1>15, <1>16, <1>17, <1>18 DEF Next, Client, Host, Device, client, radio, HostSynced,
    HostNotSynced, Stop, Scan, ScanFails, Connect, Connected, ConnectFails, ConnectAbort,
    Secured, Issue, Discovered, Open, Ask, Maintain, KeepAlive, AlreadySet, Disconnect, Sync,
    Reset, Sighted, ScanOver, LinkUp, LinkRefused, LinkLost, Deliver, Encrypted, Complete,
    NotifyRx, Serve, Notify, SwitchOutput, Grant, Abort

\* The client is at one of its places.
LEMMA PlaceTyped == Types /\ Next => pc' \in Places /\ step' \in Nat
<1> SUFFICES ASSUME Types, Next
             PROVE  pc' \in Places /\ step' \in Nat
  OBVIOUS
<1>1. CASE Run
  BY <1>1 DEF Run, Unset, Types, ClientType, Places, InCourse, Over, Closing
<1>2. CASE StackFails
  BY <1>2 DEF StackFails, Unset, Types, ClientType, Places, InCourse, Over, Closing
<1>3. CASE HostSynced
  BY <1>3 DEF HostSynced, Take, radio, Types, ClientType, Places, InCourse, Over, Closing
<1>4. CASE HostNotSynced
  BY <1>4 DEF HostNotSynced, radio, Types, ClientType, Places, InCourse, Over, Closing
<1>5. CASE Stop
  BY <1>5 DEF Stop, Types, ClientType, Places, InCourse, Over, Closing
<1>6. CASE StopFails
  BY <1>6 DEF StopFails, RequireRestart, Types, ClientType, Places, InCourse, Over, Closing
<1>7. CASE Report
  BY <1>7 DEF Report, Unset, NoRequest, Types, ClientType, Places, InCourse, Over, Closing
<1>8. CASE Scan
  BY <1>8 DEF Scan, Types, ClientType, Places, InCourse, Over, Closing
<1>9. CASE Scanned
  BY <1>9 DEF Scanned, Take, Ends, radio, Types, ClientType, Places, InCourse, Over, Closing
<1>10. CASE ScanFails
  BY <1>10 DEF ScanFails, radio, Types, ClientType, Places, InCourse, Over, Closing
<1>11. CASE ScanAbort
  BY <1>11 DEF ScanAbort, Ends, Types, ClientType, Places, InCourse, Over, Closing
<1>12. CASE Connect
  BY <1>12 DEF Connect, Types, ClientType, Places, InCourse, Over, Closing
<1>13. CASE Connected
  BY <1>13 DEF Connected, Take, radio, Types, ClientType, Places, InCourse, Over, Closing
<1>14. CASE ConnectFails
  BY <1>14 DEF ConnectFails, radio, Types, ClientType, Places, InCourse, Over, Closing
<1>15. CASE ConnectAbort
  BY <1>15 DEF ConnectAbort, Types, ClientType, Places, InCourse, Over, Closing
<1>16. CASE Abandoned
  BY <1>16 DEF Abandoned, Leaves, radio, Types, ClientType, Places, InCourse, Over, Closing
<1>17. CASE Secured
  BY <1>17 DEF Secured, radio, Types, ClientType, Places, InCourse, Over, Closing
<1>18. CASE NotSecured
  BY <1>18 DEF NotSecured, Leaves, radio, Types, ClientType, Places, InCourse, Over, Closing
<1>19. CASE Issue
  BY <1>19 DEF Issue, Types, ClientType, Places, InCourse, Over, Closing
<1>20. CASE Failed
  BY <1>20 DEF Failed, Leaves, radio, Types, ClientType, Places, InCourse, Over, Closing
<1>21. CASE Discovered
  BY <1>21 DEF Discovered, Completed, Take, radio, Advance, Types, ClientType, Places, InCourse,
    Over, Closing
<1>22. CASE Written
  BY <1>22 DEF Written, Completed, Take, radio, Advance, Types, ClientType, Places, InCourse,
    Over, Closing
<1>23. CASE Reread
  BY <1>23 DEF Reread, Completed, Take, radio, Types, ClientType, Places, InCourse, Over, Closing
<1>24. CASE Open
  BY <1>24 DEF Open, Advance, Types, ClientType, Places, InCourse, Over, Closing
<1>25. CASE Ask
  BY <1>25 DEF Ask, Types, ClientType, Places, InCourse, Over, Closing
<1>26. CASE KeepAlive
  BY <1>26 DEF KeepAlive, Advance, Types, ClientType, Places, InCourse, Over, Closing
<1>27. CASE AlreadySet
  BY <1>27 DEF AlreadySet, radio, Advance, Types, ClientType, Places, InCourse, Over, Closing
<1>28. CASE Set
  BY <1>28 DEF Set, Types, ClientType, Places, InCourse, Over, Closing
<1>29. CASE Settle
  BY <1>29 DEF Settle, Leaves, radio, Advance, Types, ClientType, Places, InCourse, Over, Closing
<1>30. CASE Hear
  BY <1>30, HearSplits DEF Advance, Types, ClientType, Places, InCourse, Over, Closing
<1>31. CASE Unheard
  BY <1>31 DEF Unheard, Leaves, radio, Types, ClientType, Places, InCourse, Over, Closing
<1>32. CASE Disconnect
  BY <1>32 DEF Disconnect, Drop, Types, ClientType, Places, InCourse, Over, Closing
<1>33. CASE Retry
  BY <1>33 DEF Retry, Unset, radio, Types, ClientType, Places, InCourse, Over, Closing
<1>34. CASE Finish
  BY <1>34 DEF Finish, radio, Types, ClientType, Places, InCourse, Over, Closing
<1>35. CASE UNCHANGED <<pc, step>>
  BY <1>35 DEF Types, ClientType, Places, InCourse, Over, Closing
<1> QED
  BY <1>1, <1>2, <1>3, <1>4, <1>5, <1>6, <1>7, <1>8, <1>9, <1>10, <1>11, <1>12, <1>13, <1>14,
    <1>15, <1>16, <1>17, <1>18, <1>19, <1>20, <1>21, <1>22, <1>23, <1>24, <1>25, <1>26, <1>27,
    <1>28, <1>29, <1>30, <1>31, <1>32, <1>33, <1>34, <1>35 DEF Next, Client, Host, Device,
    client, radio, Maintain, Sync, Reset, Sighted, ScanOver, LinkUp, LinkRefused, LinkLost,
    Deliver, Encrypted, Complete, NotifyRx, Serve, Notify, SwitchOutput, Grant, Abort

\* The request comes with the run and goes with the report.
LEMMA RequestKept ==
  Types /\ Next =>
    /\ pc' = "idle" => request' = NoRequest
    /\ pc' # "idle" => request' \in Requests
    /\ pc # "idle" /\ pc' # "idle" => request' = request
    /\ pc' = "idle" /\ pc # "idle" => Report
    /\ pc = "idle" /\ pc' # "idle" => Run \/ StackFails
<1> SUFFICES ASSUME Types, Next
             PROVE  /\ pc' = "idle" => request' = NoRequest
                    /\ pc' # "idle" => request' \in Requests
                    /\ pc # "idle" /\ pc' # "idle" => request' = request
                    /\ pc' = "idle" /\ pc # "idle" => Report
                    /\ pc = "idle" /\ pc' # "idle" => Run \/ StackFails
  OBVIOUS
<1>1. CASE Run
  BY <1>1 DEF Run, Unset, Types, ClientType, Places, InCourse, Over, Closing
<1>2. CASE StackFails
  BY <1>2 DEF StackFails, Unset, Types, ClientType, Places, InCourse, Over, Closing
<1>3. CASE HostSynced
  BY <1>3 DEF HostSynced, Take, radio, Types, ClientType, Places, InCourse, Over, Closing
<1>4. CASE HostNotSynced
  BY <1>4 DEF HostNotSynced, radio, Types, ClientType, Places, InCourse, Over, Closing
<1>5. CASE Stop
  BY <1>5 DEF Stop, Types, ClientType, Places, InCourse, Over, Closing
<1>6. CASE StopFails
  BY <1>6 DEF StopFails, RequireRestart, Types, ClientType, Places, InCourse, Over, Closing
<1>7. CASE Report
  BY <1>7 DEF Report, Unset, NoRequest, Types, ClientType, Places, InCourse, Over, Closing
<1>8. CASE Scan
  BY <1>8 DEF Scan, Types, ClientType, Places, InCourse, Over, Closing
<1>9. CASE Scanned
  BY <1>9 DEF Scanned, Take, Ends, radio, Types, ClientType, Places, InCourse, Over, Closing
<1>10. CASE ScanFails
  BY <1>10 DEF ScanFails, radio, Types, ClientType, Places, InCourse, Over, Closing
<1>11. CASE ScanAbort
  BY <1>11 DEF ScanAbort, Ends, Types, ClientType, Places, InCourse, Over, Closing
<1>12. CASE Connect
  BY <1>12 DEF Connect, Types, ClientType, Places, InCourse, Over, Closing
<1>13. CASE Connected
  BY <1>13 DEF Connected, Take, radio, Types, ClientType, Places, InCourse, Over, Closing
<1>14. CASE ConnectFails
  BY <1>14 DEF ConnectFails, radio, Types, ClientType, Places, InCourse, Over, Closing
<1>15. CASE ConnectAbort
  BY <1>15 DEF ConnectAbort, Types, ClientType, Places, InCourse, Over, Closing
<1>16. CASE Abandoned
  BY <1>16 DEF Abandoned, Leaves, radio, Types, ClientType, Places, InCourse, Over, Closing
<1>17. CASE Secured
  BY <1>17 DEF Secured, radio, Types, ClientType, Places, InCourse, Over, Closing
<1>18. CASE NotSecured
  BY <1>18 DEF NotSecured, Leaves, radio, Types, ClientType, Places, InCourse, Over, Closing
<1>19. CASE Issue
  BY <1>19 DEF Issue, Types, ClientType, Places, InCourse, Over, Closing
<1>20. CASE Failed
  BY <1>20 DEF Failed, Leaves, radio, Types, ClientType, Places, InCourse, Over, Closing
<1>21. CASE Discovered
  BY <1>21 DEF Discovered, Completed, Take, radio, Advance, Types, ClientType, Places, InCourse,
    Over, Closing
<1>22. CASE Written
  BY <1>22 DEF Written, Completed, Take, radio, Advance, Types, ClientType, Places, InCourse,
    Over, Closing
<1>23. CASE Reread
  BY <1>23 DEF Reread, Completed, Take, radio, Types, ClientType, Places, InCourse, Over, Closing
<1>24. CASE Open
  BY <1>24 DEF Open, Advance, Types, ClientType, Places, InCourse, Over, Closing
<1>25. CASE Ask
  BY <1>25 DEF Ask, Types, ClientType, Places, InCourse, Over, Closing
<1>26. CASE KeepAlive
  BY <1>26 DEF KeepAlive, Advance, Types, ClientType, Places, InCourse, Over, Closing
<1>27. CASE AlreadySet
  BY <1>27 DEF AlreadySet, radio, Advance, Types, ClientType, Places, InCourse, Over, Closing
<1>28. CASE Set
  BY <1>28 DEF Set, Types, ClientType, Places, InCourse, Over, Closing
<1>29. CASE Settle
  BY <1>29 DEF Settle, Leaves, radio, Advance, Types, ClientType, Places, InCourse, Over, Closing
<1>30. CASE Hear
  BY <1>30 DEF Hear, Learned, radio, Advance, Types, ClientType, Places, InCourse, Over, Closing
<1>31. CASE Unheard
  BY <1>31 DEF Unheard, Leaves, radio, Types, ClientType, Places, InCourse, Over, Closing
<1>32. CASE Disconnect
  BY <1>32 DEF Disconnect, Drop, Types, ClientType, Places, InCourse, Over, Closing
<1>33. CASE Retry
  BY <1>33 DEF Retry, Unset, radio, Types, ClientType, Places, InCourse, Over, Closing
<1>34. CASE Finish
  BY <1>34 DEF Finish, radio, Types, ClientType, Places, InCourse, Over, Closing
<1>35. CASE UNCHANGED <<pc, step, request>>
  BY <1>35 DEF Types, ClientType, Places, InCourse, Over, Closing
<1> QED
  BY <1>1, <1>2, <1>3, <1>4, <1>5, <1>6, <1>7, <1>8, <1>9, <1>10, <1>11, <1>12, <1>13, <1>14,
    <1>15, <1>16, <1>17, <1>18, <1>19, <1>20, <1>21, <1>22, <1>23, <1>24, <1>25, <1>26, <1>27,
    <1>28, <1>29, <1>30, <1>31, <1>32, <1>33, <1>34, <1>35 DEF Next, Client, Host, Device,
    client, radio, Maintain, Sync, Reset, Sighted, ScanOver, LinkUp, LinkRefused, LinkLost,
    Deliver, Encrypted, Complete, NotifyRx, Serve, Notify, SwitchOutput, Grant, Abort

-----------------------------------------------------------------------------
(* The stages.                                                             *)

\* Without an advance the stage stays.
LEMMA StageStays == UNCHANGED <<request, step>> => Stage' = Stage /\ Plan' = Plan
BY PlanKept DEF Stage

(* An advance of the client leads to a stage of the next place's kind.      *)
LEMMA AdvancedStage ==
  Types /\ StageInv /\ pc \in InCourse /\ Advance /\ UNCHANGED request
  /\ Stage \notin {"output", "reread"} /\ (Stage = "write" => request.profile # "write")
    => /\ StageInv' /\ pc' \in {"issue", "ask"} /\ Stage' \in Stages
       /\ Stage' = "output" => Stage = "readback"
<1> SUFFICES ASSUME Types, StageInv, pc \in InCourse, Advance, UNCHANGED request,
                    Stage \notin {"output", "reread"}, Stage = "write" => request.profile # "write"
             PROVE  /\ StageInv' /\ pc' \in {"issue", "ask"} /\ Stage' \in Stages
                    /\ Stage' = "output" => Stage = "readback"
  OBVIOUS
<1>1. request \in Requests /\ step \in 1 .. Len(Plan)
  BY DEF Types, ClientType, StageInv, InCourse
<1>2. /\ step' \in 1 .. Len(Plan)' /\ pc' \in {"issue", "ask"}
      /\ pc' = "issue" => Stage' \in Procedures \cup Writes
      /\ pc' = "ask" => Stage' \notin Procedures \cup Writes
      /\ Stage' = "output" => Stage = "readback"
  BY <1>1, Advanced
<1>3. Plan' = Plan /\ Stage' = Plan[step']
  BY PlanKept DEF Stage
<1>4. Stage' \in Stages
  BY <1>1, <1>2, <1>3, PlanFacts
<1> QED
  BY <1>2, <1>4 DEF StageInv, InCourse, Speaking

\* Each place has a stage of its kind.
LEMMA StageKept == Types /\ StageInv /\ Next => StageInv'
<1> SUFFICES ASSUME Types, StageInv, Next
             PROVE  StageInv'
  OBVIOUS
<1>1. CASE Run
  BY <1>1 DEF Run, Unset, Types, ClientType, StageInv, Speaking, InCourse
<1>2. CASE StackFails
  BY <1>2 DEF StackFails, Unset, Types, ClientType, StageInv, Speaking, InCourse
<1>3. CASE HostSynced
  BY <1>3 DEF HostSynced, Take, radio, Types, ClientType, StageInv, Speaking, InCourse
<1>4. CASE HostNotSynced
  BY <1>4 DEF HostNotSynced, radio, Types, ClientType, StageInv, Speaking, InCourse
<1>5. CASE Stop
  BY <1>5 DEF Stop, Types, ClientType, StageInv, Speaking, InCourse
<1>6. CASE StopFails
  BY <1>6 DEF StopFails, RequireRestart, Types, ClientType, StageInv, Speaking, InCourse
<1>7. CASE Report
  BY <1>7 DEF Report, Unset, NoRequest, Types, ClientType, StageInv, Speaking, InCourse
<1>8. CASE Scan
  BY <1>8 DEF Scan, Types, ClientType, StageInv, Speaking, InCourse
<1>9. CASE Scanned
  BY <1>9 DEF Scanned, Take, Ends, radio, Types, ClientType, StageInv, Speaking, InCourse
<1>10. CASE ScanFails
  BY <1>10 DEF ScanFails, radio, Types, ClientType, StageInv, Speaking, InCourse
<1>11. CASE ScanAbort
  BY <1>11 DEF ScanAbort, Ends, Types, ClientType, StageInv, Speaking, InCourse
<1>12. CASE Connect
  BY <1>12 DEF Connect, Types, ClientType, StageInv, Speaking, InCourse
<1>13. CASE Connected
  <2>1. /\ request \in Requests /\ request' = request /\ step' = 1 /\ pc' \in {"secure", "issue"}
    BY <1>13 DEF Connected, Types, ClientType
  <2>2. Plan' = Plan /\ Stage' = Plan[1]
    BY <2>1, PlanKept DEF Stage
  <2>3. 1 \in 1 .. Len(Plan) /\ Plan[1] \in Procedures
    BY <2>1, PlanFacts
  <2> QED
    BY <2>1, <2>2, <2>3 DEF StageInv, Speaking, InCourse
<1>14. CASE ConnectFails
  BY <1>14 DEF ConnectFails, radio, Types, ClientType, StageInv, Speaking, InCourse
<1>15. CASE ConnectAbort
  BY <1>15 DEF ConnectAbort, Types, ClientType, StageInv, Speaking, InCourse
<1>16. CASE Abandoned
  BY <1>16 DEF Abandoned, Leaves, radio, Types, ClientType, StageInv, Speaking, InCourse
<1>17. CASE Secured
  <2>1. /\ request \in Requests /\ request' = request /\ step' = 1 /\ pc' = "issue"
    BY <1>17 DEF Secured, Types, ClientType, StageInv
  <2>2. Plan' = Plan /\ Stage' = Plan[1]
    BY <2>1, PlanKept DEF Stage
  <2>3. 1 \in 1 .. Len(Plan) /\ Plan[1] \in Procedures
    BY <2>1, PlanFacts
  <2> QED
    BY <2>1, <2>2, <2>3 DEF StageInv, Speaking, InCourse
<1>18. CASE NotSecured
  BY <1>18 DEF NotSecured, Leaves, radio, Types, ClientType, StageInv, Speaking, InCourse
<1>19. CASE Issue
  BY <1>19, StageStays DEF Issue, Types, ClientType, StageInv, Speaking, InCourse
<1>20. CASE Failed
  BY <1>20 DEF Failed, Leaves, radio, Types, ClientType, StageInv, Speaking, InCourse
<1>21. CASE Discovered
  <2>1. /\ Stage \notin {"output", "reread", "write"} /\ pc \in InCourse
        /\ Advance /\ UNCHANGED request
    BY <1>21 DEF Discovered, Completed, Procedures, InCourse
  <2> QED
    BY <2>1, AdvancedStage
<1>22. CASE Written
  <2>1. CASE request.profile = "write"
    BY <1>22, <2>1 DEF Written, Types, ClientType, StageInv, Speaking, InCourse
  <2>2. CASE request.profile # "write"
    <3>1. Stage \notin {"output", "reread"} /\ pc \in InCourse /\ Advance /\ UNCHANGED request
      BY <1>22, <2>2 DEF Written, Completed, Writes, InCourse
    <3> QED
      BY <2>2, <3>1, AdvancedStage
  <2> QED
    BY <2>1, <2>2
<1>23. CASE Reread
  BY <1>23 DEF Reread, Completed, Take, radio, Types, ClientType, StageInv, Speaking, InCourse
<1>24. CASE Open
  <2>1. Stage \in {"open", "set"} /\ pc \in InCourse /\ Advance /\ UNCHANGED request
    BY <1>24 DEF Open, InCourse
  <2> QED
    BY <2>1, AdvancedStage
<1>25. CASE Ask
  BY <1>25, StageStays DEF Ask, Types, ClientType, StageInv, Speaking, InCourse
<1>26. CASE KeepAlive
  <2>1. CASE UNCHANGED <<pc, step>>
    BY <1>26, <2>1, StageStays DEF KeepAlive, StageInv
  <2>2. CASE pc = "ask" /\ Stage = "keepalive" /\ Advance
    BY <1>26, <2>2, AdvancedStage DEF KeepAlive, InCourse
  <2> QED
    BY <1>26, <2>1, <2>2 DEF KeepAlive
<1>27. CASE AlreadySet
  <2>1. Stage \in {"open", "set"} /\ pc \in InCourse /\ Advance /\ UNCHANGED request
    BY <1>27 DEF AlreadySet, InCourse
  <2> QED
    BY <2>1, AdvancedStage
<1>28. CASE Set
  BY <1>28, StageStays DEF Set, Types, ClientType, StageInv, Speaking, InCourse
<1>29. CASE Settle
  <2>1. CASE Stage = "set" /\ Advance
    BY <1>29, <2>1, AdvancedStage DEF Settle, InCourse
  <2>2. CASE Stage = "output" /\ pc' = "ask" /\ UNCHANGED step
    BY <1>29, <2>2, StageStays DEF Settle, Types, ClientType, StageInv, Speaking, InCourse
  <2>3. CASE pc' = "drop"
    BY <2>3 DEF Types, ClientType, StageInv, Speaking, InCourse
  <2> QED
    BY <1>29, <2>1, <2>2, <2>3 DEF Settle, Leaves
<1>30. CASE Hear
  <2>1. CASE Acceptable(session.value) /\ Stage # "output" /\ Advance
    <3>1. pc \in Speaking /\ Stage \notin Procedures \cup Writes
      BY <1>30, HearSplits DEF StageInv, Speaking
    <3> QED
      BY <1>30, <2>1, <3>1, HearSplits, AdvancedStage DEF InCourse, Speaking, Procedures, Writes
  <2>2. CASE Stage = "output" /\ pc' \in {"settle", "drop"} /\ UNCHANGED step
    BY <1>30, <2>2, HearSplits, StageStays DEF Types, ClientType, StageInv, Speaking, InCourse
  <2>3. CASE pc' = "drop"
    BY <2>3 DEF Types, ClientType, StageInv, Speaking, InCourse
  <2> QED
    BY <1>30, <2>1, <2>2, <2>3, HearSplits
<1>31. CASE Unheard
  BY <1>31 DEF Unheard, Leaves, radio, Types, ClientType, StageInv, Speaking, InCourse
<1>32. CASE Disconnect
  BY <1>32 DEF Disconnect, Drop, Types, ClientType, StageInv, Speaking, InCourse
<1>33. CASE Retry
  BY <1>33 DEF Retry, Unset, radio, Types, ClientType, StageInv, Speaking, InCourse
<1>34. CASE Finish
  BY <1>34 DEF Finish, radio, Types, ClientType, StageInv, Speaking, InCourse
<1>35. CASE UNCHANGED <<pc, step, request>>
  BY StageStays, <1>35 DEF Types, ClientType, StageInv, Speaking, InCourse
<1> QED
  BY <1>1, <1>2, <1>3, <1>4, <1>5, <1>6, <1>7, <1>8, <1>9, <1>10, <1>11, <1>12, <1>13, <1>14,
    <1>15, <1>16, <1>17, <1>18, <1>19, <1>20, <1>21, <1>22, <1>23, <1>24, <1>25, <1>26, <1>27,
    <1>28, <1>29, <1>30, <1>31, <1>32, <1>33, <1>34, <1>35 DEF Next, Client, Host, Device,
    client, radio, Maintain, Sync, Reset, Sighted, ScanOver, LinkUp, LinkRefused, LinkLost,
    Deliver, Encrypted, Complete, NotifyRx, Serve, Notify, SwitchOutput, Grant, Abort

\* The types are kept.
LEMMA TypesKept == Types /\ StageInv /\ Next => Types'
<1> SUFFICES ASSUME Types, StageInv, Next PROVE Types'
  OBVIOUS
<1>1. ClientType'
  <2>1. pc' \in Places /\ step' \in Nat
    BY PlaceTyped
  <2>2. IF pc' = "idle" THEN request' = NoRequest ELSE request' \in Requests
    BY RequestKept
  <2>3. DOMAIN result' = DOMAIN result
    BY ResultTyped
  <2> QED
    BY <2>1, <2>2, <2>3 DEF Types, ClientType
<1>2. ContextType' /\ SessionType' /\ NimbleType' /\ AirType' /\ DeviceType' /\ TruthType'
  BY ContextTyped, SessionTyped, NimbleTyped, AirTyped, DeviceTyped, TruthTyped
<1> QED
  BY <1>1, <1>2 DEF Types

\* What is learned from an answer leaves all but the values as it was.
LEMMA LearnedIs ==
  ASSUME ClientType, NEW value
  PROVE  /\ DOMAIN Learned(value) = DOMAIN result
         /\ Learned(value).code = result.code /\ Learned(value).verified = result.verified
         /\ Learned(value).changed = result.changed /\ Learned(value).sum = result.sum
         /\ Learned(value).restart = result.restart
         /\ Learned(value).attempts = result.attempts
         /\ Learned(value).value = IF Stage = "readback" THEN value ELSE result.value
BY DEF Learned, ClientType

\* An answer changes the values of the frame, and succeeds only where it ends the attempt.
LEMMA HearResult ==
  ASSUME Types, Hear
  PROVE  /\ pc = "hear" /\ pc' \in {"issue", "ask", "settle", "drop"}
         /\ result'.changed = result.changed /\ result'.sum = result.sum
         /\ result'.restart = result.restart /\ result'.attempts = result.attempts
         /\ result'.value = IF Stage = "readback" THEN session.value ELSE result.value
         /\ result'.code = "ok" => result.code = "ok" \/ pc' = "drop"
<1> DEFINE L == Learned(session.value)
<1>1. /\ DOMAIN L = DOMAIN result /\ L.code = result.code /\ L.changed = result.changed
      /\ L.sum = result.sum /\ L.restart = result.restart /\ L.attempts = result.attempts
      /\ L.value = IF Stage = "readback" THEN session.value ELSE result.value
  BY LearnedIs DEF Types
<1>2. pc = "hear" /\ (pc' \in {"issue", "ask", "settle", "drop"})
  BY HearSplits DEF Advance
<1>3. \/ result' = [L EXCEPT !.code = FailCode(Stage)] /\ pc' = "drop"
      \/ result' = L
      \/ result' = [L EXCEPT !.verified = TRUE, !.code = "ok"] /\ pc' = "drop"
      \/ result' = [L EXCEPT !.polls = @ + 1, !.code = "verify_failed"]
  BY HearSplits
<1>4. DOMAIN L = {"code", "attempts", "initial", "verified", "changed", "value", "load",
                  "restart", "polls", "sum"}
  BY <1>1 DEF Types, ClientType
<1> HIDE DEF L
<1> QED
  BY <1>1, <1>2, <1>3, <1>4

-----------------------------------------------------------------------------
(* The host and the link.                                                  *)

\* The host runs in a run only, and the context outlives it.
LEMMA HostKept == Types /\ HostInv /\ Next => HostInv'
<1> SUFFICES ASSUME Types, HostInv, Next
             PROVE  HostInv'
  OBVIOUS
<1>1. CASE Run
  BY <1>1 DEF Run, Created, Freed, Unset, Off, Pending, Types, ClientType, ContextType,
    NimbleType, HostInv
<1>2. CASE StackFails
  BY <1>2 DEF StackFails, Unset, Created, Freed, Types, ClientType, ContextType, NimbleType,
    HostInv
<1>3. CASE HostSynced
  BY <1>3 DEF HostSynced, Take, radio, Types, ClientType, ContextType, NimbleType, HostInv
<1>4. CASE HostNotSynced
  BY <1>4 DEF HostNotSynced, radio, Types, ClientType, ContextType, NimbleType, HostInv
<1>5. CASE Stop
  BY <1>5 DEF Stop, Freed, Off, Types, ClientType, ContextType, NimbleType, HostInv
<1>6. CASE StopFails
  BY <1>6 DEF StopFails, RequireRestart, Off, Types, ClientType, ContextType, NimbleType, HostInv
<1>7. CASE Report
  BY <1>7 DEF Report, Unset, Freed, Off, NoRequest, Types, ClientType, ContextType, NimbleType,
    HostInv
<1>8. CASE Scan
  BY <1>8 DEF Scan, Drained, Types, ClientType, ContextType, NimbleType, HostInv
<1>9. CASE Scanned
  BY <1>9 DEF Scanned, Take, Ends, radio, Types, ClientType, ContextType, NimbleType, HostInv
<1>10. CASE ScanFails
  BY <1>10 DEF ScanFails, radio, Types, ClientType, ContextType, NimbleType, HostInv
<1>11. CASE ScanAbort
  BY <1>11 DEF ScanAbort, Ends, Types, ClientType, ContextType, NimbleType, HostInv
<1>12. CASE Connect
  BY <1>12 DEF Connect, Drained, Types, ClientType, ContextType, NimbleType, HostInv
<1>13. CASE Connected
  BY <1>13 DEF Connected, Take, radio, Types, ClientType, ContextType, NimbleType, HostInv
<1>14. CASE ConnectFails
  BY <1>14 DEF ConnectFails, Drained, radio, Types, ClientType, ContextType, NimbleType, HostInv
<1>15. CASE ConnectAbort
  BY <1>15 DEF ConnectAbort, Types, ClientType, ContextType, NimbleType, HostInv
<1>16. CASE Abandoned
  BY <1>16 DEF Abandoned, Leaves, Drained, radio, Types, ClientType, ContextType, NimbleType,
    HostInv
<1>17. CASE Secured
  BY <1>17 DEF Secured, radio, Types, ClientType, ContextType, NimbleType, HostInv
<1>18. CASE NotSecured
  BY <1>18 DEF NotSecured, Leaves, radio, Types, ClientType, ContextType, NimbleType, HostInv
<1>19. CASE Issue
  BY <1>19 DEF Issue, Drained, Pending, Types, ClientType, ContextType, NimbleType, HostInv
<1>20. CASE Failed
  BY <1>20 DEF Failed, Leaves, Drained, radio, Types, ClientType, ContextType, NimbleType, HostInv
<1>21. CASE Discovered
  BY <1>21 DEF Discovered, Completed, Take, radio, Types, ClientType, ContextType, NimbleType,
    HostInv, Advance
<1>22. CASE Written
  BY <1>22 DEF Written, Completed, Take, radio, Types, ClientType, ContextType, NimbleType,
    HostInv, Advance
<1>23. CASE Reread
  BY <1>23 DEF Reread, Completed, Take, radio, Types, ClientType, ContextType, NimbleType, HostInv
<1>24. CASE Open
  BY <1>24 DEF Open, Types, ClientType, ContextType, NimbleType, HostInv, Advance
<1>25. CASE Ask
  BY <1>25 DEF Ask, Types, ClientType, ContextType, NimbleType, HostInv
<1>26. CASE KeepAlive
  BY <1>26 DEF KeepAlive, Types, ClientType, ContextType, NimbleType, HostInv, Advance
<1>27. CASE AlreadySet
  BY <1>27 DEF AlreadySet, radio, Types, ClientType, ContextType, NimbleType, HostInv, Advance
<1>28. CASE Set
  BY <1>28 DEF Set, Types, ClientType, ContextType, NimbleType, HostInv
<1>29. CASE Settle
  BY <1>29 DEF Settle, Leaves, radio, Types, ClientType, ContextType, NimbleType, HostInv, Advance
<1>30. CASE Hear
  BY <1>30, HearResult, HearSplits DEF Types, ClientType, ContextType, NimbleType, HostInv
<1>31. CASE Unheard
  BY <1>31 DEF Unheard, Leaves, radio, Types, ClientType, ContextType, NimbleType, HostInv
<1>32. CASE Disconnect
  BY <1>32 DEF Disconnect, Drop, Terminated, Types, ClientType, ContextType, NimbleType, HostInv
<1>33. CASE Retry
  BY <1>33 DEF Retry, Unset, radio, Types, ClientType, ContextType, NimbleType, HostInv
<1>34. CASE Finish
  BY <1>34 DEF Finish, radio, Types, ClientType, ContextType, NimbleType, HostInv
<1>35. CASE Sync
  BY <1>35 DEF Sync, Given, client, radio, Types, ClientType, ContextType, NimbleType, HostInv
<1>36. CASE Reset
  BY <1>36 DEF Reset, Given, client, Types, ClientType, ContextType, NimbleType, HostInv
<1>37. CASE Sighted
  BY <1>37 DEF Sighted, Given, client, Types, ClientType, ContextType, NimbleType, HostInv
<1>38. CASE ScanOver
  BY <1>38 DEF ScanOver, Given, client, Types, ClientType, ContextType, NimbleType, HostInv
<1>39. CASE LinkUp
  BY <1>39 DEF LinkUp, client, Types, ClientType, ContextType, NimbleType, HostInv
<1>40. CASE LinkRefused
  BY <1>40 DEF LinkRefused, client, Types, ClientType, ContextType, NimbleType, HostInv
<1>41. CASE LinkLost
  BY <1>41 DEF LinkLost, Answered, Given, client, Types, ClientType, ContextType, NimbleType,
    HostInv
<1>42. CASE Deliver
  BY <1>42 DEF Deliver, GapEvent, Given, client, Types, ClientType, ContextType, NimbleType,
    HostInv
<1>43. CASE Encrypted
  BY <1>43 DEF Encrypted, client, Types, ClientType, ContextType, NimbleType, HostInv
<1>44. CASE Complete
  BY <1>44 DEF Complete, Answered, Given, client, Types, ClientType, ContextType, NimbleType,
    HostInv
<1>45. CASE UNCHANGED <<pc, context, nimble, result>>
  BY <1>45 DEF Types, ClientType, ContextType, NimbleType, HostInv
<1> QED
  BY <1>1, <1>2, <1>3, <1>4, <1>5, <1>6, <1>7, <1>8, <1>9, <1>10, <1>11, <1>12, <1>13, <1>14,
    <1>15, <1>16, <1>17, <1>18, <1>19, <1>20, <1>21, <1>22, <1>23, <1>24, <1>25, <1>26, <1>27,
    <1>28, <1>29, <1>30, <1>31, <1>32, <1>33, <1>34, <1>35, <1>36, <1>37, <1>38, <1>39, <1>40,
    <1>41, <1>42, <1>43, <1>44, <1>45 DEF Next, Client, Host, Device, client, radio, Maintain,
    NotifyRx, Serve, Notify, SwitchOutput, Grant, Abort

\* No failure is reported as a success.
LEMMA FailCodes == FailCode(Stage) # "ok" /\ FailCode(Stage) # None
BY DEF FailCode, None

\* In silence no switch write is under way.
LEMMA NoneSwitching == air = Silence => ~Switching(air.toDevice)
BY DEF Silence, Switching

\* Nothing is under way, granted or owed without a link.
LEMMA LinkKept == Types /\ HostInv /\ LinkInv /\ ProcInv /\ Next => LinkInv'
<1> SUFFICES ASSUME Types, HostInv, LinkInv, ProcInv, Next
             PROVE  LinkInv'
  OBVIOUS
<1>1. CASE Run
  BY <1>1 DEF Run, Created, Freed, Unset, Off, Pending, client, Types, ClientType, NimbleType,
    DeviceType, HostInv, LinkInv, ProcInv, Quiet, Speaking, Over, Closing
<1>2. CASE StackFails
  BY <1>2 DEF StackFails, Unset, Created, Freed, client, Types, ClientType, NimbleType,
    DeviceType, HostInv, LinkInv, ProcInv, Quiet, Speaking, Over, Closing
<1>3. CASE HostSynced
  BY <1>3 DEF HostSynced, Take, client, radio, Types, ClientType, NimbleType, DeviceType, HostInv,
    LinkInv, ProcInv, Quiet, Speaking, Over, Closing
<1>4. CASE HostNotSynced
  BY <1>4 DEF HostNotSynced, client, radio, Types, ClientType, NimbleType, DeviceType, HostInv,
    LinkInv, ProcInv, Quiet, Speaking, Over, Closing
<1>5. CASE Stop
  BY <1>5 DEF Stop, Freed, Off, Silence, client, Types, ClientType, NimbleType, DeviceType,
    HostInv, LinkInv, ProcInv, Quiet, Speaking, Over, Closing
<1>6. CASE StopFails
  BY <1>6 DEF StopFails, RequireRestart, Off, client, Types, ClientType, NimbleType, DeviceType,
    HostInv, LinkInv, ProcInv, Quiet, Speaking, Over, Closing
<1>7. CASE Report
  <2>1. pc = "report" /\ pc' = "idle" /\ result' = Unset
    BY <1>7 DEF Report
  <2>2. CASE nimble' = Off /\ air' = Silence /\ device' = [device EXCEPT !.grant = 0, !.owed = 0]
    BY <2>1, <2>2 DEF Off, Unset, Types, ClientType, NimbleType, DeviceType, HostInv, LinkInv,
      ProcInv, Quiet, Speaking, Over, Closing
  <2>3. CASE ~result.restart /\ UNCHANGED <<nimble, air, device>>
    <3>1. ~nimble.host /\ nimble.link = "down" /\ Quiet
      BY <2>1, <2>3 DEF HostInv, LinkInv
    <3> QED
      BY <2>1, <2>3, <3>1 DEF Unset, Types, ClientType, NimbleType, DeviceType, HostInv, LinkInv,
        ProcInv, Quiet, Speaking, Over, Closing
  <2> QED
    BY <1>7, <2>2, <2>3, ReportCleans
<1>8. CASE Scan
  BY <1>8 DEF Scan, Drained, client, Types, ClientType, NimbleType, DeviceType, HostInv, LinkInv,
    ProcInv, Quiet, Speaking, Over, Closing
<1>9. CASE Scanned
  BY <1>9 DEF Scanned, Take, Ends, client, radio, Types, ClientType, NimbleType, DeviceType,
    HostInv, LinkInv, ProcInv, Quiet, Speaking, Over, Closing
<1>10. CASE ScanFails
  BY <1>10 DEF ScanFails, client, radio, Types, ClientType, NimbleType, DeviceType, HostInv,
    LinkInv, ProcInv, Quiet, Speaking, Over, Closing
<1>11. CASE ScanAbort
  BY <1>11 DEF ScanAbort, Ends, client, Types, ClientType, NimbleType, DeviceType, HostInv,
    LinkInv, ProcInv, Quiet, Speaking, Over, Closing
<1>12. CASE Connect
  BY <1>12 DEF Connect, Drained, client, Types, ClientType, NimbleType, DeviceType, HostInv,
    LinkInv, ProcInv, Quiet, Speaking, Over, Closing
<1>13. CASE Connected
  BY <1>13 DEF Connected, Take, client, radio, Types, ClientType, NimbleType, DeviceType, HostInv,
    LinkInv, ProcInv, Quiet, Speaking, Over, Closing
<1>14. CASE ConnectFails
  BY <1>14 DEF ConnectFails, Drained, client, radio, Types, ClientType, NimbleType, DeviceType,
    HostInv, LinkInv, ProcInv, Quiet, Speaking, Over, Closing
<1>15. CASE ConnectAbort
  BY <1>15 DEF ConnectAbort, client, Types, ClientType, NimbleType, DeviceType, HostInv, LinkInv,
    ProcInv, Quiet, Speaking, Over, Closing
<1>16. CASE Abandoned
  BY <1>16 DEF Abandoned, Leaves, Drained, client, radio, Types, ClientType, NimbleType,
    DeviceType, HostInv, LinkInv, ProcInv, Quiet, Speaking, Over, Closing
<1>17. CASE Secured
  BY <1>17 DEF Secured, client, radio, Types, ClientType, NimbleType, DeviceType, HostInv,
    LinkInv, ProcInv, Quiet, Speaking, Over, Closing
<1>18. CASE NotSecured
  BY <1>18 DEF NotSecured, Leaves, client, radio, Types, ClientType, NimbleType, DeviceType,
    HostInv, LinkInv, ProcInv, Quiet, Speaking, Over, Closing
<1>19. CASE Issue
  BY <1>19 DEF Issue, Drained, Pending, client, Types, ClientType, NimbleType, DeviceType,
    HostInv, LinkInv, ProcInv, Quiet, Speaking, Over, Closing
<1>20. CASE Failed
  BY <1>20, FailCodes DEF Failed, Leaves, client, radio, Types, ClientType, NimbleType,
    DeviceType, HostInv, LinkInv, ProcInv, Quiet, Speaking, Over, Closing
<1>21. CASE Discovered
  BY <1>21 DEF Discovered, Completed, Take, client, radio, Types, ClientType, NimbleType,
    DeviceType, HostInv, LinkInv, ProcInv, Quiet, Speaking, Over, Closing, Advance
<1>22. CASE Written
  BY <1>22 DEF Written, Completed, Take, client, radio, Types, ClientType, NimbleType, DeviceType,
    HostInv, LinkInv, ProcInv, Quiet, Speaking, Over, Closing, Advance
<1>23. CASE Reread
  BY <1>23 DEF Reread, Completed, Take, client, radio, Types, ClientType, NimbleType, DeviceType,
    HostInv, LinkInv, ProcInv, Quiet, Speaking, Over, Closing
<1>24. CASE Open
  BY <1>24 DEF Open, Transmit, client, Types, ClientType, NimbleType, DeviceType, HostInv,
    LinkInv, ProcInv, Quiet, Speaking, Over, Closing, Advance
<1>25. CASE Ask
  BY <1>25 DEF Ask, Transmit, client, Types, ClientType, NimbleType, DeviceType, HostInv, LinkInv,
    ProcInv, Quiet, Speaking, Over, Closing
<1>26. CASE Maintain
  BY <1>26 DEF Maintain, Transmit, client, Types, ClientType, NimbleType, DeviceType, HostInv,
    LinkInv, ProcInv, Quiet, Speaking, Over, Closing
<1>27. CASE KeepAlive
  BY <1>27 DEF KeepAlive, Transmit, client, Types, ClientType, NimbleType, DeviceType, HostInv,
    LinkInv, ProcInv, Quiet, Speaking, Over, Closing, Advance
<1>28. CASE AlreadySet
  BY <1>28 DEF AlreadySet, client, radio, Types, ClientType, NimbleType, DeviceType, HostInv,
    LinkInv, ProcInv, Quiet, Speaking, Over, Closing, Advance
<1>29. CASE Set
  BY <1>29 DEF Set, Transmit, client, Types, ClientType, NimbleType, DeviceType, HostInv, LinkInv,
    ProcInv, Quiet, Speaking, Over, Closing
<1>30. CASE Settle
  BY <1>30 DEF Settle, Leaves, client, radio, Types, ClientType, NimbleType, DeviceType, HostInv,
    LinkInv, ProcInv, Quiet, Speaking, Over, Closing, Advance
<1>31. CASE Hear
  BY <1>31, HearResult, HearSplits DEF Types, ClientType, NimbleType, DeviceType, HostInv,
    LinkInv, ProcInv, Quiet, Speaking, Over, Closing
<1>32. CASE Unheard
  BY <1>32 DEF Unheard, Leaves, client, radio, Types, ClientType, NimbleType, DeviceType, HostInv,
    LinkInv, ProcInv, Quiet, Speaking, Over, Closing
<1>33. CASE Disconnect
  BY <1>33, NoneSwitching DEF Disconnect, Drop, Remains, Terminated, Silence, client, Types,
    ClientType, NimbleType, DeviceType, HostInv, LinkInv, ProcInv, Quiet, Speaking, Over,
    Closing
<1>34. CASE Retry
  BY <1>34 DEF Retry, Unset, client, radio, Types, ClientType, NimbleType, DeviceType, HostInv,
    LinkInv, ProcInv, Quiet, Speaking, Over, Closing
<1>35. CASE Finish
  BY <1>35 DEF Finish, client, radio, Types, ClientType, NimbleType, DeviceType, HostInv, LinkInv,
    ProcInv, Quiet, Speaking, Over, Closing
<1>36. CASE Reset
  BY <1>36 DEF Reset, Given, client, Types, ClientType, NimbleType, DeviceType, HostInv, LinkInv,
    ProcInv, Quiet, Speaking, Over, Closing
<1>37. CASE Sighted
  BY <1>37 DEF Sighted, Given, client, Types, ClientType, NimbleType, DeviceType, HostInv,
    LinkInv, ProcInv, Quiet, Speaking, Over, Closing
<1>38. CASE ScanOver
  BY <1>38 DEF ScanOver, Given, client, Types, ClientType, NimbleType, DeviceType, HostInv,
    LinkInv, ProcInv, Quiet, Speaking, Over, Closing
<1>39. CASE LinkUp
  BY <1>39 DEF LinkUp, client, Types, ClientType, NimbleType, DeviceType, HostInv, LinkInv,
    ProcInv, Quiet, Speaking, Over, Closing
<1>40. CASE LinkRefused
  BY <1>40 DEF LinkRefused, client, Types, ClientType, NimbleType, DeviceType, HostInv, LinkInv,
    ProcInv, Quiet, Speaking, Over, Closing
<1>41. CASE LinkLost
  BY <1>41 DEF LinkLost, Answered, Given, Silence, client, Types, ClientType, NimbleType,
    DeviceType, HostInv, LinkInv, ProcInv, Quiet, Speaking, Over, Closing
<1>42. CASE Deliver
  BY <1>42 DEF Deliver, GapEvent, Given, client, Types, ClientType, NimbleType, DeviceType,
    HostInv, LinkInv, ProcInv, Quiet, Speaking, Over, Closing
<1>43. CASE Encrypted
  BY <1>43 DEF Encrypted, client, Types, ClientType, NimbleType, DeviceType, HostInv, LinkInv,
    ProcInv, Quiet, Speaking, Over, Closing
<1>44. CASE Complete
  BY <1>44 DEF Complete, Answered, Given, client, Types, ClientType, NimbleType, DeviceType,
    HostInv, LinkInv, ProcInv, Quiet, Speaking, Over, Closing
<1>45. CASE NotifyRx
  BY <1>45 DEF NotifyRx, client, Types, ClientType, NimbleType, DeviceType, HostInv, LinkInv,
    ProcInv, Quiet, Speaking, Over, Closing
<1>46. CASE Serve
  <2>1. ~Quiet /\ UNCHANGED <<client, nimble>>
    BY <1>46 DEF Serve, Quiet, Silence
  <2>2. /\ ~(nimble.host /\ nimble.link \in {"down", "connecting"})
        /\ ~(pc = "idle" \/ (pc = "report" /\ ~result.restart))
    BY <2>1 DEF LinkInv
  <2> QED
    BY <2>1, <2>2 DEF client, LinkInv
<1>47. CASE Notify
  BY <1>47 DEF Notify, Tell, client, Types, ClientType, NimbleType, DeviceType, HostInv, LinkInv,
    ProcInv, Quiet, Speaking, Over, Closing
<1>48. CASE SwitchOutput
  BY <1>48 DEF SwitchOutput, client, Types, ClientType, NimbleType, DeviceType, HostInv, LinkInv,
    ProcInv, Quiet, Speaking, Over, Closing
<1>49. CASE Grant
  BY <1>49 DEF Grant, client, Types, ClientType, NimbleType, DeviceType, HostInv, LinkInv,
    ProcInv, Quiet, Speaking, Over, Closing
<1>50. CASE UNCHANGED <<pc, nimble, air, device, result>>
  BY <1>50 DEF Types, ClientType, NimbleType, DeviceType, HostInv, LinkInv, ProcInv, Quiet,
    Speaking, Over, Closing
<1> QED
  BY <1>1, <1>2, <1>3, <1>4, <1>5, <1>6, <1>7, <1>8, <1>9, <1>10, <1>11, <1>12, <1>13, <1>14,
    <1>15, <1>16, <1>17, <1>18, <1>19, <1>20, <1>21, <1>22, <1>23, <1>24, <1>25, <1>26, <1>27,
    <1>28, <1>29, <1>30, <1>31, <1>32, <1>33, <1>34, <1>35, <1>36, <1>37, <1>38, <1>39, <1>40,
    <1>41, <1>42, <1>43, <1>44, <1>45, <1>46, <1>47, <1>48, <1>49, <1>50 DEF Next, Client, Host,
    Device, client, radio, Sync, Abort

-----------------------------------------------------------------------------
(* The pending procedure.                                                  *)

\* A step that leaves the statuses alone keeps the procedure invariant.
LEMMA ProcCarries ==
  ASSUME ProcInv, UNCHANGED client, nimble'.procs = nimble.procs \/ nimble'.procs = <<>>,
         context'.gatt = context.gatt, context'.write = context.write,
         nimble'.link = nimble.link \/ nimble'.procs = <<>>
  PROVE  ProcInv'
<1>1. Stage' = Stage /\ Owner' = Owner
  BY StageStays DEF client, Owner
<1>2. Current' = Current
  BY <1>1 DEF Current
<1> QED
  BY <1>1, <1>2 DEF ProcInv, client

\* The only procedure is the first and the last.
LEMMA OneOwner ==
  Head(<<Owner>>) = Owner /\ Last(<<Owner>>) = Owner /\ Tail(<<Owner>>) = <<>>
BY DEF Last

\* So does one that clears the status the client waits for.
LEMMA ProcPending ==
  ASSUME ProcInv, UNCHANGED client, nimble'.procs = nimble.procs, nimble'.link = nimble.link,
         ~Current'.ok
  PROVE  ProcInv'
<1>1. Owner' = Owner
  BY DEF client, Owner
<1> QED
  BY <1>1 DEF ProcInv, client

\* And one that ends the pending procedure, which is the client's.
LEMMA AnsweredKept ==
  ASSUME ProcInv, ContextType, UNCHANGED client, nimble.procs # <<>>, NEW owner, NEW ok \in BOOLEAN,
         context'.gatt = Answered(owner, ok).gatt, context'.write = Answered(owner, ok).write,
         pc = "await" => owner = Owner /\ nimble'.procs = <<>>,
         nimble'.procs # <<>> => nimble'.link \in {"up", "closing"}
  PROVE  ProcInv'
<1>1. Stage' = Stage /\ Owner' = Owner /\ pc' = pc /\ result' = result
  BY StageStays DEF client, Owner
<1>2. pc \notin {"connecting", "secure", "issue"} \cup Speaking
  BY DEF ProcInv
<1>3. CASE pc = "await" /\ ok
  <2>1. Plan[owner.step] = Stage /\ owner = Owner
    BY <1>3 DEF Owner, Stage
  <2>2. Current' = [ok |-> TRUE, of |-> owner]
    BY <1>1, <1>3, <2>1 DEF Current, Answered, Given, ContextType
  <2> QED
    BY <1>1, <1>3, <2>1, <2>2 DEF ProcInv, Speaking
<1>4. CASE pc = "await" /\ ~ok
  <2>1. Plan[owner.step] = Stage /\ owner = Owner
    BY <1>4 DEF Owner, Stage
  <2>2. Current' = Pending
    BY <1>1, <1>4, <2>1 DEF Current, Answered, Given, ContextType
  <2>3. ~Current'.ok
    BY <2>2 DEF Pending
  <2> QED
    BY <1>1, <1>4, <2>3 DEF ProcInv, Speaking
<1>5. CASE pc # "await"
  BY <1>1, <1>2, <1>5 DEF ProcInv
<1> QED
  BY <1>3, <1>4, <1>5

\* The completion the client waits for is that of its own procedure.
LEMMA ProcKept == Types /\ StageInv /\ LinkInv /\ ProcInv /\ Next => ProcInv'
<1> SUFFICES ASSUME Types, StageInv, LinkInv, ProcInv, Next
             PROVE  ProcInv'
  OBVIOUS
<1>1. CASE Run
  BY <1>1 DEF Run, Created, Freed, Unset, Off, Pending, client, Types, ClientType, ContextType,
    NimbleType, StageInv, LinkInv, ProcInv, Current, Owner, InCourse, Speaking, Over, Closing
<1>2. CASE StackFails
  BY <1>2 DEF StackFails, Unset, Created, Freed, client, Types, ClientType, ContextType,
    NimbleType, StageInv, LinkInv, ProcInv, Current, Owner, InCourse, Speaking, Over, Closing
<1>3. CASE HostSynced
  BY <1>3 DEF HostSynced, Take, client, radio, Types, ClientType, ContextType, NimbleType,
    StageInv, LinkInv, ProcInv, Current, Owner, InCourse, Speaking, Over, Closing
<1>4. CASE HostNotSynced
  BY <1>4 DEF HostNotSynced, client, radio, Types, ClientType, ContextType, NimbleType, StageInv,
    LinkInv, ProcInv, Current, Owner, InCourse, Speaking, Over, Closing
<1>5. CASE Stop
  BY <1>5 DEF Stop, Freed, Off, client, Types, ClientType, ContextType, NimbleType, StageInv,
    LinkInv, ProcInv, Current, Owner, InCourse, Speaking, Over, Closing
<1>6. CASE StopFails
  BY <1>6 DEF StopFails, RequireRestart, Off, client, Types, ClientType, ContextType, NimbleType,
    StageInv, LinkInv, ProcInv, Current, Owner, InCourse, Speaking, Over, Closing
<1>7. CASE Report
  BY <1>7 DEF Report, Unset, Freed, Off, NoRequest, client, Types, ClientType, ContextType,
    NimbleType, StageInv, LinkInv, ProcInv, Current, Owner, InCourse, Speaking, Over, Closing
<1>8. CASE Scan
  BY <1>8 DEF Scan, Drained, client, Types, ClientType, ContextType, NimbleType, StageInv,
    LinkInv, ProcInv, Current, Owner, InCourse, Speaking, Over, Closing
<1>9. CASE Scanned
  BY <1>9 DEF Scanned, Take, Ends, client, radio, Types, ClientType, ContextType, NimbleType,
    StageInv, LinkInv, ProcInv, Current, Owner, InCourse, Speaking, Over, Closing
<1>10. CASE ScanFails
  BY <1>10 DEF ScanFails, client, radio, Types, ClientType, ContextType, NimbleType, StageInv,
    LinkInv, ProcInv, Current, Owner, InCourse, Speaking, Over, Closing
<1>11. CASE ScanAbort
  BY <1>11 DEF ScanAbort, Ends, client, Types, ClientType, ContextType, NimbleType, StageInv,
    LinkInv, ProcInv, Current, Owner, InCourse, Speaking, Over, Closing
<1>12. CASE Connect
  BY <1>12 DEF Connect, Drained, client, Types, ClientType, ContextType, NimbleType, StageInv,
    LinkInv, ProcInv, Current, Owner, InCourse, Speaking, Over, Closing
<1>13. CASE Connected
  BY <1>13 DEF Connected, Take, client, radio, Types, ClientType, ContextType, NimbleType,
    StageInv, LinkInv, ProcInv, Current, Owner, InCourse, Speaking, Over, Closing
<1>14. CASE ConnectFails
  BY <1>14 DEF ConnectFails, Drained, client, radio, Types, ClientType, ContextType, NimbleType,
    StageInv, LinkInv, ProcInv, Current, Owner, InCourse, Speaking, Over, Closing
<1>15. CASE ConnectAbort
  BY <1>15 DEF ConnectAbort, client, Types, ClientType, ContextType, NimbleType, StageInv,
    LinkInv, ProcInv, Current, Owner, InCourse, Speaking, Over, Closing
<1>16. CASE Abandoned
  BY <1>16 DEF Abandoned, Leaves, Drained, client, radio, Types, ClientType, ContextType,
    NimbleType, StageInv, LinkInv, ProcInv, Current, Owner, InCourse, Speaking, Over, Closing
<1>17. CASE Secured
  BY <1>17 DEF Secured, client, radio, Types, ClientType, ContextType, NimbleType, StageInv,
    LinkInv, ProcInv, Current, Owner, InCourse, Speaking, Over, Closing
<1>18. CASE NotSecured
  BY <1>18 DEF NotSecured, Leaves, client, radio, Types, ClientType, ContextType, NimbleType,
    StageInv, LinkInv, ProcInv, Current, Owner, InCourse, Speaking, Over, Closing
<1>19. CASE Issue
  <2>1. /\ pc' = "await" /\ pc = "issue" /\ UNCHANGED <<step, request, result>>
        /\ nimble.link = "up" /\ nimble'.link = "up" /\ nimble.procs = <<>>
        /\ nimble'.procs = Append(nimble.procs, Owner)
    BY <1>19 DEF Issue, Types, NimbleType, ProcInv
  <2>2. Stage' = Stage /\ Owner' = Owner
    BY <2>1, StageStays DEF Owner
  <2>3. Current' = Pending
    BY <1>19, <2>2 DEF Issue, Drained, Current, Types, ContextType
  <2>4. ~Current'.ok
    BY <2>3 DEF Pending
  <2> QED
    BY <2>1, <2>2, <2>4 DEF ProcInv, Over, Closing, Speaking
<1>20. CASE Failed
  BY <1>20 DEF Failed, Leaves, Drained, client, radio, Types, ClientType, ContextType, NimbleType,
    StageInv, LinkInv, ProcInv, Current, Owner, InCourse, Speaking, Over, Closing
<1>21. CASE Discovered
  <2>1. /\ pc = "await" /\ UNCHANGED <<result, nimble>> /\ pc' \in {"issue", "ask"}
        /\ Stage \notin Writes /\ context.gatt.ok
    BY <1>21 DEF Discovered, Completed, Advance, radio, Procedures, Writes
  <2>2. nimble.procs = <<>>
    BY <2>1 DEF ProcInv, Current
  <2> QED
    BY <2>1, <2>2 DEF ProcInv, Speaking, Over, Closing
<1>22. CASE Written
  BY <1>22 DEF Written, Completed, Take, client, radio, Types, ClientType, ContextType,
    NimbleType, StageInv, LinkInv, ProcInv, Current, Owner, InCourse, Speaking, Over, Closing,
    Advance
<1>23. CASE Reread
  BY <1>23 DEF Reread, Completed, Take, client, radio, Types, ClientType, ContextType, NimbleType,
    StageInv, LinkInv, ProcInv, Current, Owner, InCourse, Speaking, Over, Closing
<1>24. CASE Open
  BY <1>24 DEF Open, client, Types, ClientType, ContextType, NimbleType, StageInv, LinkInv,
    ProcInv, Current, Owner, InCourse, Speaking, Over, Closing, Advance
<1>25. CASE Ask
  BY <1>25 DEF Ask, client, Types, ClientType, ContextType, NimbleType, StageInv, LinkInv,
    ProcInv, Current, Owner, InCourse, Speaking, Over, Closing
<1>26. CASE KeepAlive
  BY <1>26 DEF KeepAlive, client, Types, ClientType, ContextType, NimbleType, StageInv, LinkInv,
    ProcInv, Current, Owner, InCourse, Speaking, Over, Closing, Advance
<1>27. CASE AlreadySet
  BY <1>27 DEF AlreadySet, client, radio, Types, ClientType, ContextType, NimbleType, StageInv,
    LinkInv, ProcInv, Current, Owner, InCourse, Speaking, Over, Closing, Advance
<1>28. CASE Set
  BY <1>28 DEF Set, client, Types, ClientType, ContextType, NimbleType, StageInv, LinkInv,
    ProcInv, Current, Owner, InCourse, Speaking, Over, Closing
<1>29. CASE Settle
  BY <1>29 DEF Settle, Leaves, client, radio, Types, ClientType, ContextType, NimbleType,
    StageInv, LinkInv, ProcInv, Current, Owner, InCourse, Speaking, Over, Closing, Advance
<1>30. CASE Hear
  BY <1>30, HearResult, HearSplits DEF Types, ClientType, ContextType, NimbleType, StageInv,
    LinkInv, ProcInv, Current, Owner, InCourse, Speaking, Over, Closing
<1>31. CASE Unheard
  BY <1>31 DEF Unheard, Leaves, client, radio, Types, ClientType, ContextType, NimbleType,
    StageInv, LinkInv, ProcInv, Current, Owner, InCourse, Speaking, Over, Closing
<1>32. CASE Disconnect
  BY <1>32 DEF Disconnect, Drop, Terminated, client, Types, ClientType, ContextType, NimbleType,
    StageInv, LinkInv, ProcInv, Current, Owner, InCourse, Speaking, Over, Closing
<1>33. CASE Retry
  BY <1>33 DEF Retry, Unset, client, radio, Types, ClientType, ContextType, NimbleType, StageInv,
    LinkInv, ProcInv, Current, Owner, InCourse, Speaking, Over, Closing
<1>34. CASE Finish
  BY <1>34 DEF Finish, client, radio, Types, ClientType, ContextType, NimbleType, StageInv,
    LinkInv, ProcInv, Current, Owner, InCourse, Speaking, Over, Closing
<1>35. CASE Sync
  <2>1. /\ UNCHANGED client /\ context'.gatt = context.gatt /\ context'.write = context.write
        /\ nimble'.procs = nimble.procs
        /\ nimble'.link = nimble.link \/ nimble'.procs = <<>>
    BY <1>35 DEF Sync, Given, radio, Types, ContextType, NimbleType, LinkInv, ProcInv
  <2> QED
    BY <2>1, ProcCarries
<1>36. CASE Reset
  <2>1. /\ UNCHANGED client /\ context'.gatt = context.gatt /\ context'.write = context.write
        /\ nimble'.procs = nimble.procs
        /\ nimble'.link = nimble.link \/ nimble'.procs = <<>>
    BY <1>36 DEF Reset, Given, Types, ContextType, NimbleType, LinkInv, ProcInv
  <2> QED
    BY <2>1, ProcCarries
<1>37. CASE Sighted
  <2>1. /\ UNCHANGED client /\ context'.gatt = context.gatt /\ context'.write = context.write
        /\ nimble'.procs = nimble.procs
        /\ nimble'.link = nimble.link \/ nimble'.procs = <<>>
    BY <1>37 DEF Sighted, Given, Types, ContextType, NimbleType, LinkInv, ProcInv
  <2> QED
    BY <2>1, ProcCarries
<1>38. CASE ScanOver
  <2>1. /\ UNCHANGED client /\ context'.gatt = context.gatt /\ context'.write = context.write
        /\ nimble'.procs = nimble.procs
        /\ nimble'.link = nimble.link \/ nimble'.procs = <<>>
    BY <1>38 DEF ScanOver, Given, Types, ContextType, NimbleType, LinkInv, ProcInv
  <2> QED
    BY <2>1, ProcCarries
<1>39. CASE LinkUp
  BY <1>39 DEF LinkUp, client, Types, ClientType, ContextType, NimbleType, StageInv, LinkInv,
    ProcInv, Current, Owner, InCourse, Speaking, Over, Closing
<1>40. CASE LinkRefused
  BY <1>40 DEF LinkRefused, client, Types, ClientType, ContextType, NimbleType, StageInv, LinkInv,
    ProcInv, Current, Owner, InCourse, Speaking, Over, Closing
<1>41. CASE LinkLost
  <2>1. /\ UNCHANGED client /\ nimble'.procs = <<>>
    BY <1>41 DEF LinkLost, NimbleType, Types
  <2>2. CASE nimble.procs = <<>>
    <3>1. context' = context
      BY <1>41, <2>2 DEF LinkLost
    <3> QED
      BY <2>1, <2>2, <3>1, ProcCarries
  <2>3. CASE nimble.procs # <<>>
    <3>1. context' = Answered(Last(nimble.procs), FALSE)
      BY <1>41, <2>3 DEF LinkLost
    <3>2. pc = "await" => Last(nimble.procs) = Owner
      BY <2>3, OneOwner DEF ProcInv
    <3> QED
      BY <2>1, <2>3, <3>1, <3>2, AnsweredKept DEF Types
  <2> QED
    BY <2>2, <2>3
<1>42. CASE Deliver
  <2>1. /\ UNCHANGED client /\ nimble'.procs = nimble.procs /\ nimble'.link = nimble.link
    BY <1>42 DEF Deliver, NimbleType, Types
  <2>2. Head(nimble.events) \in {"connected", "connect_failed", "disconnected"}
    BY <1>42 DEF Deliver, Types, NimbleType
  <2>3. CASE context'.gatt = context.gatt /\ context'.write = context.write
    BY <2>1, <2>3, ProcCarries
  <2>4. CASE context'.gatt = Pending /\ context'.write = Pending
    <3>1. ~Current'.ok
      BY <2>4 DEF Current, Pending
    <3> QED
      BY <2>1, <3>1, ProcPending
  <2> QED
    BY <1>42, <2>2, <2>3, <2>4 DEF Deliver, GapEvent, Given, Types, ContextType
<1>43. CASE Encrypted
  <2>1. /\ UNCHANGED client /\ context'.gatt = context.gatt /\ context'.write = context.write
        /\ nimble'.procs = nimble.procs
        /\ nimble'.link = nimble.link \/ nimble'.procs = <<>>
    BY <1>43 DEF Encrypted, Types, ContextType, NimbleType, LinkInv, ProcInv
  <2> QED
    BY <2>1, ProcCarries
<1>44. CASE Complete
  <2> DEFINE owner == Head(nimble.procs)
  <2>1. PICK ok \in BOOLEAN, found \in BOOLEAN :
             context' = [Answered(owner, ok) EXCEPT !.found = found]
    BY <1>44 DEF Complete
  <2>2. /\ UNCHANGED client /\ nimble.procs # <<>> /\ nimble'.procs = Tail(nimble.procs)
        /\ nimble'.link = nimble.link
    BY <1>44 DEF Complete, Types, NimbleType
  <2>3. pc = "await" => owner = Owner /\ nimble'.procs = <<>>
    BY <2>2, OneOwner DEF ProcInv
  <2>4. DOMAIN Answered(owner, ok) = DOMAIN context
    BY DEF Answered, Given
  <2>5. context'.gatt = Answered(owner, ok).gatt /\ context'.write = Answered(owner, ok).write
    BY <2>1, <2>4 DEF Types, ContextType
  <2>6. nimble'.link \in {"up", "closing"}
    BY <2>2 DEF ProcInv
  <2> QED
    BY <2>2, <2>3, <2>5, <2>6, AnsweredKept DEF Types
<1>45. CASE UNCHANGED <<pc, step, request, result, context, nimble>>
  BY <1>45, ProcCarries DEF client
<1> QED
  BY <1>1, <1>2, <1>3, <1>4, <1>5, <1>6, <1>7, <1>8, <1>9, <1>10, <1>11, <1>12, <1>13, <1>14,
    <1>15, <1>16, <1>17, <1>18, <1>19, <1>20, <1>21, <1>22, <1>23, <1>24, <1>25, <1>26, <1>27,
    <1>28, <1>29, <1>30, <1>31, <1>32, <1>33, <1>34, <1>35, <1>36, <1>37, <1>38, <1>39, <1>40,
    <1>41, <1>42, <1>43, <1>44, <1>45 DEF Next, Client, Host, Device, client, radio, Maintain,
    NotifyRx, Serve, Notify, SwitchOutput, Grant, Abort

-----------------------------------------------------------------------------
(* The frame.                                                              *)

\* What an answer puts into the values of the frame.
LEMMA LearnedLoad ==
  ASSUME ClientType, NEW value
  PROVE  /\ Stage = "output" => Learned(value).load = IF request.profile = "battery" THEN value
                                                     ELSE result.load
         /\ Stage = "readback" => Learned(value).load = IF request.profile = "mppt" THEN value
                                                       ELSE result.load
BY DEF Learned, ClientType

\* The frame of a new attempt is a failure.
LEMMA UnsetFrame ==
  ASSUME \/ result' = Unset
         \/ \E r \in BOOLEAN : result' = [Unset EXCEPT !.restart = r]
  PROVE  result'.code = "stack_error" /\ ~result'.verified /\ result'.load = None
BY DEF Unset

(* A result that is not a success is accepted as long as it is not verified. *)
LEMMA FailedFrame ==
  ASSUME result'.code # "ok", ~result'.verified, Native' => ~LastLook',
         ~Native' => result'.load = None,
         pc' \in Speaking => Native'
  PROVE  FrameInv'
BY DEF FrameInv, StmAccepts, LastLook

\* A failure is not verified.
LEMMA NotVerified == FrameInv /\ result.code # "ok" => ~result.verified
BY DEF FrameInv, StmAccepts

\* Only a Victron command opens a session.
LEMMA SpeakingNative == Types /\ StageInv /\ pc \in Speaking => Native
BY PlanFacts DEF Types, ClientType, StageInv, Speaking, InCourse, Native, Procedures, Writes,
  Stage

\* A frame is judged by the request and the result alone.
LEMMA StmKept == UNCHANGED <<request, result>> => StmAccepts' = StmAccepts /\ Native' = Native
BY DEF StmAccepts, Native

\* SpeakingNative in the next state.
LEMMA SpeakingLater == Types' /\ StageInv' /\ (pc \in Speaking)' => Native'
BY SpeakingNative, PTL

\* Each result that may be reported is one the STM32 accepts.
LEMMA FrameKept == Types /\ StageInv /\ ProcInv /\ FrameInv /\ Next => FrameInv'
<1> SUFFICES ASSUME Types, StageInv, ProcInv, FrameInv, Next
             PROVE  FrameInv'
  OBVIOUS
<1>1. CASE Run
  BY <1>1 DEF Run, Unset, Off, client, Types, ClientType, ProcInv, FrameInv, StmAccepts, Native,
    InCourse, Speaking, Over, Closing
<1>2. CASE StackFails
  BY <1>2 DEF StackFails, Unset, client, Types, ClientType, ProcInv, FrameInv, StmAccepts, Native,
    InCourse, Speaking, Over, Closing
<1>3. CASE HostSynced
  BY <1>3 DEF HostSynced, Take, client, radio, Types, ClientType, ProcInv, FrameInv, StmAccepts,
    Native, InCourse, Speaking, Over, Closing
<1>4. CASE HostNotSynced
  BY <1>4 DEF HostNotSynced, client, radio, Types, ClientType, ProcInv, FrameInv, StmAccepts,
    Native, InCourse, Speaking, Over, Closing
<1>5. CASE Stop
  BY <1>5 DEF Stop, Off, client, Types, ClientType, ProcInv, FrameInv, StmAccepts, Native,
    InCourse, Speaking, Over, Closing
<1>6. CASE StopFails
  BY <1>6 DEF StopFails, RequireRestart, Off, client, Types, ClientType, ProcInv, FrameInv,
    StmAccepts, Native, InCourse, Speaking, Over, Closing
<1>7. CASE Report
  BY <1>7 DEF Report, Unset, Off, NoRequest, client, Types, ClientType, ProcInv, FrameInv,
    StmAccepts, Native, InCourse, Speaking, Over, Closing
<1>8. CASE Scan
  BY <1>8 DEF Scan, client, Types, ClientType, ProcInv, FrameInv, StmAccepts, Native, InCourse,
    Speaking, Over, Closing
<1>9. CASE Scanned
  BY <1>9 DEF Scanned, Take, Ends, client, radio, Types, ClientType, ProcInv, FrameInv,
    StmAccepts, Native, InCourse, Speaking, Over, Closing
<1>10. CASE ScanFails
  BY <1>10 DEF ScanFails, client, radio, Types, ClientType, ProcInv, FrameInv, StmAccepts, Native,
    InCourse, Speaking, Over, Closing
<1>11. CASE ScanAbort
  BY <1>11 DEF ScanAbort, Ends, client, Types, ClientType, ProcInv, FrameInv, StmAccepts, Native,
    InCourse, Speaking, Over, Closing
<1>12. CASE Connect
  BY <1>12 DEF Connect, client, Types, ClientType, ProcInv, FrameInv, StmAccepts, Native,
    InCourse, Speaking, Over, Closing
<1>13. CASE Connected
  BY <1>13 DEF Connected, Take, client, radio, Types, ClientType, ProcInv, FrameInv, StmAccepts,
    Native, InCourse, Speaking, Over, Closing
<1>14. CASE ConnectFails
  BY <1>14 DEF ConnectFails, client, radio, Types, ClientType, ProcInv, FrameInv, StmAccepts,
    Native, InCourse, Speaking, Over, Closing
<1>15. CASE ConnectAbort
  BY <1>15 DEF ConnectAbort, client, Types, ClientType, ProcInv, FrameInv, StmAccepts, Native,
    InCourse, Speaking, Over, Closing
<1>16. CASE Abandoned
  BY <1>16 DEF Abandoned, Leaves, client, radio, Types, ClientType, ProcInv, FrameInv, StmAccepts,
    Native, InCourse, Speaking, Over, Closing
<1>17. CASE Secured
  BY <1>17 DEF Secured, client, radio, Types, ClientType, ProcInv, FrameInv, StmAccepts, Native,
    InCourse, Speaking, Over, Closing
<1>18. CASE NotSecured
  BY <1>18 DEF NotSecured, Leaves, client, radio, Types, ClientType, ProcInv, FrameInv,
    StmAccepts, Native, InCourse, Speaking, Over, Closing
<1>19. CASE Issue
  BY <1>19 DEF Issue, client, Types, ClientType, ProcInv, FrameInv, StmAccepts, Native, InCourse,
    Speaking, Over, Closing
<1>20. CASE Failed
  BY <1>20, FailCodes DEF Failed, Leaves, Drained, client, radio, Types, ClientType, ProcInv,
    FrameInv, StmAccepts, Native, InCourse, Speaking, Over, Closing
<1>21. CASE Discovered
  <2>1. /\ Stage \in Procedures \ {"reread"} /\ pc \in InCourse /\ Advance
        /\ UNCHANGED <<request, result>>
    BY <1>21 DEF Discovered, Completed, InCourse
  <2>2. Stage' # "output" /\ Native' = Native
    BY <2>1, AdvancedStage, PlanKept DEF Procedures
  <2> QED
    BY <2>1, <2>2, StmKept DEF FrameInv
<1>22. CASE Written
  <2>1. /\ pc = "await" /\ Stage \in Writes /\ UNCHANGED request /\ result.code # "ok"
    BY <1>22 DEF Written, Completed, ProcInv, Over, Closing
  <2>2. CASE request.profile = "write"
    <3>1. /\ result'.code = "ok" /\ result'.verified = result.verified /\ result'.load = result.load
          /\ pc' = "drop"
      BY <1>22, <2>2 DEF Written, Types, ClientType
    <3>2. ~Native /\ ~result.verified /\ result.load = None
      BY <2>1, <2>2, NotVerified DEF Native, FrameInv
    <3> QED
      BY <2>1, <2>2, <3>1, <3>2 DEF FrameInv, StmAccepts, Native, Speaking
  <2>3. CASE request.profile # "write"
    <3>1. Advance /\ result' = [result EXCEPT !.changed = result.changed \/ Stage = "write"]
      BY <1>22, <2>3 DEF Written
    <3>2. /\ result'.code = result.code /\ result'.verified = result.verified
          /\ result'.load = result.load
      BY <3>1 DEF Types, ClientType
    <3>3. StageInv' /\ Stage' # "output" /\ request \in Requests
      BY <2>1, <2>3, <3>1, AdvancedStage DEF Writes, InCourse, Types, ClientType
    <3>4. Types'
      BY TypesKept
    <3> QED
      BY <2>1, <3>2, <3>3, <3>4, NotVerified, SpeakingLater, PlanKept, FailedFrame DEF FrameInv,
        LastLook
  <2> QED
    BY <2>2, <2>3
<1>23. CASE Reread
  <2>1. /\ pc' = "drop" /\ UNCHANGED request /\ result'.code = "ok" /\ result'.verified
        /\ result'.load = result.load
    BY <1>23 DEF Reread, Types, ClientType
  <2>2. request.profile = "reread"
    BY <1>23, PlanFacts DEF Reread, Completed, Types, ClientType, StageInv, Stage, InCourse
  <2> QED
    BY <2>1, <2>2 DEF FrameInv, StmAccepts, Native, Speaking
<1>24. CASE Open
  <2>1. Stage \in {"open"} /\ pc \in InCourse /\ Advance /\ UNCHANGED <<request, result>>
    BY <1>24 DEF Open, InCourse
  <2>2. Stage' # "output" /\ Native' = Native
    BY <2>1, AdvancedStage, PlanKept DEF Procedures
  <2> QED
    BY <2>1, <2>2, StmKept DEF FrameInv
<1>25. CASE Ask
  BY <1>25, StageStays, StmKept DEF Ask, FrameInv, Speaking
<1>26. CASE KeepAlive
  <2>1. CASE UNCHANGED <<pc, step>>
    BY <1>26, <2>1, StageStays, StmKept DEF KeepAlive, FrameInv
  <2>2. CASE pc = "ask" /\ Stage = "keepalive" /\ Advance
    <3>1. Stage' # "output"
      BY <1>26, <2>2, AdvancedStage DEF KeepAlive, InCourse
    <3> QED
      BY <1>26, <3>1, StmKept DEF KeepAlive, FrameInv
  <2> QED
    BY <1>26, <2>1, <2>2 DEF KeepAlive
<1>27. CASE AlreadySet
  <2>1. Stage \in {"set"} /\ pc \in InCourse /\ Advance /\ UNCHANGED <<request, result>>
    BY <1>27 DEF AlreadySet, InCourse
  <2>2. Stage' # "output" /\ Native' = Native
    BY <2>1, AdvancedStage, PlanKept DEF Procedures
  <2> QED
    BY <2>1, <2>2, StmKept DEF FrameInv
<1>28. CASE Set
  <2>1. /\ pc' = "settle" /\ UNCHANGED <<step, request>> /\ Stage = "set" /\ result.code # "ok"
        /\ result'.code = result.code /\ result'.verified = result.verified
        /\ result'.load = result.load
    BY <1>28 DEF Set, Types, ClientType, ProcInv, Over, Closing
  <2>2. Stage' = Stage /\ Native' = Native /\ Native /\ ~result.verified
    BY <1>28, <2>1, StageStays, PlanKept, SpeakingNative, NotVerified DEF Set, Speaking
  <2> QED
    BY <2>1, <2>2, FailedFrame DEF LastLook
<1>29. CASE Settle
  <2>1. pc = "settle" /\ UNCHANGED request /\ result.code # "ok" /\ Native
    BY <1>29, SpeakingNative DEF Settle, ProcInv, Over, Closing, Speaking
  <2>2. CASE Stage = "set" /\ Advance /\ UNCHANGED result
    <3>1. Stage' # "output"
      BY <2>1, <2>2, AdvancedStage DEF InCourse
    <3> QED
      BY <2>1, <2>2, <3>1, StmKept DEF FrameInv
  <2>3. CASE Stage = "output" /\ pc' = "ask" /\ UNCHANGED <<step, result>>
    BY <2>1, <2>3, StageStays, StmKept DEF FrameInv, Speaking
  <2>4. CASE pc' = "drop" /\ result' = [result EXCEPT !.code = "verify_failed"]
    <3>1. result'.code # "ok" /\ ~result'.verified /\ Native'
      BY <2>1, <2>4, NotVerified, PlanKept DEF Types, ClientType
    <3> QED
      BY <2>4, <3>1, FailedFrame DEF LastLook, Speaking
  <2> QED
    BY <1>29, <2>2, <2>3, <2>4 DEF Settle, Leaves
<1>30. CASE Hear
  <2> DEFINE value == session.value
             L == Learned(value)
  <2>1. /\ pc = "hear" /\ UNCHANGED request /\ Native /\ Native' /\ result.code # "ok"
        /\ request \in Requests /\ ~result.verified
    BY <1>30, HearSplits, SpeakingNative, PlanKept, NotVerified DEF ProcInv, Over, Closing,
      Speaking, Types, ClientType
  <2>2. /\ DOMAIN L = DOMAIN result /\ L.code = result.code /\ L.verified = result.verified
        /\ L.value = IF Stage = "readback" THEN value ELSE result.value
        /\ Stage = "output" => L.load = IF request.profile = "battery" THEN value ELSE result.load
        /\ Stage = "readback" => L.load = IF request.profile = "mppt" THEN value ELSE result.load
    BY LearnedIs, LearnedLoad DEF Types
  <2>3. DOMAIN L = {"code", "attempts", "initial", "verified", "changed", "value", "load",
                    "restart", "polls", "sum"}
    BY <2>2 DEF Types, ClientType
  <2>4. Stage = "output" => /\ result.value = request.mode
                            /\ request.profile = "mppt" => result.load = request.mode
    BY <2>1 DEF FrameInv, Speaking
  <2>9. \/ pc' = "drop" /\ result' = [L EXCEPT !.code = FailCode(Stage)]
        \/ Acceptable(value) /\ Stage # "output" /\ Advance /\ result' = L
        \/ /\ Stage = "output" /\ Confirms(value, request.mode) /\ pc' = "drop"
           /\ result' = [L EXCEPT !.verified = TRUE, !.code = "ok"]
        \/ /\ Stage = "output" /\ pc' \in {"settle", "drop"} /\ UNCHANGED step
           /\ result' = [L EXCEPT !.polls = L.polls + 1, !.code = "verify_failed"]
    BY <1>30, HearSplits
  <2> HIDE DEF L
  <2>5. CASE pc' = "drop" /\ result' = [L EXCEPT !.code = FailCode(Stage)]
    <3>1. result'.code # "ok" /\ ~result'.verified
      BY <2>1, <2>2, <2>3, <2>5, FailCodes
    <3> QED
      BY <2>1, <2>5, <3>1, FailedFrame DEF LastLook, Speaking
  <2>6. CASE Acceptable(value) /\ Stage # "output" /\ Advance /\ result' = L
    <3>1. Stage' = "output" => Stage = "readback"
      BY <2>1, <2>6, AdvancedStage DEF InCourse, Speaking, StageInv, Procedures, Writes
    <3>2. Stage = "readback" => value = request.mode
      BY <2>6 DEF Acceptable
    <3> QED
      BY <2>1, <2>2, <2>6, <3>1, <3>2 DEF FrameInv, StmAccepts
  <2>7. CASE /\ Stage = "output" /\ Confirms(value, request.mode) /\ pc' = "drop"
             /\ result' = [L EXCEPT !.verified = TRUE, !.code = "ok"]
    <3>1. /\ result'.code = "ok" /\ result'.verified /\ result'.value = request.mode
          /\ result'.load = IF request.profile = "battery" THEN value ELSE result.load
      BY <2>2, <2>3, <2>4, <2>7
    <3>2. request.profile = "battery" => value = ExpectedOutput(request.mode)
      BY <2>1, <2>7, RequestTyped DEF Confirms
    <3> QED
      BY <2>1, <2>4, <2>7, <3>1, <3>2 DEF FrameInv, StmAccepts, Native, Speaking
  <2>8. CASE /\ Stage = "output" /\ pc' \in {"settle", "drop"} /\ UNCHANGED step
             /\ result' = [L EXCEPT !.polls = L.polls + 1, !.code = "verify_failed"]
    <3>1. /\ result'.code # "ok" /\ ~result'.verified /\ result'.value = request.mode
          /\ request.profile = "mppt" => result'.load = request.mode
      BY <2>1, <2>2, <2>3, <2>4, <2>8
    <3> QED
      BY <2>1, <3>1 DEF FrameInv, StmAccepts
  <2> QED
    BY <2>5, <2>6, <2>7, <2>8, <2>9
<1>31. CASE Unheard
  BY <1>31, FailCodes DEF Unheard, Leaves, client, radio, Types, ClientType, ProcInv, FrameInv,
    StmAccepts, Native, InCourse, Speaking, Over, Closing
<1>32. CASE Disconnect
  BY <1>32 DEF Disconnect, Drop, Terminated, client, Types, ClientType, ProcInv, FrameInv,
    StmAccepts, Native, InCourse, Speaking, Over, Closing
<1>33. CASE Retry
  BY <1>33 DEF Retry, Unset, client, radio, Types, ClientType, ProcInv, FrameInv, StmAccepts,
    Native, InCourse, Speaking, Over, Closing
<1>34. CASE Finish
  BY <1>34 DEF Finish, client, radio, Types, ClientType, ProcInv, FrameInv, StmAccepts, Native,
    InCourse, Speaking, Over, Closing
<1>35. CASE UNCHANGED <<pc, step, request, result>>
  BY StageStays, <1>35 DEF Types, ClientType, ProcInv, FrameInv, StmAccepts, Native, InCourse,
    Speaking, Over, Closing
<1> QED
  BY <1>1, <1>2, <1>3, <1>4, <1>5, <1>6, <1>7, <1>8, <1>9, <1>10, <1>11, <1>12, <1>13, <1>14,
    <1>15, <1>16, <1>17, <1>18, <1>19, <1>20, <1>21, <1>22, <1>23, <1>24, <1>25, <1>26, <1>27,
    <1>28, <1>29, <1>30, <1>31, <1>32, <1>33, <1>34, <1>35 DEF Next, Client, Host, Device,
    client, radio, Maintain, Sync, Reset, Sighted, ScanOver, LinkUp, LinkRefused, LinkLost,
    Deliver, Encrypted, Complete, NotifyRx, Serve, Notify, SwitchOutput, Grant, Abort

-----------------------------------------------------------------------------
(* Switch writes.                                                          *)

(* What the client sends in a session: the credits to return, and one more.  *)
LEMMA ReturnedKinds == \A i \in 1 .. Len(Returned) : Returned[i].kind = "credits"
BY DEF Returned

\* With one order go the credits given back, and nothing else.
LEMMA SendsOne ==
  ASSUME Types, NEW m \in Orders, NEW messages, messages = Returned \o <<m>>
  PROVE  /\ messages \in Seq(Orders)
         /\ \A i \in 1 .. Len(messages) : messages[i].kind = "credits" \/ messages[i] = m
<1>1. Returned \in Seq(Orders) /\ <<m>> \in Seq(Orders) /\ Len(<<m>>) = 1 /\ <<m>>[1] = m
  BY ReturnedTyped DEF Types, SessionType
<1>2. \A i \in 1 .. Len(messages) :
         IF i <= Len(Returned) THEN messages[i] = Returned[i] ELSE messages[i] = <<m>>[1]
  BY <1>1
<1> QED
  BY <1>1, <1>2, ReturnedKinds

\* What is under way after sending: what was, and what was sent.
LEMMA SentOrders ==
  ASSUME AirType, NEW messages \in Seq(Orders), air' = [air EXCEPT !.toDevice = @ \o messages]
  PROVE  /\ air'.toClient = air.toClient
         /\ \A i \in 1 .. Len(air'.toDevice) :
              \/ i \in 1 .. Len(air.toDevice) /\ air'.toDevice[i] = air.toDevice[i]
              \/ \E j \in 1 .. Len(messages) : air'.toDevice[i] = messages[j]
<1>1. air'.toClient = air.toClient /\ air'.toDevice = air.toDevice \o messages
  BY DEF AirType
<1>2. air.toDevice \in Seq(Orders)
  BY DEF AirType
<1>3. ASSUME NEW s \in Seq(Orders), NEW i \in 1 .. Len(s \o messages)
      PROVE  \/ i \in 1 .. Len(s) /\ (s \o messages)[i] = s[i]
             \/ \E j \in 1 .. Len(messages) : (s \o messages)[i] = messages[j]
  <2>1. CASE i <= Len(s)
    BY <2>1
  <2>2. CASE i > Len(s)
    <3>1. i - Len(s) \in 1 .. Len(messages) /\ (s \o messages)[i] = messages[i - Len(s)]
      BY <2>2
    <3> QED
      BY <3>1
  <2> QED
    BY <2>1, <2>2
<1> QED
  BY <1>1, <1>2, <1>3

\* Of what the client sends, only the order of Set is a switch write.
LEMMA SendsWhat ==
  ASSUME Types, StageInv, Open \/ Ask \/ Maintain \/ KeepAlive \/ Set
  PROVE  /\ air'.toClient = air.toClient
         /\ \A i \in 1 .. Len(air'.toDevice) :
              \/ i \in 1 .. Len(air.toDevice) /\ air'.toDevice[i] = air.toDevice[i]
              \/ air'.toDevice[i].kind # "set"
              \/ Set /\ air'.toDevice[i] = Message("set", request.mode)
<1>1. CASE Open
  <2> DEFINE m == [kind |-> "credits", n |-> Window]
             messages == Returned \o <<m>>
  <2>1. m \in Orders /\ m.kind # "set"
    BY OrdersTyped, CreditsAssumption
  <2>2. air' = [air EXCEPT !.toDevice = @ \o messages]
    BY <1>1 DEF Open, Transmit
  <2> HIDE DEF m
  <2>3. messages \in Seq(Orders) /\ \A i \in 1 .. Len(messages) : messages[i].kind # "set"
    BY <2>1, SendsOne
  <2> QED
    BY <2>2, <2>3, SentOrders DEF Types
<1>2. CASE Ask
  <2> DEFINE messages == Returned \o <<Question>>
  <2>1. Question \in Orders /\ Question.kind # "set"
    BY <1>2, StageTyped, QuestionTyped DEF Ask, InCourse, Question, Message
  <2>2. air' = [air EXCEPT !.toDevice = @ \o messages]
    BY <1>2 DEF Ask, Transmit
  <2>3. messages \in Seq(Orders) /\ \A i \in 1 .. Len(messages) : messages[i].kind # "set"
    BY <2>1, SendsOne
  <2> QED
    BY <2>2, <2>3, SentOrders DEF Types
<1>3. CASE Maintain
  <2>1. air' = [air EXCEPT !.toDevice = @ \o Returned]
    BY <1>3 DEF Maintain, Transmit
  <2>2. Returned \in Seq(Orders) /\ \A i \in 1 .. Len(Returned) : Returned[i].kind # "set"
    BY ReturnedTyped, ReturnedKinds DEF Types, SessionType
  <2> QED
    BY <2>1, <2>2, SentOrders DEF Types
<1>4. CASE KeepAlive
  <2> DEFINE m == Message("keepalive", None)
             messages == Returned \o <<m>>
  <2>1. m \in Orders /\ m.kind # "set"
    BY OrdersTyped DEF Message
  <2>2. air' = [air EXCEPT !.toDevice = @ \o messages]
    BY <1>4 DEF KeepAlive, Transmit
  <2>3. messages \in Seq(Orders) /\ \A i \in 1 .. Len(messages) : messages[i].kind # "set"
    BY <2>1, SendsOne
  <2> QED
    BY <2>2, <2>3, SentOrders DEF Types
<1>5. CASE Set
  <2> DEFINE m == Message("set", request.mode)
             messages == Returned \o <<m>>
  <2>1. m \in Orders
    BY <1>5, OrdersTyped, RequestTyped DEF Set, Types, ClientType
  <2>2. air' = [air EXCEPT !.toDevice = @ \o messages]
    BY <1>5 DEF Set, Transmit
  <2>3. /\ messages \in Seq(Orders)
        /\ \A i \in 1 .. Len(messages) : messages[i].kind # "set" \/ messages[i] = m
    BY <2>1, SendsOne
  <2> QED
    BY <1>5, <2>2, <2>3, SentOrders DEF Types
<1> QED
  BY <1>1, <1>2, <1>3, <1>4, <1>5

\* What a disconnection leaves under way is a switch write that was.
LEMMA RemainsWhat == AirType => /\ Switching(Remains.toDevice) => Switching(air.toDevice)
                                /\ Remains.toClient = <<>>
                                /\ \A i \in 1 .. Len(Remains.toDevice) :
                                     Remains.toDevice[i].what = request.mode
BY DEF Remains, Switching, Message, AirType

\* The indices of what is under way.
LEMMA AirIndices == AirType => /\ DOMAIN air.toDevice = 1 .. Len(air.toDevice)
                               /\ DOMAIN air.toClient = 1 .. Len(air.toClient)
BY DEF AirType

\* AirIndices in the next state.
LEMMA AirIndicesLater == AirType' => /\ DOMAIN air'.toDevice = 1 .. Len(air'.toDevice)
                                     /\ DOMAIN air'.toClient = 1 .. Len(air'.toClient)
BY DEF AirType

\* NoneSwitching in the next state.
LEMMA NoneSwitchingLater == air' = Silence => ~Switching(air'.toDevice)
BY DEF Silence, Switching

\* Taking an order brings no switch write.
LEMMA TailSwitching ==
  \A s \in Seq(Orders) : s # <<>> /\ Switching(Tail(s)) => Switching(s)
<1> SUFFICES ASSUME NEW s \in Seq(Orders), s # <<>>,
                    NEW i \in DOMAIN Tail(s), Tail(s)[i].kind = "set"
             PROVE  Switching(s)
  BY DEF Switching
<1>1. i + 1 \in DOMAIN s /\ s[i + 1] = Tail(s)[i]
  OBVIOUS
<1> QED
  BY <1>1 DEF Switching

\* The device takes the first order.
LEMMA ServeTakes ==
  AirType /\ Serve
    => air'.toDevice = Tail(air.toDevice) /\ air.toDevice # <<>>
<1> SUFFICES ASSUME AirType, Serve PROVE air'.toDevice = Tail(air.toDevice) /\ air.toDevice # <<>>
  OBVIOUS
<1> DEFINE m == Head(air.toDevice)
<1>1. CASE air' = [air EXCEPT !.toDevice = Tail(@)]
  BY <1>1 DEF AirType, Serve
<1>2. CASE Tell("list", m.what, None)
  BY <1>2 DEF Tell, Serve
<1>3. CASE Tell("value", m.what, Value(m.what))
  BY <1>3 DEF Tell, Serve
<1>4. CASE Tell("refused", "mode", None)
  BY <1>4 DEF Tell, Serve
<1> QED
  BY <1>1, <1>2, <1>3, <1>4 DEF Serve

\* A switch write is executed or under way only if it was before, or Set sends it.
LEMMA OnlySetSwitches == Types /\ StageInv /\ Next => (Executing' => Executing \/ Set)
<1> SUFFICES ASSUME Types, StageInv, Next
             PROVE  Executing' => Executing \/ Set
  OBVIOUS
<1>1. CASE Stop
  BY <1>1 DEF Stop, Silence, Executing, Switching, Types, AirType, TruthType
<1>2. CASE Report
  <2>1. ~truth'.executed
    BY <1>2 DEF Report
  <2>2. CASE air' = Silence
    BY <2>1, <2>2, NoneSwitchingLater DEF Executing
  <2>3. CASE UNCHANGED air
    BY <2>1, <2>3 DEF Executing
  <2> QED
    BY <1>2, <2>2, <2>3, ReportCleans
<1>3. CASE Open
  <2>1. truth' = truth /\ ~Set
    BY <1>3 DEF Open, Set
  <2>2. Switching(air'.toDevice) => Switching(air.toDevice)
    BY <1>3, <2>1, SendsWhat, AirIndices, AirIndicesLater, AirTyped DEF Switching
  <2> QED
    BY <2>1, <2>2 DEF Executing
<1>4. CASE Ask
  <2>1. truth' = truth /\ ~Set
    BY <1>4 DEF Ask, Set
  <2>2. Switching(air'.toDevice) => Switching(air.toDevice)
    BY <1>4, <2>1, SendsWhat, AirIndices, AirIndicesLater, AirTyped DEF Switching
  <2> QED
    BY <2>1, <2>2 DEF Executing
<1>5. CASE Maintain
  <2>1. truth' = truth /\ ~Set
    BY <1>5 DEF Maintain, Set, client
  <2>2. Switching(air'.toDevice) => Switching(air.toDevice)
    BY <1>5, <2>1, SendsWhat, AirIndices, AirIndicesLater, AirTyped DEF Switching
  <2> QED
    BY <2>1, <2>2 DEF Executing
<1>6. CASE KeepAlive
  <2>1. truth' = truth /\ ~Set
    BY <1>6 DEF KeepAlive, Set
  <2>2. Switching(air'.toDevice) => Switching(air.toDevice)
    BY <1>6, <2>1, SendsWhat, AirIndices, AirIndicesLater, AirTyped DEF Switching
  <2> QED
    BY <2>1, <2>2 DEF Executing
<1>7. CASE Set
  BY <1>7
<1>8. CASE Disconnect
  <2>1. air' = Remains /\ truth' = truth
    BY <1>8 DEF Disconnect
  <2> QED
    BY <2>1, RemainsWhat DEF Executing, Types
<1>9. CASE LinkUp
  BY <1>9 DEF LinkUp, client, Executing, Switching, Types, AirType, TruthType
<1>10. CASE LinkLost
  BY <1>10 DEF LinkLost, Silence, client, Executing, Switching, Types, AirType, TruthType
<1>11. CASE NotifyRx
  BY <1>11 DEF NotifyRx, client, Executing, Switching, Types, AirType, TruthType
<1>12. CASE Serve
  <2>1. air'.toDevice = Tail(air.toDevice) /\ air.toDevice # <<>> /\ air.toDevice \in Seq(Orders)
    BY <1>12, ServeTakes DEF Types, AirType
  <2>2. CASE truth' = truth
    <3>1. Switching(Tail(air.toDevice)) => Switching(air.toDevice)
      BY <2>1, TailSwitching
    <3> QED
      BY <2>1, <2>2, <3>1 DEF Executing
  <2>3. CASE Head(air.toDevice).kind = "set"
    <3>1. 1 \in DOMAIN air.toDevice /\ air.toDevice[1].kind = "set"
      BY <2>1, <2>3
    <3> QED
      BY <3>1 DEF Executing, Switching
  <2> QED
    BY <1>12, <2>2, <2>3 DEF Serve
<1>13. CASE Notify
  BY <1>13 DEF Notify, Tell, client, Executing, Switching, Types, AirType, TruthType
<1>14. CASE SwitchOutput
  BY <1>14 DEF SwitchOutput, client, Executing, Switching, Types, AirType, TruthType
<1>15. CASE Grant
  BY <1>15 DEF Grant, client, Executing, Switching, Types, AirType, TruthType
<1>16. CASE UNCHANGED <<air, truth>>
  BY <1>16 DEF Executing, Switching, Types, AirType, TruthType
<1> QED
  BY <1>1, <1>2, <1>3, <1>4, <1>5, <1>6, <1>7, <1>8, <1>9, <1>10, <1>11, <1>12, <1>13, <1>14,
    <1>15, <1>16 DEF Next, Client, Host, Device, client, radio, Run, StackFails, HostSynced,
    HostNotSynced, StopFails, Scan, Scanned, ScanFails, ScanAbort, Connect, Connected,
    ConnectFails, ConnectAbort, Abandoned, Secured, NotSecured, Issue, Failed, Discovered,
    Written, Reread, AlreadySet, Settle, Hear, Unheard, Retry, Finish, Sync, Reset, Sighted,
    ScanOver, LinkRefused, Deliver, Encrypted, Complete, Abort

\* A run waits for the host only at its start.
LEMMA SyncFromIdle == Types /\ Next => (pc' = "sync" => pc \in {"idle", "sync"})
<1> SUFFICES ASSUME Types, Next
             PROVE  pc' = "sync" => pc \in {"idle", "sync"}
  OBVIOUS
<1>1. CASE Run
  BY <1>1 DEF Run, Unset, Types, ClientType
<1>2. CASE StackFails
  BY <1>2 DEF StackFails, Unset, Types, ClientType
<1>3. CASE HostSynced
  BY <1>3 DEF HostSynced, Take, radio, Types, ClientType
<1>4. CASE HostNotSynced
  BY <1>4 DEF HostNotSynced, radio, Types, ClientType
<1>5. CASE Stop
  BY <1>5 DEF Stop, Types, ClientType
<1>6. CASE StopFails
  BY <1>6 DEF StopFails, RequireRestart, Types, ClientType
<1>7. CASE Report
  BY <1>7 DEF Report, Unset, NoRequest, Types, ClientType
<1>8. CASE Scan
  BY <1>8 DEF Scan, Types, ClientType
<1>9. CASE Scanned
  BY <1>9 DEF Scanned, Take, Ends, radio, Types, ClientType
<1>10. CASE ScanFails
  BY <1>10 DEF ScanFails, radio, Types, ClientType
<1>11. CASE ScanAbort
  BY <1>11 DEF ScanAbort, Ends, Types, ClientType
<1>12. CASE Connect
  BY <1>12 DEF Connect, Types, ClientType
<1>13. CASE Connected
  BY <1>13 DEF Connected, Take, radio, Types, ClientType
<1>14. CASE ConnectFails
  BY <1>14 DEF ConnectFails, radio, Types, ClientType
<1>15. CASE ConnectAbort
  BY <1>15 DEF ConnectAbort, Types, ClientType
<1>16. CASE Abandoned
  BY <1>16 DEF Abandoned, Leaves, radio, Types, ClientType
<1>17. CASE Secured
  BY <1>17 DEF Secured, radio, Types, ClientType
<1>18. CASE NotSecured
  BY <1>18 DEF NotSecured, Leaves, radio, Types, ClientType
<1>19. CASE Issue
  BY <1>19 DEF Issue, Types, ClientType
<1>20. CASE Failed
  BY <1>20 DEF Failed, Leaves, radio, Types, ClientType
<1>21. CASE Discovered
  BY <1>21 DEF Discovered, Completed, Take, radio, Types, ClientType, Advance
<1>22. CASE Written
  BY <1>22 DEF Written, Completed, Take, radio, Types, ClientType, Advance
<1>23. CASE Reread
  BY <1>23 DEF Reread, Completed, Take, radio, Types, ClientType
<1>24. CASE Open
  BY <1>24 DEF Open, Types, ClientType, Advance
<1>25. CASE Ask
  BY <1>25 DEF Ask, Types, ClientType
<1>26. CASE KeepAlive
  BY <1>26 DEF KeepAlive, Types, ClientType, Advance
<1>27. CASE AlreadySet
  BY <1>27 DEF AlreadySet, radio, Types, ClientType, Advance
<1>28. CASE Set
  BY <1>28 DEF Set, Types, ClientType
<1>29. CASE Settle
  BY <1>29 DEF Settle, Leaves, radio, Types, ClientType, Advance
<1>30. CASE Hear
  BY <1>30, HearResult
<1>31. CASE Unheard
  BY <1>31 DEF Unheard, Leaves, radio, Types, ClientType
<1>32. CASE Disconnect
  BY <1>32 DEF Disconnect, Drop, Types, ClientType
<1>33. CASE Retry
  BY <1>33 DEF Retry, Unset, radio, Types, ClientType
<1>34. CASE Finish
  BY <1>34 DEF Finish, radio, Types, ClientType
<1>35. CASE UNCHANGED pc
  BY <1>35 DEF Types, ClientType
<1> QED
  BY <1>1, <1>2, <1>3, <1>4, <1>5, <1>6, <1>7, <1>8, <1>9, <1>10, <1>11, <1>12, <1>13, <1>14,
    <1>15, <1>16, <1>17, <1>18, <1>19, <1>20, <1>21, <1>22, <1>23, <1>24, <1>25, <1>26, <1>27,
    <1>28, <1>29, <1>30, <1>31, <1>32, <1>33, <1>34, <1>35 DEF Next, Client, Host, Device,
    client, radio, Maintain, Sync, Reset, Sighted, ScanOver, LinkUp, LinkRefused, LinkLost,
    Deliver, Encrypted, Complete, NotifyRx, Serve, Notify, SwitchOutput, Grant, Abort

\* All but Set keep the account of a switch write in the result.
LEMMA OthersKeepChange ==
  Types /\ StageInv /\ LinkInv /\ HostInv /\ ChangeInv /\ ~Set /\ Next
    => ChangeInv'
<1> SUFFICES ASSUME Types, StageInv, LinkInv, HostInv, ChangeInv, ~Set, Next
             PROVE  ChangeInv'
  OBVIOUS
<1>a. Executing' => Executing
  BY OnlySetSwitches
<1>b. pc \in {"idle", "sync"} => ~Executing
  <2>1. pc \in {"idle", "sync"} => Quiet
    BY DEF LinkInv, HostInv
  <2> QED
    BY <2>1, NoneSwitching DEF Executing, ChangeInv, Quiet
<1>c. (pc \in {"idle", "sync"})' => ~truth'.executed
  <2>1. CASE pc \in {"idle", "sync"}
    <3>1. ~Executing /\ ~Set
      BY <1>b, <2>1 DEF Set
    <3> QED
      BY <1>a, <3>1 DEF Executing
  <2>2. CASE pc \notin {"idle", "sync"}
    <3>1. (pc \in {"idle", "sync"})' => Report
      BY <2>2, SyncFromIdle, RequestKept
    <3> QED
      BY <3>1 DEF Report
  <2> QED
    BY <2>1, <2>2
<1>1. CASE Run
  BY <1>1, <1>a, <1>b, <1>c DEF Run, Created, Freed, Unset, NoSession, Off, Pending, Types,
    ClientType, ChangeInv, Closing
<1>2. CASE StackFails
  BY <1>2, <1>a, <1>b, <1>c DEF StackFails, Unset, Created, Freed, Types, ClientType, ChangeInv,
    Closing
<1>3. CASE HostSynced
  BY <1>3, <1>a, <1>b, <1>c DEF HostSynced, Take, radio, Types, ClientType, ChangeInv, Closing
<1>4. CASE HostNotSynced
  BY <1>4, <1>a, <1>b, <1>c DEF HostNotSynced, radio, Types, ClientType, ChangeInv, Closing
<1>5. CASE Stop
  BY <1>5, <1>a, <1>b, <1>c DEF Stop, Freed, NoSession, Off, Silence, Types, ClientType,
    ChangeInv, Closing
<1>6. CASE StopFails
  BY <1>6, <1>a, <1>b, <1>c DEF StopFails, RequireRestart, Off, Types, ClientType, ChangeInv,
    Closing
<1>7. CASE Report
  <2>1. pc = "report" /\ pc' = "idle" /\ ~truth'.executed
    BY <1>7, <1>a, <1>b, <1>c DEF Report
  <2>2. ~Switching(air'.toDevice)
    <3>1. CASE air' = Silence
      BY <3>1, NoneSwitchingLater
    <3>2. CASE ~result.restart /\ UNCHANGED air
      <4>1. air = Silence
        BY <2>1, <3>2 DEF LinkInv, Quiet
      <4> QED
        BY <3>2, <4>1, NoneSwitching
    <3> QED
      BY <1>7, <3>1, <3>2, ReportCleans
  <2> QED
    BY <2>1, <2>2 DEF ChangeInv, Executing, Closing
<1>8. CASE Scan
  BY <1>8, <1>a, <1>b, <1>c DEF Scan, Drained, Types, ClientType, ChangeInv, Closing
<1>9. CASE Scanned
  BY <1>9, <1>a, <1>b, <1>c DEF Scanned, Take, Ends, radio, Types, ClientType, ChangeInv, Closing
<1>10. CASE ScanFails
  BY <1>10, <1>a, <1>b, <1>c DEF ScanFails, radio, Types, ClientType, ChangeInv, Closing
<1>11. CASE ScanAbort
  BY <1>11, <1>a, <1>b, <1>c DEF ScanAbort, Ends, Types, ClientType, ChangeInv, Closing
<1>12. CASE Connect
  BY <1>12, <1>a, <1>b, <1>c DEF Connect, Drained, Types, ClientType, ChangeInv, Closing
<1>13. CASE Connected
  BY <1>13, <1>a, <1>b, <1>c DEF Connected, Take, radio, Types, ClientType, ChangeInv, Closing
<1>14. CASE ConnectFails
  BY <1>14, <1>a, <1>b, <1>c DEF ConnectFails, Drained, radio, Types, ClientType, ChangeInv,
    Closing
<1>15. CASE ConnectAbort
  BY <1>15, <1>a, <1>b, <1>c DEF ConnectAbort, Types, ClientType, ChangeInv, Closing
<1>16. CASE Abandoned
  BY <1>16, <1>a, <1>b, <1>c DEF Abandoned, Leaves, Drained, radio, Types, ClientType, ChangeInv,
    Closing
<1>17. CASE Secured
  BY <1>17, <1>a, <1>b, <1>c DEF Secured, radio, Types, ClientType, ChangeInv, Closing
<1>18. CASE NotSecured
  BY <1>18, <1>a, <1>b, <1>c DEF NotSecured, Leaves, radio, Types, ClientType, ChangeInv, Closing
<1>19. CASE Issue
  BY <1>19, <1>a, <1>b, <1>c DEF Issue, Drained, Pending, Types, ClientType, ChangeInv, Closing
<1>20. CASE Failed
  BY <1>20, <1>a, <1>b, <1>c DEF Failed, Leaves, Drained, radio, Types, ClientType, ChangeInv,
    Closing
<1>21. CASE Discovered
  BY <1>21, <1>a, <1>b, <1>c DEF Discovered, Completed, Take, radio, Types, ClientType, ChangeInv,
    Closing, Advance
<1>22. CASE Written
  BY <1>22, <1>a, <1>b, <1>c DEF Written, Completed, Take, radio, Types, ClientType, ChangeInv,
    Closing, Advance
<1>23. CASE Reread
  BY <1>23, <1>a, <1>b, <1>c DEF Reread, Completed, Take, radio, Types, ClientType, ChangeInv,
    Closing
<1>24. CASE Open
  BY <1>24, <1>a, <1>b, <1>c DEF Open, Transmit, Flushed, Types, ClientType, ChangeInv, Closing,
    Advance
<1>25. CASE Ask
  BY <1>25, <1>a, <1>b, <1>c DEF Ask, Transmit, Flushed, Awaiting, Types, ClientType, ChangeInv,
    Closing
<1>26. CASE Maintain
  BY <1>26, <1>a, <1>b, <1>c DEF Maintain, Transmit, Flushed, client, Types, ClientType,
    ChangeInv, Closing
<1>27. CASE KeepAlive
  BY <1>27, <1>a, <1>b, <1>c DEF KeepAlive, Transmit, Flushed, Types, ClientType, ChangeInv,
    Closing, Advance
<1>28. CASE AlreadySet
  BY <1>28, <1>a, <1>b, <1>c DEF AlreadySet, radio, Types, ClientType, ChangeInv, Closing, Advance
<1>29. CASE Set
  BY <1>29
<1>30. CASE Settle
  BY <1>30, <1>a, <1>b, <1>c DEF Settle, Leaves, radio, Types, ClientType, ChangeInv, Closing,
    Advance
<1>31. CASE Hear
  BY <1>31, <1>a, <1>c, HearResult DEF Types, ClientType, ChangeInv, Closing
<1>32. CASE Unheard
  BY <1>32, <1>a, <1>b, <1>c DEF Unheard, Leaves, radio, Types, ClientType, ChangeInv, Closing
<1>33. CASE Disconnect
  BY <1>33, <1>a, <1>b, <1>c DEF Disconnect, Drop, Remains, Terminated, NoSession, Types,
    ClientType, ChangeInv, Closing
<1>34. CASE Retry
  BY <1>34, <1>a, <1>b, <1>c DEF Retry, Sum, Unset, radio, Types, ClientType, ChangeInv, Closing
<1>35. CASE Finish
  BY <1>35, <1>a, <1>b, <1>c DEF Finish, Sum, radio, Types, ClientType, ChangeInv, Closing
<1>36. CASE LinkUp
  BY <1>36, <1>a, <1>b, <1>c DEF LinkUp, client, Types, ClientType, ChangeInv, Closing
<1>37. CASE LinkLost
  BY <1>37, <1>a, <1>b, <1>c DEF LinkLost, Answered, Given, Silence, client, Types, ClientType,
    ChangeInv, Closing
<1>38. CASE NotifyRx
  BY <1>38, <1>a, <1>b, <1>c DEF NotifyRx, Inspected, client, Types, ClientType, ChangeInv,
    Closing
<1>39. CASE Serve
  BY <1>39, <1>a, <1>b, <1>c DEF Serve, Tell, client, Types, ClientType, ChangeInv, Closing
<1>40. CASE Notify
  BY <1>40, <1>a, <1>b, <1>c DEF Notify, Tell, client, Types, ClientType, ChangeInv, Closing
<1>41. CASE SwitchOutput
  BY <1>41, <1>a, <1>b, <1>c DEF SwitchOutput, client, Types, ClientType, ChangeInv, Closing
<1>42. CASE Grant
  BY <1>42, <1>a, <1>b, <1>c DEF Grant, client, Types, ClientType, ChangeInv, Closing
<1>43. CASE UNCHANGED <<pc, result, air, truth>>
  BY <1>43, <1>a, <1>b, <1>c DEF Types, ClientType, ChangeInv, Closing
<1> QED
  BY <1>1, <1>2, <1>3, <1>4, <1>5, <1>6, <1>7, <1>8, <1>9, <1>10, <1>11, <1>12, <1>13, <1>14,
    <1>15, <1>16, <1>17, <1>18, <1>19, <1>20, <1>21, <1>22, <1>23, <1>24, <1>25, <1>26, <1>27,
    <1>28, <1>29, <1>30, <1>31, <1>32, <1>33, <1>34, <1>35, <1>36, <1>37, <1>38, <1>39, <1>40,
    <1>41, <1>42, <1>43 DEF Next, Client, Host, Device, client, radio, Sync, Reset, Sighted,
    ScanOver, LinkRefused, Deliver, Encrypted, Complete, Abort

\* Set puts it there.
LEMMA SetChanges == Types /\ Set => ChangeInv'
BY DEF Set, Types, ClientType, ChangeInv, Closing

\* A switch write, under way or executed, is in the result or in the sum.
LEMMA ChangeKept == Types /\ StageInv /\ LinkInv /\ HostInv /\ ChangeInv /\ Next => ChangeInv'
BY OthersKeepChange, SetChanges

\* The request the device takes next.
Order == Head(air.toDevice)

-----------------------------------------------------------------------------
(* What the device was found to be.                                        *)

\* What the device does with an order, case by case.
LEMMA ServeSplits ==
  ASSUME Serve
  PROVE  /\ air.toDevice # <<>> /\ UNCHANGED <<client, context, session, nimble>>
         /\ \/ /\ Order.kind = "credits" /\ air' = [air EXCEPT !.toDevice = Tail(@)]
               /\ device' = [device EXCEPT !.grant = @ + Order.n] /\ UNCHANGED truth
            \/ /\ Order.kind = "keepalive" /\ air' = [air EXCEPT !.toDevice = Tail(@)]
               /\ device' = [device EXCEPT !.owed = @ + 1] /\ UNCHANGED truth
            \/ /\ Order.kind = "set" /\ air' = [air EXCEPT !.toDevice = Tail(@)]
               /\ device' = [device EXCEPT !.owed = IF Live THEN @ + 1 ELSE 0, !.mode = Order.what]
               /\ truth.met \/ Met(device') => truth'.met
            \/ /\ device.grant > 0 /\ UNCHANGED truth
               /\ device' = [device EXCEPT !.owed = @ + 1, !.grant = @ - 1]
               /\ \/ Order.kind = "list" /\ Tell("list", Order.what, None)
                  \/ Order.kind = "get" /\ Tell("value", Order.what, Value(Order.what))
                  \/ Order.kind = "set" /\ Tell("refused", "mode", None)
<1>1. air.toDevice # <<>> /\ UNCHANGED <<client, context, session, nimble>>
  BY DEF Serve, Order
<1>2. CASE Order.kind = "credits"
  BY <1>1, <1>2 DEF Serve, Order
<1>3. CASE Order.kind = "keepalive"
  BY <1>1, <1>3 DEF Serve, Order
<1>4. CASE Order.kind = "list"
  BY <1>1, <1>4 DEF Serve, Order
<1>5. CASE Order.kind = "get"
  BY <1>1, <1>5 DEF Serve, Order
<1>6. CASE Order.kind = "set"
  <2>1. \/ /\ air' = [air EXCEPT !.toDevice = Tail(@)]
           /\ device' = [device EXCEPT !.owed = IF Live THEN @ + 1 ELSE 0, !.mode = Order.what]
           /\ truth' = [executed |-> TRUE, met |-> truth.met \/ Met(device')]
        \/ /\ device.grant > 0 /\ device' = [device EXCEPT !.owed = @ + 1, !.grant = @ - 1]
           /\ Tell("refused", "mode", None) /\ UNCHANGED truth
    BY <1>6 DEF Serve, Order
  <2>2. truth' = [executed |-> TRUE, met |-> truth.met \/ Met(device')]
           => truth'.met = (truth.met \/ Met(device'))
    OBVIOUS
  <2> QED
    BY <1>1, <1>6, <2>1, <2>2
<1> QED
  BY <1>2, <1>3, <1>4, <1>5, <1>6 DEF Serve, Order

\* Within a run the request stays.
LEMMA RequestStays ==
  Types /\ Next /\ ~Report /\ ~Run /\ ~StackFails => request' = request
BY RequestKept DEF Types, ClientType

(* The mode of the device changes only by a switch write, and neither it nor *)
(* the output without a look at whether they meet the request.              *)
LEMMA DeviceSteps ==
  Types /\ ~Report /\ Next =>
    /\ \/ device'.mode = device.mode
       \/ Serve /\ Order.kind = "set" /\ device'.mode = Order.what
    /\ \/ device'.mode = device.mode /\ device'.output = device.output
       \/ Met(device') => truth'.met
<1> SUFFICES ASSUME Types, ~Report, Next
             PROVE  /\ \/ device'.mode = device.mode
                       \/ Serve /\ Order.kind = "set" /\ device'.mode = Order.what
                    /\ \/ device'.mode = device.mode /\ device'.output = device.output
                       \/ Met(device') => truth'.met
  OBVIOUS
<1>1. CASE Stop
  BY <1>1 DEF Stop, Types, DeviceType
<1>2. CASE Report
  BY <1>2
<1>3. CASE Disconnect
  BY <1>3 DEF Disconnect, Drop, Types, DeviceType
<1>4. CASE LinkUp
  BY <1>4 DEF LinkUp, client, Types, DeviceType
<1>5. CASE LinkLost
  BY <1>5 DEF LinkLost, client, Types, DeviceType
<1>6. CASE Complete
  <2>1. device' \in {device, [device EXCEPT !.owed = TxLimit]}
    BY <1>6 DEF Complete
  <2> QED
    BY <2>1 DEF Types, DeviceType
<1>7. CASE Serve
  <2>1. CASE device' = [device EXCEPT !.grant = @ + Order.n]
    BY <2>1 DEF Types, DeviceType
  <2>2. CASE device' = [device EXCEPT !.owed = @ + 1]
    BY <2>2 DEF Types, DeviceType
  <2>3. CASE device' = [device EXCEPT !.owed = @ + 1, !.grant = @ - 1]
    BY <2>3 DEF Types, DeviceType
  <2>4. CASE /\ Order.kind = "set" /\ (truth.met \/ Met(device') => truth'.met)
             /\ device' = [device EXCEPT !.owed = IF Live THEN @ + 1 ELSE 0, !.mode = Order.what]
    BY <1>7, <2>4 DEF Types, DeviceType
  <2> QED
    BY <1>7, <2>1, <2>2, <2>3, <2>4, ServeSplits, Zenon
<1>8. CASE Notify
  BY <1>8 DEF Notify, client, Types, DeviceType
<1>9. CASE SwitchOutput
  <2>1. /\ truth'.met = (truth.met \/ Met(device')) /\ device'.mode = device.mode
    BY <1>9 DEF SwitchOutput, Types, DeviceType, TruthType
  <2> QED
    BY <2>1
<1>10. CASE Grant
  BY <1>10 DEF Grant, client, Types, DeviceType
<1>11. CASE UNCHANGED <<device, truth>>
  BY <1>11 DEF Types, DeviceType
<1> QED
  BY <1>1, <1>2, <1>3, <1>4, <1>5, <1>6, <1>7, <1>8, <1>9, <1>10, <1>11 DEF Next, Client, Host,
    Device, client, radio, Run, StackFails, HostSynced, HostNotSynced, StopFails, Scan, Scanned,
    ScanFails, ScanAbort, Connect, Connected, ConnectFails, ConnectAbort, Abandoned, Secured,
    NotSecured, Issue, Failed, Discovered, Written, Reread, Open, Ask, Maintain, KeepAlive,
    AlreadySet, Set, Settle, Hear, Unheard, Retry, Finish, Sync, Reset, Sighted, ScanOver,
    LinkRefused, Deliver, Encrypted, NotifyRx, Abort

\* What the device once met it has met.
LEMMA MetStays == Types /\ ~Report /\ ~LinkUp /\ Next => (truth.met => truth'.met)
<1> SUFFICES ASSUME Types, ~Report, ~LinkUp, Next
             PROVE  truth.met => truth'.met
  OBVIOUS
<1>1. CASE Report
  BY <1>1
<1>2. CASE LinkUp
  BY <1>2
<1>3. CASE Serve
  BY <1>3, ServeSplits
<1>4. CASE SwitchOutput
  BY <1>4 DEF SwitchOutput, client, Types, TruthType
<1>5. CASE UNCHANGED truth
  BY <1>5 DEF Types, TruthType
<1> QED
  BY <1>1, <1>2, <1>3, <1>4, <1>5 DEF Next, Client, Host, Device, client, radio, Run, StackFails,
    HostSynced, HostNotSynced, Stop, StopFails, Scan, Scanned, ScanFails, ScanAbort, Connect,
    Connected, ConnectFails, ConnectAbort, Abandoned, Secured, NotSecured, Issue, Failed,
    Discovered, Written, Reread, Open, Ask, Maintain, KeepAlive, AlreadySet, Set, Settle, Hear,
    Unheard, Disconnect, Retry, Finish, Sync, Reset, Sighted, ScanOver, LinkRefused, LinkLost,
    Deliver, Encrypted, Complete, NotifyRx, Notify, Grant, Abort

\* Only LinkUp brings a link.
LEMMA UpByLinkUp ==
  Types /\ ~LinkUp /\ Next
    => /\ nimble'.link \in {"up", "closing"} => nimble.link \in {"up", "closing"}
       /\ nimble'.link = "up" => nimble.link = "up"
<1> SUFFICES ASSUME Types, ~LinkUp, Next
             PROVE  /\ nimble'.link \in {"up", "closing"} => nimble.link \in {"up", "closing"}
                    /\ nimble'.link = "up" => nimble.link = "up"
  OBVIOUS
<1>1. CASE Run
  BY <1>1 DEF Run, Off, Types, NimbleType
<1>2. CASE Stop
  BY <1>2 DEF Stop, Off, Types, NimbleType
<1>3. CASE StopFails
  BY <1>3 DEF StopFails, Off, Types, NimbleType
<1>4. CASE Report
  <2>1. CASE nimble' = Off
    BY <2>1 DEF Off
  <2>2. CASE UNCHANGED nimble
    BY <2>2
  <2> QED
    BY <1>4, <2>1, <2>2, ReportCleans
<1>5. CASE Scan
  BY <1>5 DEF Scan, Types, NimbleType
<1>6. CASE ScanAbort
  BY <1>6 DEF ScanAbort, Ends, Types, NimbleType
<1>7. CASE Connect
  BY <1>7 DEF Connect, Types, NimbleType
<1>8. CASE ConnectAbort
  BY <1>8 DEF ConnectAbort, Types, NimbleType
<1>9. CASE Issue
  BY <1>9 DEF Issue, Types, NimbleType
<1>10. CASE Disconnect
  BY <1>10 DEF Disconnect, Drop, Terminated, Types, NimbleType
<1>11. CASE Reset
  BY <1>11 DEF Reset, client, Types, NimbleType
<1>12. CASE Sighted
  BY <1>12 DEF Sighted, client, Types, NimbleType
<1>13. CASE ScanOver
  BY <1>13 DEF ScanOver, client, Types, NimbleType
<1>14. CASE LinkUp
  BY <1>14
<1>15. CASE LinkRefused
  BY <1>15 DEF LinkRefused, client, Types, NimbleType
<1>16. CASE LinkLost
  BY <1>16 DEF LinkLost, client, Types, NimbleType
<1>17. CASE Deliver
  BY <1>17 DEF Deliver, client, Types, NimbleType
<1>18. CASE Encrypted
  BY <1>18 DEF Encrypted, client, Types, NimbleType
<1>19. CASE Complete
  BY <1>19 DEF Complete, client, Types, NimbleType
<1>20. CASE UNCHANGED nimble
  BY <1>20 DEF Types, NimbleType
<1> QED
  BY <1>1, <1>2, <1>3, <1>4, <1>5, <1>6, <1>7, <1>8, <1>9, <1>10, <1>11, <1>12, <1>13, <1>14,
    <1>15, <1>16, <1>17, <1>18, <1>19, <1>20 DEF Next, Client, Host, Device, client, radio,
    StackFails, HostSynced, HostNotSynced, Scanned, ScanFails, Connected, ConnectFails,
    Abandoned, Secured, NotSecured, Failed, Discovered, Written, Reread, Open, Ask, Maintain,
    KeepAlive, AlreadySet, Set, Settle, Hear, Unheard, Retry, Finish, Sync, NotifyRx, Serve,
    Notify, SwitchOutput, Grant, Abort

\* On a link, a device that meets the request is noted at once.
LEMMA MetFollows ==
  ASSUME Types, MetInv, Next, request' = request, ~Report, ~LinkUp,
         nimble'.link \in {"up", "closing"}, Met(device)'
  PROVE  truth'.met
<1>1. nimble.link \in {"up", "closing"}
  BY UpByLinkUp
<1>2. Met(device')
  BY DEF Met
<1>3. CASE device'.mode = device.mode /\ device'.output = device.output
  <2>1. Met(device)
    BY <1>2, <1>3 DEF Met
  <2> QED
    BY <1>1, <2>1, MetStays DEF MetInv
<1>4. CASE Met(device') => truth'.met
  BY <1>2, <1>4
<1> QED
  BY <1>3, <1>4, DeviceSteps

\* Once turned the device stays so: all writes under way are of the same mode.
LEMMA TurnedStays ==
  ASSUME Types, AirInv, Next, request' = request, ~Report, ~LinkUp, nimble.host, Turned
  PROVE  Turned'
<1>1. device'.mode = request.mode
  <2>1. CASE device'.mode = device.mode
    BY <2>1 DEF Turned
  <2>2. CASE Serve /\ Order.kind = "set" /\ device'.mode = Order.what
    <3>1. 1 \in 1 .. Len(air.toDevice) /\ air.toDevice[1] = Order
      BY <2>2, ServeTakes DEF Order, Types, AirType
    <3> QED
      BY <2>2, <3>1 DEF AirInv
  <2> QED
    BY <2>1, <2>2, DeviceSteps
<1> QED
  BY <1>1, MetStays DEF Turned

-----------------------------------------------------------------------------
(* What the client takes from an answer.                                   *)

\* Without a question or an answer, what is awaited and its value stay.
LEMMA HearStays ==
  Types /\ ~Ask /\ ~NotifyRx /\ Next =>
    (pc' = "hear" => /\ pc = "hear" /\ step' = step /\ request' = request
                     /\ session'.awaited = session.awaited /\ session'.value = session.value)
<1> SUFFICES ASSUME Types, ~Ask, ~NotifyRx, Next
             PROVE  (pc' = "hear" => /\ pc = "hear" /\ step' = step /\ request' = request
                                     /\ session'.awaited = session.awaited
                                     /\ session'.value = session.value)
  OBVIOUS
<1>1. CASE Run
  BY <1>1 DEF Run, Unset, NoSession, Types, ClientType, SessionType
<1>2. CASE StackFails
  BY <1>2 DEF StackFails, Unset, Types, ClientType, SessionType
<1>3. CASE HostSynced
  BY <1>3 DEF HostSynced, Take, radio, Types, ClientType, SessionType
<1>4. CASE HostNotSynced
  BY <1>4 DEF HostNotSynced, radio, Types, ClientType, SessionType
<1>5. CASE Stop
  BY <1>5 DEF Stop, NoSession, Types, ClientType, SessionType
<1>6. CASE StopFails
  BY <1>6 DEF StopFails, RequireRestart, Types, ClientType, SessionType
<1>7. CASE Report
  BY <1>7 DEF Report, Unset, NoSession, NoRequest, Types, ClientType, SessionType
<1>8. CASE Scan
  BY <1>8 DEF Scan, Types, ClientType, SessionType
<1>9. CASE Scanned
  BY <1>9 DEF Scanned, Take, Ends, radio, Types, ClientType, SessionType
<1>10. CASE ScanFails
  BY <1>10 DEF ScanFails, radio, Types, ClientType, SessionType
<1>11. CASE ScanAbort
  BY <1>11 DEF ScanAbort, Ends, Types, ClientType, SessionType
<1>12. CASE Connect
  BY <1>12 DEF Connect, Types, ClientType, SessionType
<1>13. CASE Connected
  BY <1>13 DEF Connected, Take, radio, Types, ClientType, SessionType
<1>14. CASE ConnectFails
  BY <1>14 DEF ConnectFails, radio, Types, ClientType, SessionType
<1>15. CASE ConnectAbort
  BY <1>15 DEF ConnectAbort, Types, ClientType, SessionType
<1>16. CASE Abandoned
  BY <1>16 DEF Abandoned, Leaves, radio, Types, ClientType, SessionType
<1>17. CASE Secured
  BY <1>17 DEF Secured, radio, Types, ClientType, SessionType
<1>18. CASE NotSecured
  BY <1>18 DEF NotSecured, Leaves, radio, Types, ClientType, SessionType
<1>19. CASE Issue
  BY <1>19 DEF Issue, Types, ClientType, SessionType
<1>20. CASE Failed
  BY <1>20 DEF Failed, Leaves, radio, Types, ClientType, SessionType
<1>21. CASE Discovered
  BY <1>21 DEF Discovered, Completed, Take, radio, Types, ClientType, SessionType, Advance
<1>22. CASE Written
  BY <1>22 DEF Written, Completed, Take, radio, Types, ClientType, SessionType, Advance
<1>23. CASE Reread
  BY <1>23 DEF Reread, Completed, Take, radio, Types, ClientType, SessionType
<1>24. CASE Open
  BY <1>24 DEF Open, Flushed, Types, ClientType, SessionType, Advance
<1>25. CASE Ask
  BY <1>25
<1>26. CASE Maintain
  BY <1>26 DEF Maintain, Flushed, client, Types, ClientType, SessionType
<1>27. CASE KeepAlive
  BY <1>27 DEF KeepAlive, Flushed, Types, ClientType, SessionType, Advance
<1>28. CASE AlreadySet
  BY <1>28 DEF AlreadySet, radio, Types, ClientType, SessionType, Advance
<1>29. CASE Set
  BY <1>29 DEF Set, Flushed, Types, ClientType, SessionType
<1>30. CASE Settle
  BY <1>30 DEF Settle, Leaves, radio, Types, ClientType, SessionType, Advance
<1>31. CASE Hear
  BY <1>31, HearResult
<1>32. CASE Unheard
  BY <1>32 DEF Unheard, Leaves, radio, Types, ClientType, SessionType
<1>33. CASE Disconnect
  BY <1>33 DEF Disconnect, Drop, NoSession, Types, ClientType, SessionType
<1>34. CASE Retry
  BY <1>34 DEF Retry, Sum, Unset, radio, Types, ClientType, SessionType
<1>35. CASE Finish
  BY <1>35 DEF Finish, Sum, radio, Types, ClientType, SessionType
<1>36. CASE NotifyRx
  BY <1>36
<1>37. CASE Abort
  BY <1>37 DEF Abort, client, radio, Types, ClientType, SessionType
<1>38. CASE UNCHANGED <<pc, step, request, session>>
  BY <1>38 DEF Types, ClientType, SessionType
<1> QED
  BY <1>1, <1>2, <1>3, <1>4, <1>5, <1>6, <1>7, <1>8, <1>9, <1>10, <1>11, <1>12, <1>13, <1>14,
    <1>15, <1>16, <1>17, <1>18, <1>19, <1>20, <1>21, <1>22, <1>23, <1>24, <1>25, <1>26, <1>27,
    <1>28, <1>29, <1>30, <1>31, <1>32, <1>33, <1>34, <1>35, <1>36, <1>37, <1>38 DEF Next,
    Client, Host, Device, client, radio, Sync, Reset, Sighted, ScanOver, LinkUp, LinkRefused,
    LinkLost, Deliver, Encrypted, Complete, Serve, Notify, SwitchOutput, Grant

\* What one answer does to what is awaited.
LEMMA HeardNext ==
  ASSUME Types, NotifyRx
  PROVE  /\ UNCHANGED client /\ session'.awaited = session.awaited
         /\ Head(air.toClient) \in Answers /\ air.toClient # <<>>
         /\ air' = [air EXCEPT !.toClient = Tail(@)]
         /\ \/ session'.value = session.value
            \/ /\ Head(air.toClient).kind = "value" /\ session.awaited = Head(air.toClient).what
               /\ session'.value = Head(air.toClient).value
<1> DEFINE m == Head(air.toClient)
<1>1. /\ air.toClient # <<>> /\ m \in Answers /\ UNCHANGED client
      /\ air' = [air EXCEPT !.toClient = Tail(@)]
  BY HeadTailTyped DEF NotifyRx, Types, AirType
<1>2. m.kind \in {"credits", "value", "list", "refused"}
  BY <1>1 DEF Answers, Credits
<1>3. session' = [session EXCEPT !.failed = TRUE] \/ session' = Inspected(m)
  BY DEF NotifyRx
<1>4. CASE session' = [session EXCEPT !.failed = TRUE]
  BY <1>1, <1>4 DEF Types, SessionType
<1>5. CASE session' = Inspected(m) /\ m.kind = "value"
  BY <1>1, <1>5 DEF Inspected, Types, SessionType
<1>6. CASE session' = Inspected(m) /\ m.kind # "value"
  BY <1>1, <1>2, <1>6 DEF Inspected, Types, SessionType
<1> QED
  BY <1>3, <1>4, <1>5, <1>6

\* A question is asked with no value held.
LEMMA AskSends ==
  ASSUME Types, Ask
  PROVE  /\ pc' = "hear" /\ UNCHANGED <<step, request>> /\ session'.awaited = Register(Stage)
         /\ Register(Stage) # None => session'.value = None
BY DEF Ask, Flushed, Awaiting, Types, SessionType

\* The last look follows the readback only.
LEMMA AdvanceOutput ==
  ASSUME Types, StageInv, pc \in InCourse, Advance, UNCHANGED request,
         Stage \notin {"output", "reread", "readback"}, Stage = "write" => request.profile # "write"
  PROVE  Stage' # "output"
BY AdvancedStage

\* It begins with a readback heard.
LEMMA LastLookFrom ==
  Types /\ StageInv /\ MetInv /\ Next
    => (LastLook' => LastLook \/ (Hear /\ ReadBack))
<1> SUFFICES ASSUME Types, StageInv, MetInv, Next
             PROVE  LastLook' => LastLook \/ (Hear /\ ReadBack)
  OBVIOUS
<1>1. CASE Run
  BY <1>1 DEF Run, Unset, LastLook, Speaking, Types, ClientType
<1>2. CASE StackFails
  BY <1>2 DEF StackFails, Unset, LastLook, Speaking, Types, ClientType
<1>3. CASE HostSynced
  BY <1>3 DEF HostSynced, Take, radio, LastLook, Speaking, Types, ClientType
<1>4. CASE HostNotSynced
  BY <1>4 DEF HostNotSynced, radio, LastLook, Speaking, Types, ClientType
<1>5. CASE Stop
  BY <1>5 DEF Stop, LastLook, Speaking, Types, ClientType
<1>6. CASE StopFails
  BY <1>6 DEF StopFails, RequireRestart, LastLook, Speaking, Types, ClientType
<1>7. CASE Report
  BY <1>7 DEF Report, Unset, NoRequest, LastLook, Speaking, Types, ClientType
<1>8. CASE Scan
  BY <1>8 DEF Scan, LastLook, Speaking, Types, ClientType
<1>9. CASE Scanned
  BY <1>9 DEF Scanned, Take, Ends, radio, LastLook, Speaking, Types, ClientType
<1>10. CASE ScanFails
  BY <1>10 DEF ScanFails, radio, LastLook, Speaking, Types, ClientType
<1>11. CASE ScanAbort
  BY <1>11 DEF ScanAbort, Ends, LastLook, Speaking, Types, ClientType
<1>12. CASE Connect
  BY <1>12 DEF Connect, LastLook, Speaking, Types, ClientType
<1>13. CASE Connected
  BY <1>13 DEF Connected, Take, radio, LastLook, Speaking, Types, ClientType
<1>14. CASE ConnectFails
  BY <1>14 DEF ConnectFails, radio, LastLook, Speaking, Types, ClientType
<1>15. CASE ConnectAbort
  BY <1>15 DEF ConnectAbort, LastLook, Speaking, Types, ClientType
<1>16. CASE Abandoned
  BY <1>16 DEF Abandoned, Leaves, radio, LastLook, Speaking, Types, ClientType
<1>17. CASE Secured
  BY <1>17 DEF Secured, radio, LastLook, Speaking, Types, ClientType
<1>18. CASE NotSecured
  BY <1>18 DEF NotSecured, Leaves, radio, LastLook, Speaking, Types, ClientType
<1>19. CASE Issue
  BY <1>19 DEF Issue, LastLook, Speaking, Types, ClientType
<1>20. CASE Failed
  BY <1>20 DEF Failed, Leaves, radio, LastLook, Speaking, Types, ClientType
<1>21. CASE Discovered
  <2>1. Stage \in Procedures \ {"reread"} /\ pc \in InCourse /\ Advance /\ UNCHANGED request
    BY <1>21 DEF Discovered, Completed, InCourse
  <2> QED
    BY <2>1, AdvanceOutput DEF LastLook, Procedures
<1>22. CASE Written
  <2>1. CASE request.profile = "write"
    BY <1>22, <2>1 DEF Written, LastLook, Speaking
  <2>2. CASE request.profile # "write"
    <3>1. Stage \in Writes /\ pc \in InCourse /\ Advance /\ UNCHANGED request
      BY <1>22, <2>2 DEF Written, Completed, InCourse
    <3> QED
      BY <2>2, <3>1, AdvanceOutput DEF LastLook, Writes
  <2> QED
    BY <2>1, <2>2
<1>23. CASE Reread
  BY <1>23 DEF Reread, Completed, Take, radio, LastLook, Speaking, Types, ClientType
<1>24. CASE Open
  <2>1. Stage \in {"open"} /\ pc \in InCourse /\ Advance /\ UNCHANGED request
    BY <1>24 DEF Open, InCourse
  <2> QED
    BY <2>1, AdvanceOutput DEF LastLook, Procedures
<1>25. CASE Ask
  BY <1>25, StageStays DEF Ask, LastLook, Speaking
<1>26. CASE KeepAlive
  <2>1. CASE UNCHANGED <<pc, step>>
    BY <1>26, <2>1, StageStays DEF KeepAlive, LastLook
  <2>2. CASE pc = "ask" /\ Stage = "keepalive" /\ Advance
    BY <1>26, <2>2, AdvanceOutput DEF KeepAlive, InCourse, LastLook
  <2> QED
    BY <1>26, <2>1, <2>2 DEF KeepAlive
<1>27. CASE AlreadySet
  <2>1. Stage \in {"set"} /\ pc \in InCourse /\ Advance /\ UNCHANGED request
    BY <1>27 DEF AlreadySet, InCourse
  <2> QED
    BY <2>1, AdvanceOutput DEF LastLook, Procedures
<1>28. CASE Set
  BY <1>28, StageStays DEF Set, LastLook, Speaking
<1>29. CASE Settle
  <2>1. CASE Stage = "set" /\ Advance
    BY <1>29, <2>1, AdvanceOutput DEF Settle, InCourse, LastLook
  <2>2. CASE Stage = "output" /\ pc' = "ask" /\ UNCHANGED step
    BY <1>29, <2>2, StageStays DEF Settle, LastLook, Speaking
  <2>3. CASE pc' = "drop"
    BY <2>3 DEF LastLook, Speaking
  <2> QED
    BY <1>29, <2>1, <2>2, <2>3 DEF Settle, Leaves
<1>30. CASE Hear
  <2>1. pc = "hear" /\ UNCHANGED request /\ Stage \notin Procedures \cup Writes
    BY <1>30, HearSplits DEF StageInv, Speaking
  <2>2. CASE Acceptable(session.value) /\ Stage # "output" /\ Advance
    <3>1. Stage' = "output" => Stage = "readback"
      BY <2>1, <2>2, AdvancedStage DEF InCourse, Procedures, Writes
    <3>2. Stage = "readback" => session.value = request.mode /\ session.awaited = "mode"
      BY <2>1, <2>2 DEF Acceptable, MetInv, Register
    <3> QED
      BY <1>30, <2>1, <3>1, <3>2 DEF ReadBack, LastLook
  <2>3. CASE Stage = "output"
    BY <2>1, <2>3 DEF LastLook, Speaking
  <2>4. CASE pc' = "drop"
    BY <2>4 DEF LastLook, Speaking
  <2> QED
    BY <1>30, <2>2, <2>3, <2>4, HearSplits
<1>31. CASE Unheard
  BY <1>31 DEF Unheard, Leaves, radio, LastLook, Speaking, Types, ClientType
<1>32. CASE Disconnect
  BY <1>32 DEF Disconnect, Drop, LastLook, Speaking, Types, ClientType
<1>33. CASE Retry
  BY <1>33 DEF Retry, Sum, Unset, radio, LastLook, Speaking, Types, ClientType
<1>34. CASE Finish
  BY <1>34 DEF Finish, Sum, radio, LastLook, Speaking, Types, ClientType
<1>35. CASE UNCHANGED <<pc, step, request>>
  BY StageStays, <1>35 DEF LastLook, Speaking, Types, ClientType
<1> QED
  BY <1>1, <1>2, <1>3, <1>4, <1>5, <1>6, <1>7, <1>8, <1>9, <1>10, <1>11, <1>12, <1>13, <1>14,
    <1>15, <1>16, <1>17, <1>18, <1>19, <1>20, <1>21, <1>22, <1>23, <1>24, <1>25, <1>26, <1>27,
    <1>28, <1>29, <1>30, <1>31, <1>32, <1>33, <1>34, <1>35 DEF Next, Client, Host, Device,
    client, radio, Maintain, Sync, Reset, Sighted, ScanOver, LinkUp, LinkRefused, LinkLost,
    Deliver, Encrypted, Complete, NotifyRx, Serve, Notify, SwitchOutput, Grant, Abort

\* A readback is held because a message that matches came.
LEMMA ReadBackFrom ==
  Types /\ Next => (ReadBack' => ReadBack \/ (NotifyRx /\ Matched(Head(air.toClient))))
<1> SUFFICES ASSUME Types, Next, ReadBack'
             PROVE  ReadBack \/ (NotifyRx /\ Matched(Head(air.toClient)))
  OBVIOUS
<1>1. pc' = "hear" /\ session'.awaited = "mode" /\ session'.value = request'.mode
  BY DEF ReadBack
<1>2. CASE Ask
  <2>1. Register(Stage) # None /\ request' = request /\ request.mode \in Modes
    BY <1>1, <1>2, AskSends, RequestTyped DEF None, Ask, Types, ClientType
  <2> QED
    BY <1>1, <1>2, <2>1, AskSends DEF Modes, None
<1>3. CASE NotifyRx
  BY <1>1, <1>3, HeardNext DEF client, ReadBack, Matched
<1>4. CASE ~Ask /\ ~NotifyRx
  BY <1>1, <1>4, HearStays DEF ReadBack
<1> QED
  BY <1>2, <1>3, <1>4

\* A result becomes verified by a value that confirms, or in a request of no mode.
LEMMA VerifiedFrom ==
  Types /\ StageInv /\ ProcInv /\ MetInv /\ Next
    => (Native' /\ result'.verified => (result.verified /\ request' = request) \/ truth.met)
<1> SUFFICES ASSUME Types, StageInv, ProcInv, MetInv, Next
             PROVE  Native' /\ result'.verified
                      => (result.verified /\ request' = request) \/ truth.met
  OBVIOUS
<1>1. CASE Run
  BY <1>1 DEF Run, Unset, Off, Types, ClientType, ProcInv, Over, Closing
<1>2. CASE StackFails
  BY <1>2 DEF StackFails, Unset, Types, ClientType, ProcInv, Over, Closing
<1>3. CASE StopFails
  BY <1>3 DEF StopFails, RequireRestart, Off, Types, ClientType, ProcInv, Over, Closing
<1>4. CASE Report
  BY <1>4 DEF Report, Unset, Off, NoRequest, Types, ClientType, ProcInv, Over, Closing
<1>5. CASE Scanned
  BY <1>5 DEF Scanned, Take, Ends, radio, Types, ClientType, ProcInv, Over, Closing
<1>6. CASE ScanAbort
  BY <1>6 DEF ScanAbort, Ends, Types, ClientType, ProcInv, Over, Closing
<1>7. CASE Abandoned
  BY <1>7 DEF Abandoned, Leaves, radio, Types, ClientType, ProcInv, Over, Closing
<1>8. CASE NotSecured
  BY <1>8 DEF NotSecured, Leaves, radio, Types, ClientType, ProcInv, Over, Closing
<1>9. CASE Failed
  BY <1>9 DEF Failed, Leaves, radio, Types, ClientType, ProcInv, Over, Closing
<1>10. CASE Written
  BY <1>10 DEF Written, Completed, Take, radio, Types, ClientType, ProcInv, Over, Closing
<1>11. CASE Reread
  <2>1. Native' = Native /\ request.profile = "reread"
    BY <1>11, PlanFacts, PlanKept DEF Reread, Completed, Types, ClientType, StageInv, Stage,
      InCourse
  <2> QED
    BY <2>1 DEF Native
<1>12. CASE Set
  BY <1>12 DEF Set, Types, ClientType, ProcInv, Over, Closing
<1>13. CASE Settle
  BY <1>13 DEF Settle, Leaves, radio, Types, ClientType, ProcInv, Over, Closing
<1>14. CASE Hear
  <2> DEFINE L == Learned(session.value)
  <2>1. /\ pc = "hear" /\ UNCHANGED <<request, truth>> /\ Native' = Native /\ Heard
    BY <1>14, HearSplits, PlanKept
  <2>2. DOMAIN L = DOMAIN result /\ L.verified = result.verified
    BY LearnedIs DEF Types
  <2>3. CASE Stage = "output" /\ Confirms(session.value, request.mode)
    <3>1. session.value # None
      BY <2>1, <2>3 DEF Heard, Register, None
    <3> QED
      BY <2>1, <2>3, <3>1 DEF MetInv
  <2>4. CASE \/ result' = [L EXCEPT !.code = FailCode(Stage)]
             \/ result' = L
             \/ result' = [L EXCEPT !.polls = L.polls + 1, !.code = "verify_failed"]
    <3>1. DOMAIN L = {"code", "attempts", "initial", "verified", "changed", "value", "load",
                      "restart", "polls", "sum"}
      BY <2>2 DEF Types, ClientType
    <3> HIDE DEF L
    <3>2. result'.verified = result.verified
      BY <2>2, <2>4, <3>1
    <3> QED
      BY <2>1, <3>2
  <2> QED
    BY <1>14, <2>3, <2>4, HearSplits
<1>15. CASE Unheard
  BY <1>15 DEF Unheard, Leaves, radio, Types, ClientType, ProcInv, Over, Closing
<1>16. CASE Retry
  BY <1>16 DEF Retry, Sum, Unset, radio, Types, ClientType, ProcInv, Over, Closing
<1>17. CASE Finish
  BY <1>17 DEF Finish, Sum, radio, Types, ClientType, ProcInv, Over, Closing
<1>18. CASE UNCHANGED <<request, result>>
  BY <1>18 DEF Types, ClientType, ProcInv, Over, Closing
<1> QED
  BY <1>1, <1>2, <1>3, <1>4, <1>5, <1>6, <1>7, <1>8, <1>9, <1>10, <1>11, <1>12, <1>13, <1>14,
    <1>15, <1>16, <1>17, <1>18 DEF Next, Client, Host, Device, client, radio, HostSynced,
    HostNotSynced, Stop, Scan, ScanFails, Connect, Connected, ConnectFails, ConnectAbort,
    Secured, Issue, Discovered, Open, Ask, Maintain, KeepAlive, AlreadySet, Disconnect, Sync,
    Reset, Sighted, ScanOver, LinkUp, LinkRefused, LinkLost, Deliver, Encrypted, Complete,
    NotifyRx, Serve, Notify, SwitchOutput, Grant, Abort

\* What the client holds as readback, last look and success is so.
LEMMA MetKept ==
  Types /\ StageInv /\ HostInv /\ HostInv' /\ LinkInv /\ LinkInv' /\ ProcInv /\ FrameInv
    /\ MetInv /\ AirInv /\ Next => MetInv'
<1> SUFFICES ASSUME Types, StageInv, HostInv, HostInv', LinkInv, LinkInv', ProcInv, FrameInv,
                    MetInv, AirInv, Next
             PROVE  MetInv'
  OBVIOUS
<1>1. CASE LinkUp
  <2>1. /\ nimble.link = "connecting" /\ UNCHANGED client /\ UNCHANGED device
        /\ truth' = [truth EXCEPT !.met = Met(device)]
    BY <1>1 DEF LinkUp
  <2>2. pc \notin Speaking /\ ~result.verified
    BY <2>1, NotVerified DEF LinkInv
  <2>3. truth'.met = Met(device)
    BY <2>1 DEF Types, TruthType
  <2>4. Met(device)' = Met(device)
    BY <2>1 DEF Met, client
  <2> QED
    BY <2>1, <2>2, <2>3, <2>4 DEF MetInv, client, Speaking, ReadBack, LastLook, SuccessIsVerified
<1>2. CASE Report \/ Run \/ StackFails
  <2>1. pc' \notin {"ask", "hear", "settle"}
    BY <1>2 DEF Report, Run, StackFails
  <2>2. ~result'.verified
    <3>1. result' = Unset \/ (\E r \in BOOLEAN : result' = [Unset EXCEPT !.restart = r])
      BY <1>2 DEF Report, Run, StackFails
    <3> QED
      BY <3>1, UnsetFrame
  <2>3. nimble'.link = "down"
    <3>1. CASE Report
      BY <3>1 DEF Report, HostInv, LinkInv
    <3>2. CASE Run
      BY <3>2 DEF Run, Off
    <3>3. CASE StackFails
      BY <3>3 DEF StackFails, HostInv, LinkInv
    <3> QED
      BY <1>2, <3>1, <3>2, <3>3
  <2> QED
    BY <2>1, <2>2, <2>3 DEF MetInv, ReadBack, LastLook, Speaking, SuccessIsVerified
<1>3. CASE ~LinkUp /\ ~Report /\ ~Run /\ ~StackFails
  <2>0. request' = request /\ Native' = Native /\ (truth.met => truth'.met)
    BY <1>3, RequestStays, PlanKept, MetStays
  <2>1. nimble'.link \in {"up", "closing"} /\ Met(device)' => truth'.met
    BY <1>3, <2>0, MetFollows
  <2>2. ReadBack' \/ LastLook' => Turned'
    <3> SUFFICES ASSUME ReadBack' \/ LastLook' PROVE Turned'
      OBVIOUS
    <3>1. CASE ReadBack \/ LastLook
      <4>1. Turned /\ nimble.host
        BY <3>1 DEF MetInv, ReadBack, LastLook, HostInv, Speaking
      <4> QED
        BY <1>3, <2>0, <4>1, TurnedStays
    <3>2. CASE NotifyRx /\ Matched(Head(air.toClient)) /\ ReadBack'
      <4>1. pc = "hear" /\ nimble.host
        BY <3>2, HeardNext DEF ReadBack, HostInv, client
      <4>2. 1 \in 1 .. Len(air.toClient) /\ air.toClient[1] = Head(air.toClient)
        BY <3>2, HeardNext DEF Types, AirType
      <4>3. Turned
        BY <3>2, <4>1, <4>2 DEF AirInv
      <4> QED
        BY <1>3, <2>0, <4>1, <4>3, TurnedStays
    <3> QED
      BY <3>1, <3>2, ReadBackFrom, LastLookFrom
  <2>3. pc' = "hear" => session'.awaited = Register(Stage)'
    <3>1. CASE Ask
      BY <3>1, AskSends, StageStays
    <3>2. CASE NotifyRx
      BY <3>2, HeardNext, StageStays DEF client, MetInv
    <3>3. CASE ~Ask /\ ~NotifyRx
      BY <3>3, HearStays, StageStays DEF MetInv
    <3> QED
      BY <3>1, <3>2, <3>3
  <2>4. pc' = "hear" /\ Stage' = "output" /\ session'.value # None
          /\ Confirms(session'.value, request'.mode) => truth'.met
    <3> SUFFICES ASSUME pc' = "hear", Stage' = "output", session'.value # None,
                        Confirms(session'.value, request.mode)
                 PROVE  truth.met
      BY <2>0
    <3>1. CASE Ask
      <4>1. Register(Stage) = "output" /\ None # "output"
        BY <3>1, AskSends, StageStays DEF Register, None
      <4> QED
        BY <3>1, <4>1, AskSends
    <3>2. CASE NotifyRx
      <4>1. /\ pc = "hear" /\ Stage = "output" /\ session.awaited = "output"
            /\ nimble.host /\ LastLook
        BY <3>2, HeardNext, StageStays DEF client, MetInv, Register, HostInv, LastLook, Speaking
      <4>2. CASE session'.value = session.value
        BY <4>1, <4>2 DEF MetInv
      <4>3. CASE /\ Head(air.toClient).kind = "value" /\ session.awaited = Head(air.toClient).what
                 /\ session'.value = Head(air.toClient).value
        <5>1. 1 \in 1 .. Len(air.toClient) /\ air.toClient[1] = Head(air.toClient)
          BY <3>2, HeardNext DEF Types, AirType
        <5>2. Confirming(air.toClient[1])
          BY <4>1, <4>3, <5>1 DEF Confirming
        <5> QED
          BY <4>1, <5>1, <5>2 DEF AirInv
      <4> QED
        BY <3>2, <4>2, <4>3, HeardNext
    <3>3. CASE ~Ask /\ ~NotifyRx
      <4>1. pc = "hear" /\ Stage = "output" /\ session.value = session'.value
        BY <3>3, HearStays, StageStays
      <4> QED
        BY <4>1 DEF MetInv
    <3> QED
      BY <3>1, <3>2, <3>3
  <2>5. Native' /\ result'.verified => truth'.met
    BY <2>0, VerifiedFrom DEF MetInv, SuccessIsVerified
  <2> QED
    BY <2>1, <2>2, <2>3, <2>4, <2>5 DEF MetInv, SuccessIsVerified
<1> QED
  BY <1>1, <1>2, <1>3

-----------------------------------------------------------------------------
(* What is under way.                                                      *)

\* Only a run starts the host.
LEMMA HostFrom == Types /\ ~Run /\ Next => (nimble'.host => nimble.host)
<1> SUFFICES ASSUME Types, ~Run, Next
             PROVE  nimble'.host => nimble.host
  OBVIOUS
<1>1. CASE Run
  BY <1>1
<1>2. CASE Stop
  BY <1>2 DEF Stop, Off, Types, NimbleType
<1>3. CASE StopFails
  BY <1>3 DEF StopFails, Off, Types, NimbleType
<1>4. CASE Report
  <2>1. CASE nimble' = Off
    BY <2>1 DEF Off
  <2>2. CASE UNCHANGED nimble
    BY <2>2
  <2> QED
    BY <1>4, <2>1, <2>2, ReportCleans
<1>5. CASE Scan
  BY <1>5 DEF Scan, Types, NimbleType
<1>6. CASE ScanAbort
  BY <1>6 DEF ScanAbort, Ends, Types, NimbleType
<1>7. CASE Connect
  BY <1>7 DEF Connect, Types, NimbleType
<1>8. CASE ConnectAbort
  BY <1>8 DEF ConnectAbort, Types, NimbleType
<1>9. CASE Issue
  BY <1>9 DEF Issue, Types, NimbleType
<1>10. CASE Disconnect
  BY <1>10 DEF Disconnect, Drop, Terminated, Types, NimbleType
<1>11. CASE Reset
  BY <1>11 DEF Reset, client, Types, NimbleType
<1>12. CASE Sighted
  BY <1>12 DEF Sighted, client, Types, NimbleType
<1>13. CASE ScanOver
  BY <1>13 DEF ScanOver, client, Types, NimbleType
<1>14. CASE LinkUp
  BY <1>14 DEF LinkUp, client, Types, NimbleType
<1>15. CASE LinkRefused
  BY <1>15 DEF LinkRefused, client, Types, NimbleType
<1>16. CASE LinkLost
  BY <1>16 DEF LinkLost, client, Types, NimbleType
<1>17. CASE Deliver
  BY <1>17 DEF Deliver, client, Types, NimbleType
<1>18. CASE Encrypted
  BY <1>18 DEF Encrypted, client, Types, NimbleType
<1>19. CASE Complete
  BY <1>19 DEF Complete, client, Types, NimbleType
<1>20. CASE UNCHANGED nimble
  BY <1>20 DEF Types, NimbleType
<1> QED
  BY <1>1, <1>2, <1>3, <1>4, <1>5, <1>6, <1>7, <1>8, <1>9, <1>10, <1>11, <1>12, <1>13, <1>14,
    <1>15, <1>16, <1>17, <1>18, <1>19, <1>20 DEF Next, Client, Host, Device, client, radio,
    StackFails, HostSynced, HostNotSynced, Scanned, ScanFails, Connected, ConnectFails,
    Abandoned, Secured, NotSecured, Failed, Discovered, Written, Reread, Open, Ask, Maintain,
    KeepAlive, AlreadySet, Set, Settle, Hear, Unheard, Retry, Finish, Sync, NotifyRx, Serve,
    Notify, SwitchOutput, Grant, Abort

\* Every switch write under way is of the requested mode.
LEMMA SetsOrdered ==
  Types /\ StageInv /\ ~Report /\ Next /\ (\A i \in 1 .. Len(air.toDevice) :
    air.toDevice[i].kind = "set" =>
air.toDevice[i].what = request.mode) =>
    (\A i \in 1 .. Len(air'.toDevice) :
        air'.toDevice[i].kind = "set" => air'.toDevice[i].what = request.mode)
<1> SUFFICES ASSUME Types, StageInv, ~Report, Next, (\A i \in 1 .. Len(air.toDevice) :
                    air.toDevice[i].kind = "set" => air.toDevice[i].what =
                    request.mode)
             PROVE  (\A i \in 1 .. Len(air'.toDevice) :
                        air'.toDevice[i].kind = "set" => air'.toDevice[i].what = request.mode)
  OBVIOUS
<1>1. CASE Stop
  <2>1. air'.toDevice = <<>>
    BY <1>1 DEF Stop, Silence
  <2> QED
    BY <2>1
<1>2. CASE Report
  BY <1>2
<1>3. CASE Open
  <2>1. \A m : m = Message("set", request.mode) => m.what = request.mode
    BY DEF Message
  <2> QED
    BY <1>3, <2>1, SendsWhat
<1>4. CASE Ask
  <2>1. \A m : m = Message("set", request.mode) => m.what = request.mode
    BY DEF Message
  <2> QED
    BY <1>4, <2>1, SendsWhat
<1>5. CASE Maintain
  <2>1. \A m : m = Message("set", request.mode) => m.what = request.mode
    BY DEF Message
  <2> QED
    BY <1>5, <2>1, SendsWhat
<1>6. CASE KeepAlive
  <2>1. \A m : m = Message("set", request.mode) => m.what = request.mode
    BY DEF Message
  <2> QED
    BY <1>6, <2>1, SendsWhat
<1>7. CASE Set
  <2>1. \A m : m = Message("set", request.mode) => m.what = request.mode
    BY DEF Message
  <2> QED
    BY <1>7, <2>1, SendsWhat
<1>8. CASE Disconnect
  BY <1>8, RemainsWhat DEF Disconnect, Types
<1>9. CASE LinkLost
  <2>1. air'.toDevice = <<>>
    BY <1>9 DEF LinkLost, Silence
  <2> QED
    BY <2>1
<1>10. CASE NotifyRx
  BY <1>10 DEF NotifyRx, client, Types, AirType
<1>11. CASE Serve
  <2>1. /\ air'.toDevice = Tail(air.toDevice) /\ air.toDevice # <<>> /\ air.toDevice \in Seq(Orders)
    BY <1>11, ServeTakes DEF Types, AirType
  <2>2. \A i \in 1 .. Len(Tail(air.toDevice)) : i + 1 \in 1 .. Len(air.toDevice)
                                           /\ Tail(air.toDevice)[i] = air.toDevice[i + 1]
    BY <2>1
  <2> QED
    BY <2>1, <2>2
<1>12. CASE Notify
  BY <1>12 DEF Notify, Tell, client, Types, AirType
<1>13. CASE Grant
  BY <1>13 DEF Grant, client, Types, AirType
<1>14. CASE UNCHANGED air
  BY <1>14 DEF Types, AirType
<1> QED
  BY <1>1, <1>2, <1>3, <1>4, <1>5, <1>6, <1>7, <1>8, <1>9, <1>10, <1>11, <1>12, <1>13, <1>14 DEF
    Next, Client, Host, Device, client, radio, Run, StackFails, HostSynced, HostNotSynced,
    StopFails, Scan, Scanned, ScanFails, ScanAbort, Connect, Connected, ConnectFails,
    ConnectAbort, Abandoned, Secured, NotSecured, Issue, Failed, Discovered, Written, Reread,
    AlreadySet, Settle, Hear, Unheard, Retry, Finish, Sync, Reset, Sighted, ScanOver, LinkUp,
    LinkRefused, Deliver, Encrypted, Complete, SwitchOutput, Abort

\* What the device says is so when it says it.
Told(m) ==
  /\ air'.toClient = Append(air.toClient, m) /\ UNCHANGED <<client, session>>
  /\ device'.mode = device.mode
  /\ m.kind = "value" => device.grant > 0 /\ m.value = Value(m.what)

\* What is on its way to the client: dropped, kept, taken from or added to.
LEMMA ToClientSteps ==
  Types /\ StageInv /\ ~Report /\ Next =>
    (\/ air'.toClient = <<>>
     \/ air'.toClient = air.toClient
     \/ NotifyRx /\ air.toClient # <<>> /\ air'.toClient = Tail(air.toClient)
     \/ \E m : Told(m))
<1> SUFFICES ASSUME Types, StageInv, ~Report, Next
             PROVE  (\/ air'.toClient = <<>>
                     \/ air'.toClient = air.toClient
                     \/ NotifyRx /\ air.toClient # <<>> /\ air'.toClient = Tail(air.toClient)
                     \/ \E m : Told(m))
  OBVIOUS
<1>1. CASE Stop
  BY <1>1 DEF Stop, Silence
<1>2. CASE Report
  BY <1>2
<1>3. CASE Open
  BY <1>3, SendsWhat
<1>4. CASE Ask
  BY <1>4, SendsWhat
<1>5. CASE Maintain
  BY <1>5, SendsWhat
<1>6. CASE KeepAlive
  BY <1>6, SendsWhat
<1>7. CASE Set
  BY <1>7, SendsWhat
<1>8. CASE Disconnect
  BY <1>8, RemainsWhat DEF Disconnect, Types
<1>9. CASE LinkLost
  BY <1>9 DEF LinkLost, Silence
<1>10. CASE NotifyRx
  BY <1>10, HeardNext DEF Types, AirType
<1>11. CASE Serve
  <2>1. CASE air' = [air EXCEPT !.toDevice = Tail(@)]
    BY <2>1 DEF Types, AirType
  <2>2. CASE /\ device.grant > 0 /\ device' = [device EXCEPT !.owed = @ + 1, !.grant = @ - 1]
             /\ \/ Tell("list", Order.what, None)
                \/ Tell("value", Order.what, Value(Order.what))
                \/ Tell("refused", "mode", None)
    <3>1. device'.mode = device.mode
      BY <2>2 DEF Types, DeviceType
    <3>2. UNCHANGED <<client, session>>
      BY <1>11, ServeSplits
    <3>3. ASSUME NEW kind \in {"list", "value", "refused"}, NEW what, NEW value,
                 Tell(kind, what, value), kind = "value" => value = Value(what)
          PROVE  \E m : Told(m)
      <4> DEFINE m == [kind |-> kind, what |-> what, value |-> value, n |-> 1]
      <4>1. /\ air'.toClient = Append(air.toClient, m)
            /\ m.kind = kind /\ m.what = what /\ m.value = value
        BY <3>3 DEF Tell
      <4> HIDE DEF m
      <4> QED
        BY <2>2, <3>1, <3>2, <3>3, <4>1 DEF Told
    <3> QED
      BY <2>2, <3>3
  <2> QED
    BY <1>11, <2>1, <2>2, ServeSplits
<1>12. CASE Notify
  <2>1. PICK what \in {"mode", "output"} : Tell("notify", what, Value(what))
    BY <1>12 DEF Notify
  <2> DEFINE m == [kind |-> "value", what |-> what, value |-> Value(what), n |-> 1]
  <2>2. /\ air'.toClient = Append(air.toClient, m) /\ m.kind = "value" /\ m.value = Value(m.what)
    BY <2>1 DEF Tell
  <2>3. /\ device' = [device EXCEPT !.grant = device.grant - 1] /\ device.grant > 0
        /\ UNCHANGED <<client, session>>
    BY <1>12 DEF Notify
  <2>4. device'.mode = device.mode
    BY <2>3 DEF Types, DeviceType
  <2> QED
    BY <2>2, <2>3, <2>4 DEF Told
<1>13. CASE Grant
  <2> DEFINE m == [kind |-> "credits", n |-> device.owed]
  <2>1. /\ air'.toClient = Append(air.toClient, m) /\ m.kind = "credits"
        /\ UNCHANGED <<client, session>>
    BY <1>13 DEF Grant, Types, AirType
  <2>2. device'.mode = device.mode
    BY <1>13 DEF Grant, Types, DeviceType
  <2> QED
    BY <2>1, <2>2 DEF Told
<1>14. CASE UNCHANGED air
  BY <1>14 DEF Types, AirType
<1> QED
  BY <1>1, <1>2, <1>3, <1>4, <1>5, <1>6, <1>7, <1>8, <1>9, <1>10, <1>11, <1>12, <1>13, <1>14 DEF
    Next, Client, Host, Device, client, radio, Run, StackFails, HostSynced, HostNotSynced,
    StopFails, Scan, Scanned, ScanFails, ScanAbort, Connect, Connected, ConnectFails,
    ConnectAbort, Abandoned, Secured, NotSecured, Issue, Failed, Discovered, Written, Reread,
    AlreadySet, Settle, Hear, Unheard, Retry, Finish, Sync, Reset, Sighted, ScanOver, LinkUp,
    LinkRefused, Deliver, Encrypted, Complete, SwitchOutput, Abort

\* The two halves of AirInv about what is on its way to the client.
LEMMA MatchedKept ==
  ASSUME Types, Types', LinkInv, MetInv, AirInv, Next, ~Report, ~LinkUp, request' = request,
         nimble.host,
         \/ air'.toClient = <<>>
         \/ air'.toClient = air.toClient
         \/ NotifyRx /\ air.toClient # <<>> /\ air'.toClient = Tail(air.toClient)
         \/ \E m : Told(m),
         NEW i \in 1 .. Len(air'.toClient), Matched(air.toClient[i])'
  PROVE  Turned'
<1>1. CASE air'.toClient = air.toClient
  <2>1. Matched(air.toClient[i])
    BY <1>1 DEF Matched
  <2> QED
    BY <1>1, <2>1, TurnedStays DEF AirInv
<1>2. CASE air.toClient # <<>> /\ air'.toClient = Tail(air.toClient)
  <2>1. i + 1 \in 1 .. Len(air.toClient) /\ air'.toClient[i] = air.toClient[i + 1]
    BY <1>2 DEF Types, AirType
  <2>2. Matched(air.toClient[i + 1])
    BY <2>1 DEF Matched
  <2> QED
    BY <2>1, <2>2, TurnedStays DEF AirInv
<1>3. CASE \E m : Told(m)
  <2>1. PICK m : Told(m)
    BY <1>3
  <2>2. \/ i \in 1 .. Len(air.toClient) /\ air'.toClient[i] = air.toClient[i]
        \/ air'.toClient[i] = m
    BY <2>1 DEF Told, Types, AirType
  <2>3. CASE i \in 1 .. Len(air.toClient) /\ air'.toClient[i] = air.toClient[i]
    <3>1. Matched(air.toClient[i])
      BY <2>3 DEF Matched
    <3> QED
      BY <2>3, <3>1, TurnedStays DEF AirInv
  <2>4. CASE air'.toClient[i] = m
    <3>1. m.kind = "value" /\ m.what = "mode" /\ m.value = request.mode
      BY <2>4 DEF Matched
    <3>2. device.grant > 0 /\ device.mode = request.mode
      BY <2>1, <3>1 DEF Told, Value
    <3>3. nimble.link \in {"up", "closing"}
      BY <3>2 DEF LinkInv, Quiet, Types, NimbleType
    <3>4. request.mode = "auto" => truth.met
      BY <3>2, <3>3 DEF MetInv, Met, Confirms
    <3> QED
      BY <3>2, <3>4, TurnedStays DEF Turned
  <2> QED
    BY <2>2, <2>3, <2>4
<1> QED
  BY <1>1, <1>2, <1>3

\* And a confirming output that was not so comes before any matching mode.
LEMMA ConfirmingKept ==
  ASSUME Types, Types', StageInv, LinkInv, MetInv, AirInv, Next, ~Report, ~LinkUp,
         request' = request, nimble.host,
         \/ air'.toClient = <<>>
         \/ air'.toClient = air.toClient
         \/ NotifyRx /\ air.toClient # <<>> /\ air'.toClient = Tail(air.toClient)
         \/ \E m : Told(m),
         NEW i \in 1 .. Len(air'.toClient), Confirming(air.toClient[i])', ~truth'.met
  PROVE  /\ ~ReadBack' /\ ~LastLook'
         /\ \A j \in 1 .. (i - 1) : ~Matched(air.toClient[j])'
<1>1. ~truth.met
  BY MetStays
<1>2. CASE air'.toClient = air.toClient
  <2>1. Confirming(air.toClient[i])
    BY <1>2 DEF Confirming
  <2>2. ~ReadBack /\ ~LastLook /\ \A j \in 1 .. (i - 1) : ~Matched(air.toClient[j])
    BY <1>1, <1>2, <2>1 DEF AirInv
  <2>3. ~NotifyRx \/ air.toClient = <<>>
    <3> SUFFICES ASSUME NotifyRx, air.toClient # <<>> PROVE FALSE
      OBVIOUS
    <3>1. air'.toClient = Tail(air.toClient)
      BY HeardNext DEF Types, AirType
    <3> QED
      BY <1>2, <3>1 DEF Types, AirType
  <2>4. ~NotifyRx
    BY <2>3, HeardNext
  <2>5. \A j \in 1 .. (i - 1) : ~Matched(air.toClient[j])'
    BY <1>2, <2>2 DEF Matched
  <2> QED
    BY <2>2, <2>4, <2>5, ReadBackFrom, LastLookFrom
<1>3. CASE NotifyRx /\ air.toClient # <<>> /\ air'.toClient = Tail(air.toClient)
  <2>1. \A j \in 1 .. i : j + 1 \in 1 .. Len(air.toClient) /\ air'.toClient[j] = air.toClient[j + 1]
    BY <1>3 DEF Types, AirType
  <2>2. i + 1 \in 1 .. Len(air.toClient) /\ Confirming(air.toClient[i + 1])
    BY <2>1 DEF Confirming
  <2>3. ~ReadBack /\ ~LastLook /\ \A j \in 1 .. i : ~Matched(air.toClient[j])
    BY <1>1, <2>2 DEF AirInv
  <2>4. ~Matched(Head(air.toClient))
    <3>1. 1 \in 1 .. i /\ air.toClient[1] = Head(air.toClient)
      BY <1>3 DEF Types, AirType
    <3> QED
      BY <2>3, <3>1
  <2>5. ~Hear
    BY <1>3, HeardNext, HearSplits DEF Types, AirType
  <2>6. \A j \in 1 .. (i - 1) : ~Matched(air.toClient[j])'
    <3> SUFFICES ASSUME NEW j \in 1 .. (i - 1) PROVE ~Matched(air.toClient[j])'
      OBVIOUS
    <3>1. i \in Nat /\ j \in 1 .. i /\ j + 1 \in 1 .. i
      BY DEF Types, AirType
    <3>2. air'.toClient[j] = air.toClient[j + 1]
      BY <2>1, <3>1
    <3> QED
      BY <2>3, <3>1, <3>2 DEF Matched
  <2> QED
    BY <2>3, <2>4, <2>5, <2>6, ReadBackFrom, LastLookFrom
<1>4. CASE \E m : Told(m)
  <2>1. PICK m : Told(m)
    BY <1>4
  <2>2. ReadBack' = ReadBack /\ LastLook' = LastLook
    BY <2>1, StageStays DEF Told, ReadBack, LastLook, client
  <2>3. \A j \in 1 .. (i - 1) : j \in 1 .. Len(air.toClient) /\ air'.toClient[j] = air.toClient[j]
    BY <2>1 DEF Told, Types, AirType
  <2>4. \A j \in 1 .. (i - 1) : Matched(air.toClient[j])' <=> Matched(air.toClient[j])
    BY <2>3 DEF Matched
  <2>5. \/ i \in 1 .. Len(air.toClient) /\ air'.toClient[i] = air.toClient[i]
        \/ air'.toClient[i] = m
    BY <2>1 DEF Told, Types, AirType
  <2>6. CASE i \in 1 .. Len(air.toClient) /\ air'.toClient[i] = air.toClient[i]
    <3>1. Confirming(air.toClient[i])
      BY <2>6 DEF Confirming
    <3> QED
      BY <1>1, <2>2, <2>4, <2>6, <3>1 DEF AirInv
  <2>7. CASE air'.toClient[i] = m
    <3>1. m.kind = "value" /\ m.what = "output" /\ Confirms(m.value, request.mode)
      BY <2>7 DEF Confirming
    <3>2. device.grant > 0 /\ Confirms(device.output, request.mode)
      BY <2>1, <3>1 DEF Told, Value
    <3>3. nimble.link \in {"up", "closing"}
      BY <3>2 DEF LinkInv, Quiet, Types, NimbleType
    <3>4. ~Turned
      BY <1>1, <3>2, <3>3 DEF MetInv, Met, Turned
    <3>5. ~ReadBack /\ ~LastLook /\ \A j \in 1 .. (i - 1) : ~Matched(air.toClient[j])
      BY <2>3, <3>4 DEF MetInv, AirInv
    <3> QED
      BY <2>2, <2>4, <3>5
  <2> QED
    BY <2>5, <2>6, <2>7
<1> QED
  BY <1>2, <1>3, <1>4

\* What the messages under way say of the device, from step to step.
LEMMA AirKept ==
  Types /\ Types' /\ StageInv /\ HostInv /\ HostInv' /\ LinkInv /\ MetInv /\ AirInv /\ Next
    => AirInv'
<1> SUFFICES ASSUME Types, Types', StageInv, HostInv, HostInv', LinkInv, MetInv, AirInv, Next,
                    nimble'.host
             PROVE  AirInv'
  BY DEF AirInv
<1>1. CASE Run \/ LinkUp
  <2>1. air = Silence /\ air' = air
    BY <1>1 DEF Run, LinkUp, LinkInv, Quiet
  <2>2. air'.toDevice = <<>> /\ air'.toClient = <<>>
    BY <2>1 DEF Silence
  <2> QED
    BY <2>2 DEF AirInv
<1>2. ~Report /\ ~StackFails
  <2>1. ~Report
    BY DEF Report, HostInv
  <2>2. ~StackFails
    BY DEF StackFails, HostInv
  <2> QED
    BY <2>1, <2>2
<1>3. CASE ~Run /\ ~LinkUp
  <2>1. nimble.host /\ request' = request
    BY <1>2, <1>3, HostFrom, RequestStays
  <2>2. \A i \in 1 .. Len(air'.toDevice) :
          air'.toDevice[i].kind = "set" => air'.toDevice[i].what = request'.mode
    BY <1>2, <2>1, SetsOrdered DEF AirInv
  <2>3. \/ air'.toClient = <<>>
        \/ air'.toClient = air.toClient
        \/ NotifyRx /\ air.toClient # <<>> /\ air'.toClient = Tail(air.toClient)
        \/ \E m : Told(m)
    BY <1>2, ToClientSteps
  <2>4. \A i \in 1 .. Len(air'.toClient) : Matched(air.toClient[i])' => Turned'
    BY <1>2, <1>3, <2>1, <2>3, MatchedKept
  <2>5. \A i \in 1 .. Len(air'.toClient) : Confirming(air.toClient[i])'
          => \/ truth'.met
             \/ /\ ~ReadBack' /\ ~LastLook'
                /\ \A j \in 1 .. (i - 1) : ~Matched(air.toClient[j])'
    BY <1>2, <1>3, <2>1, <2>3, ConfirmingKept
  <2> QED
    BY <2>2, <2>4, <2>5 DEF AirInv
<1> QED
  BY <1>1, <1>3

-----------------------------------------------------------------------------
(* Completions.                                                            *)

(* What lets the client go on is the completion of its own procedure.       *)
LEMMA Proceeding ==
  Types /\ StageInv /\ ProcInv /\ Next
    => (Proceeds => Current = [ok |-> TRUE, of |-> Owner])
<1> SUFFICES ASSUME Types, StageInv, ProcInv, Next
             PROVE  Proceeds => Current = [ok |-> TRUE, of |-> Owner]
  OBVIOUS
<1>1. CASE Run
  BY <1>1 DEF Run, Unset, Off, Proceeds, Types, ClientType, ProcInv, Over, Closing
<1>2. CASE StackFails
  BY <1>2 DEF StackFails, Unset, Proceeds, Types, ClientType, ProcInv, Over, Closing
<1>3. CASE HostSynced
  BY <1>3 DEF HostSynced, Take, radio, Proceeds, Types, ClientType, ProcInv, Over, Closing
<1>4. CASE HostNotSynced
  BY <1>4 DEF HostNotSynced, radio, Proceeds, Types, ClientType, ProcInv, Over, Closing
<1>5. CASE Stop
  BY <1>5 DEF Stop, Off, Proceeds, Types, ClientType, ProcInv, Over, Closing
<1>6. CASE StopFails
  BY <1>6 DEF StopFails, RequireRestart, Off, Proceeds, Types, ClientType, ProcInv, Over, Closing
<1>7. CASE Report
  BY <1>7 DEF Report, Unset, Off, NoRequest, Proceeds, Types, ClientType, ProcInv, Over, Closing
<1>8. CASE Scan
  BY <1>8 DEF Scan, Proceeds, Types, ClientType, ProcInv, Over, Closing
<1>9. CASE Scanned
  BY <1>9 DEF Scanned, Take, Ends, radio, Proceeds, Types, ClientType, ProcInv, Over, Closing
<1>10. CASE ScanFails
  BY <1>10 DEF ScanFails, radio, Proceeds, Types, ClientType, ProcInv, Over, Closing
<1>11. CASE ScanAbort
  BY <1>11 DEF ScanAbort, Ends, Proceeds, Types, ClientType, ProcInv, Over, Closing
<1>12. CASE Connect
  BY <1>12 DEF Connect, Proceeds, Types, ClientType, ProcInv, Over, Closing
<1>13. CASE Connected
  BY <1>13 DEF Connected, Take, radio, Proceeds, Types, ClientType, ProcInv, Over, Closing
<1>14. CASE ConnectFails
  BY <1>14 DEF ConnectFails, radio, Proceeds, Types, ClientType, ProcInv, Over, Closing
<1>15. CASE ConnectAbort
  BY <1>15 DEF ConnectAbort, Proceeds, Types, ClientType, ProcInv, Over, Closing
<1>16. CASE Abandoned
  BY <1>16 DEF Abandoned, Leaves, radio, Proceeds, Types, ClientType, ProcInv, Over, Closing
<1>17. CASE Secured
  BY <1>17 DEF Secured, radio, Proceeds, Types, ClientType, ProcInv, Over, Closing
<1>18. CASE NotSecured
  BY <1>18 DEF NotSecured, Leaves, radio, Proceeds, Types, ClientType, ProcInv, Over, Closing
<1>19. CASE Issue
  BY <1>19 DEF Issue, Proceeds, Types, ClientType, ProcInv, Over, Closing
<1>20. CASE Failed
  BY <1>20 DEF Failed, Leaves, FailCode, Proceeds, Types, ClientType
<1>21. CASE Discovered
  <2>1. pc = "await" /\ Stage \notin Writes /\ context.gatt.ok
    BY <1>21 DEF Discovered, Completed, Procedures, Writes
  <2> QED
    BY <2>1 DEF ProcInv, Current
<1>22. CASE Written
  <2>1. pc = "await" /\ Stage \in Writes /\ context.write.ok
    BY <1>22 DEF Written, Completed
  <2> QED
    BY <2>1 DEF ProcInv, Current
<1>23. CASE Reread
  <2>1. pc = "await" /\ Stage \notin Writes /\ context.gatt.ok
    BY <1>23 DEF Reread, Completed, Writes
  <2> QED
    BY <2>1 DEF ProcInv, Current
<1>24. CASE Open
  BY <1>24 DEF Open, Proceeds
<1>25. CASE Ask
  BY <1>25 DEF Ask, Proceeds
<1>26. CASE KeepAlive
  BY <1>26 DEF KeepAlive, Proceeds
<1>27. CASE AlreadySet
  BY <1>27 DEF AlreadySet, Proceeds
<1>28. CASE Set
  BY <1>28 DEF Set, Proceeds
<1>29. CASE Settle
  BY <1>29 DEF Settle, Proceeds
<1>30. CASE Hear
  BY <1>30, HearSplits DEF Proceeds
<1>31. CASE Unheard
  BY <1>31 DEF Unheard, Leaves, radio, Proceeds, Types, ClientType, ProcInv, Over, Closing
<1>32. CASE Disconnect
  BY <1>32 DEF Disconnect, Drop, Terminated, Proceeds, Types, ClientType, ProcInv, Over, Closing
<1>33. CASE Retry
  BY <1>33 DEF Retry, Sum, Unset, radio, Proceeds, Types, ClientType, ProcInv, Over, Closing
<1>34. CASE Finish
  BY <1>34 DEF Finish, Sum, radio, Proceeds, Types, ClientType, ProcInv, Over, Closing
<1>35. CASE UNCHANGED <<pc, step, result>>
  BY <1>35 DEF Proceeds, Types, ClientType, ProcInv, Over, Closing
<1> QED
  BY <1>1, <1>2, <1>3, <1>4, <1>5, <1>6, <1>7, <1>8, <1>9, <1>10, <1>11, <1>12, <1>13, <1>14,
    <1>15, <1>16, <1>17, <1>18, <1>19, <1>20, <1>21, <1>22, <1>23, <1>24, <1>25, <1>26, <1>27,
    <1>28, <1>29, <1>30, <1>31, <1>32, <1>33, <1>34, <1>35 DEF Next, Client, Host, Device,
    client, radio, Maintain, Sync, Reset, Sighted, ScanOver, LinkUp, LinkRefused, LinkLost,
    Deliver, Encrypted, Complete, NotifyRx, Serve, Notify, SwitchOutput, Grant, Abort

-----------------------------------------------------------------------------
(* The invariant, and what it says.                                        *)

\* The invariant holds at first.
LEMMA InitInv == Init => Inv
<1> SUFFICES ASSUME Init PROVE Inv
  OBVIOUS
<1>1. Types
  <2>1. PICK d \in Devices : device = [mode |-> d.mode, output |-> d.output,
                                       matches |-> d.matches, grant |-> 0, owed |-> 0]
    BY DEF Init
  <2>2. d.mode \in Modes /\ d.output \in Outputs
    BY DevicesAssumption
  <2>3. DeviceType
    BY <2>1, <2>2 DEF DeviceType
  <2>4. ClientType
    BY DEF Init, ClientType, Places, Unset
  <2>5. ContextType /\ SessionType
    BY DEF Init, ContextType, SessionType, Freed, NoSession
  <2>6. NimbleType /\ AirType /\ TruthType
    BY DEF Init, NimbleType, AirType, TruthType, Off, Silence
  <2> QED
    BY <2>3, <2>4, <2>5, <2>6 DEF Types
<1>2. StageInv /\ HostInv
  BY DEF Init, StageInv, HostInv, Off, InCourse, Speaking
<1>3. LinkInv /\ ProcInv
  BY DEF Init, LinkInv, ProcInv, Quiet, Off, Unset, Silence, Speaking
<1>4. FrameInv /\ ~Native
  BY DEF Init, FrameInv, StmAccepts, Native, NoRequest, None, Unset, Speaking
<1>5. ChangeInv
  BY DEF Init, ChangeInv, Executing, Switching, Silence
<1>6. MetInv /\ AirInv
  BY <1>4 DEF Init, MetInv, AirInv, ReadBack, LastLook, SuccessIsVerified, Off, Speaking
<1> QED
  BY <1>1, <1>2, <1>3, <1>4, <1>5, <1>6 DEF Inv

\* Every step keeps it.
LEMMA NextInv == Inv /\ Next => Inv'
<1> SUFFICES ASSUME Inv, Next PROVE Inv'
  OBVIOUS
<1>1. /\ Types /\ StageInv /\ HostInv /\ LinkInv /\ ProcInv /\ FrameInv /\ ChangeInv
      /\ MetInv /\ AirInv
  BY DEF Inv
<1>2. Types' /\ StageInv' /\ HostInv'
  BY <1>1, TypesKept, StageKept, HostKept
<1>3. LinkInv' /\ ProcInv'
  BY <1>1, LinkKept, ProcKept
<1>4. FrameInv' /\ ChangeInv'
  BY <1>1, FrameKept, ChangeKept
<1>5. MetInv' /\ AirInv'
  BY <1>1, <1>2, <1>3, MetKept, AirKept
<1> QED
  BY <1>2, <1>3, <1>4, <1>5 DEF Inv

\* So does a step that changes nothing.
LEMMA StutterInv == Inv /\ UNCHANGED vars => Inv'
<1> SUFFICES ASSUME Inv, UNCHANGED vars PROVE Inv'
  OBVIOUS
<1>1. UNCHANGED <<client, context, session, nimble, air, device, truth>>
  BY DEF vars, client
<1>2. Plan' = Plan /\ Native' = Native /\ Stage' = Stage
  BY <1>1, PlanKept, StageStays DEF client
<1>3. Types' /\ HostInv' /\ LinkInv'
  BY <1>1 DEF Inv, client, Types, ClientType, ContextType, SessionType, NimbleType, AirType,
    DeviceType, TruthType, HostInv, LinkInv, Quiet
<1>4. StageInv' /\ ProcInv'
  BY <1>1, <1>2 DEF Inv, client, StageInv, ProcInv, Current, Owner
<1>5. FrameInv' /\ ChangeInv'
  BY <1>1, <1>2 DEF Inv, client, FrameInv, StmAccepts, ChangeInv, Executing
<1>6. ReadBack' = ReadBack /\ LastLook' = LastLook /\ Turned' = Turned
  BY <1>1, <1>2 DEF client, ReadBack, LastLook, Turned
<1>7. MetInv'
  BY <1>1, <1>2, <1>6 DEF Inv, client, MetInv, Met, SuccessIsVerified
<1>8. AirInv'
  BY <1>1, <1>6 DEF Inv, client, AirInv, Matched, Confirming
<1> QED
  BY <1>3, <1>4, <1>5, <1>7, <1>8 DEF Inv

(* The invariant of the client: the places it can be in with its host, its  *)
(* link and its procedure, and what the answers under way and those it has  *)
(* taken say of the device and of the request (victron_ble.c).             *)
THEOREM ClientInvariant == Spec => []Inv
<1>1. Inv /\ [Next]_vars => Inv'
  BY NextInv, StutterInv
<1> QED
  BY InitInv, <1>1, PTL DEF Spec

(* A success of a Victron command rests on the device: since this connection *)
(* came up there was a moment at which its mode was the one asked for and    *)
(* its output the one that mode calls for (run_attempt, run_batteryprotect). *)
THEOREM SuccessVerified == Spec => []SuccessIsVerified
<1>1. Inv => SuccessIsVerified
  BY DEF Inv, MetInv
<1> QED
  BY <1>1, ClientInvariant, PTL

(* Every result the manager sends is one the STM32 accepts, and a switch    *)
(* write that the device executed in any attempt is reported as a change.   *)
THEOREM FramesAccepted == Spec => []FrameAccepted
<1>1. Inv => FrameAccepted
  BY DEF Inv, FrameInv, ChangeInv, Executing, Closing, FrameAccepted
<1> QED
  BY <1>1, ClientInvariant, PTL

(* The context and its semaphores are there as long as the host task, whose *)
(* callbacks use them, may run (stop_and_deinit_stack).                    *)
THEOREM ContextOutlives == Spec => []ContextOutlivesHost
<1>1. Inv => ContextOutlivesHost
  BY DEF Inv, HostInv, ContextOutlivesHost
<1> QED
  BY <1>1, ClientInvariant, PTL

(* A completion that lets the client go on is that of the procedure it      *)
(* issued last, in this attempt: never one that a timeout, a reconnection   *)
(* or a reset left over (wait_gatt, write_attribute).                      *)
THEOREM CompletionsOwn == Spec => OwnCompletion
<1>1. Inv /\ [Next]_vars => (Proceeds => Current = [ok |-> TRUE, of |-> Owner])
  <2>1. Inv /\ Next => (Proceeds => Current = [ok |-> TRUE, of |-> Owner])
    BY Proceeding DEF Inv
  <2>2. Inv /\ UNCHANGED vars => ~Proceeds
    BY DEF vars, Inv, ProcInv, Proceeds, Over, Closing
  <2> QED
    BY <2>1, <2>2
<1>2. Inv /\ [Next]_vars
        => [Proceeds => (IF Stage \in Writes THEN context.write ELSE context.gatt)
                            = [ok |-> TRUE, of |-> Owner]]_vars
  BY <1>1 DEF Current
<1> QED
  BY <1>2, ClientInvariant, PTL DEF Spec, OwnCompletion

-----------------------------------------------------------------------------
(* What messages weigh.                                                    *)

\* What one message weighs, for a set of kinds.
Weight(m, kinds) == IF m.kind \in kinds THEN m.n ELSE 0

\* A message's own units: as many as it weighs.
LEMMA OwnUnits ==
  ASSUME NEW i, NEW n \in Nat
  PROVE  IsFiniteSet({i} \X (1 .. n)) /\ Cardinality({i} \X (1 .. n)) = n
<1>1. IsFiniteSet({i}) /\ Cardinality({i}) = 1
  BY FS_Singleton
<1>2. IsFiniteSet(1 .. n) /\ Cardinality(1 .. n) = n
  BY FS_Interval
<1>3. /\ IsFiniteSet({i} \X (1 .. n))
      /\ Cardinality({i} \X (1 .. n)) = Cardinality({i}) * Cardinality(1 .. n)
  BY ONLY <1>1, <1>2, FS_Product
<1> QED
  BY <1>1, <1>2, <1>3

\* The units of a sequence of messages are finitely many.
LEMMA UnitsFinite ==
  ASSUME NEW M, \A m \in M : m.n \in Nat, NEW s \in Seq(M), NEW kinds
  PROVE  IsFiniteSet(Units(s, kinds)) /\ Cardinality(Units(s, kinds)) \in Nat
<1> DEFINE I == {j \in DOMAIN s : s[j].kind \in kinds}
           f == [i \in I |-> {i} \X (1 .. s[i].n)]
           S == {{i} \X (1 .. s[i].n) : i \in I}
<1>1. IsFiniteSet(1 .. Len(s)) /\ DOMAIN s = 1 .. Len(s) /\ Len(s) \in Nat
  BY FS_Interval
<1>2. IsFiniteSet(I)
  BY <1>1, FS_Subset
<1>3. f \in Surjection(I, S)
  BY DEF Surjection
<1>4. IsFiniteSet(S)
  BY <1>2, <1>3, FS_Surjection
<1>5. \A T \in S : IsFiniteSet(T)
  <2> SUFFICES ASSUME NEW i \in I PROVE IsFiniteSet({i} \X (1 .. s[i].n))
    OBVIOUS
  <2>1. s[i].n \in Nat
    BY <1>1
  <2> QED
    BY <2>1, OwnUnits
<1>6. IsFiniteSet(UNION S)
  BY <1>4, <1>5, FS_UNION
<1> QED
  BY <1>6, FS_CardinalityType DEF Units

\* No messages weigh nothing.
LEMMA NoUnits == \A kinds : Cardinality(Units(<<>>, kinds)) = 0
<1>1. \A kinds : Units(<<>>, kinds) = {}
  BY DEF Units
<1> QED
  BY <1>1, FS_EmptySet

\* Members of the units of a sequence.
LEMMA UnitsAre ==
  ASSUME NEW M, NEW s \in Seq(M), NEW kinds, NEW p
  PROVE  p \in Units(s, kinds) <=>
           \E i \in 1 .. Len(s) : s[i].kind \in kinds /\ p \in {i} \X (1 .. s[i].n)
BY DEF Units

\* A message more weighs as much more.
LEMMA UnitsAppend ==
  ASSUME NEW M, \A m \in M : m.n \in Nat, NEW s \in Seq(M), NEW m \in M, NEW kinds
  PROVE  Cardinality(Units(Append(s, m), kinds)) = Cardinality(Units(s, kinds)) + Weight(m, kinds)
<1> DEFINE t == Append(s, m)
           k == Len(s) + 1
           own == {k} \X (1 .. m.n)
<1>1. t \in Seq(M) /\ Len(t) = k /\ t[k] = m /\ \A i \in 1 .. Len(s) : t[i] = s[i]
  BY AppendProperties
<1>2. Len(s) \in Nat /\ m.n \in Nat
  OBVIOUS
<1> HIDE DEF t
<1>3. ASSUME NEW p PROVE p \in Units(t, kinds) <=>
                           p \in Units(s, kinds) \/ (m.kind \in kinds /\ p \in own)
  <2>1. \A i \in 1 .. k : i \in 1 .. Len(s) \/ i = k
    BY <1>2
  <2>2. \A i \in 1 .. Len(s) : i \in 1 .. k
    BY <1>2
  <2>3. k \in 1 .. k
    BY <1>2
  <2>4. p \in Units(t, kinds) <=>
           \E i \in 1 .. k : t[i].kind \in kinds /\ p \in {i} \X (1 .. t[i].n)
    BY <1>1, UnitsAre
  <2>5. p \in Units(s, kinds) <=>
           \E i \in 1 .. Len(s) : s[i].kind \in kinds /\ p \in {i} \X (1 .. s[i].n)
    BY UnitsAre
  <2> HIDE DEF k
  <2> QED
    BY ONLY <1>1, <2>1, <2>2, <2>3, <2>4, <2>5
<1>4. IsFiniteSet(Units(s, kinds)) /\ Cardinality(Units(s, kinds)) \in Nat
  BY UnitsFinite
<1>5. CASE m.kind \in kinds
  <2>1. Units(t, kinds) = Units(s, kinds) \cup own
    BY <1>3, <1>5
  <2>2. Units(s, kinds) \cap own = {}
    <3> SUFFICES ASSUME NEW p, p \in Units(s, kinds), p \in own PROVE FALSE
      OBVIOUS
    <3>1. PICK i \in 1 .. Len(s) : p \in {i} \X (1 .. s[i].n)
      BY UnitsAre
    <3>2. p[1] = i /\ p[1] = k
      BY <3>1
    <3> QED
      BY <1>2, <3>2
  <2>3. IsFiniteSet(own) /\ Cardinality(own) = m.n
    BY <1>2, OwnUnits
  <2> HIDE DEF own
  <2>4. Cardinality(Units(t, kinds)) = Cardinality(Units(s, kinds)) + Cardinality(own) - 0
    BY <1>4, <2>1, <2>2, <2>3, FS_Union, FS_EmptySet
  <2> QED
    BY <1>2, <1>4, <1>5, <2>3, <2>4 DEF Weight, t
<1>6. CASE m.kind \notin kinds
  <2>1. Units(t, kinds) = Units(s, kinds)
    BY <1>3, <1>6
  <2> QED
    BY <1>4, <1>6, <2>1 DEF Weight, t
<1> QED
  BY <1>5, <1>6

\* The first message taken, the rest weighs as much less.
LEMMA UnitsTail ==
  ASSUME NEW M, \A m \in M : m.n \in Nat, NEW s \in Seq(M), s # <<>>, NEW kinds
  PROVE  Cardinality(Units(s, kinds)) = Cardinality(Units(Tail(s), kinds)) + Weight(Head(s), kinds)
<1> DEFINE t == Tail(s)
           m == Head(s)
           own == {1} \X (1 .. m.n)
           rest == {p \in Units(s, kinds) : p[1] # 1}
           f == [p \in Units(t, kinds) |-> <<p[1] + 1, p[2]>>]
<1>1. /\ t \in Seq(M) /\ Len(t) = Len(s) - 1 /\ s[1] = m /\ Len(s) \in Nat /\ Len(s) > 0
      /\ m \in M /\ \A i \in 1 .. Len(t) : t[i] = s[i + 1]
  BY HeadTailProperties
<1>2. m.n \in Nat
  BY <1>1
<1> HIDE DEF t, m
<1>3. /\ IsFiniteSet(Units(s, kinds)) /\ Cardinality(Units(s, kinds)) \in Nat
      /\ IsFiniteSet(Units(t, kinds)) /\ Cardinality(Units(t, kinds)) \in Nat
  BY <1>1, UnitsFinite
<1>4. \A i \in 1 .. Len(t) : i + 1 \in 1 .. Len(s) /\ i + 1 # 1
  BY <1>1
<1>5. \A i \in 1 .. Len(s) : i # 1 => i - 1 \in 1 .. Len(t) /\ t[i - 1] = s[i] /\ (i - 1) + 1 = i
  BY <1>1
<1>6. ASSUME NEW p \in Units(t, kinds) PROVE f[p] \in rest /\ p = <<f[p][1] - 1, f[p][2]>>
  <2>1. PICK i \in 1 .. Len(t) : t[i].kind \in kinds /\ p \in {i} \X (1 .. t[i].n)
    BY <1>1, UnitsAre
  <2>2. f[p] = <<i + 1, p[2]>> /\ p[2] \in 1 .. t[i].n /\ p = <<i, p[2]>>
    BY <2>1
  <2>3. s[i + 1] = t[i] /\ i + 1 \in 1 .. Len(s) /\ i + 1 # 1
    BY <1>1, <1>4
  <2>4. f[p] \in {i + 1} \X (1 .. s[i + 1].n)
    BY <2>2, <2>3
  <2>5. f[p] \in Units(s, kinds)
    BY <2>1, <2>3, <2>4, UnitsAre
  <2>6. f[p][1] = i + 1 /\ f[p][2] = p[2]
    BY <2>2
  <2> QED
    BY <2>2, <2>3, <2>5, <2>6
<1>7. ASSUME NEW q \in rest PROVE \E p \in Units(t, kinds) : f[p] = q
  <2>1. PICK i \in 1 .. Len(s) : s[i].kind \in kinds /\ q \in {i} \X (1 .. s[i].n)
    BY UnitsAre
  <2>2. q = <<i, q[2]>> /\ q[2] \in 1 .. s[i].n /\ i # 1
    BY <2>1
  <2>3. i - 1 \in 1 .. Len(t) /\ t[i - 1] = s[i] /\ (i - 1) + 1 = i
    BY <1>5, <2>2
  <2> DEFINE p == <<i - 1, q[2]>>
  <2>4. p \in {i - 1} \X (1 .. t[i - 1].n)
    BY <2>2, <2>3
  <2>5. p \in Units(t, kinds)
    BY <1>1, <2>1, <2>3, <2>4, UnitsAre
  <2>6. f[p] = q
    BY <2>2, <2>3, <2>5
  <2> QED
    BY <2>5, <2>6
<1>8. f \in Bijection(Units(t, kinds), rest)
  <2>1. f \in [Units(t, kinds) -> rest]
    BY <1>6
  <2>2. \A p, q \in Units(t, kinds) : f[p] = f[q] => p = q
    BY <1>6
  <2> HIDE DEF f, rest
  <2>3. f \in Injection(Units(t, kinds), rest)
    BY <2>1, <2>2 DEF Injection, IsInjective
  <2>4. f \in Surjection(Units(t, kinds), rest)
    BY <1>7, <2>1 DEF Surjection
  <2> QED
    BY <2>3, <2>4 DEF Bijection
<1>9. IsFiniteSet(rest) /\ Cardinality(rest) = Cardinality(Units(t, kinds))
  BY <1>3, <1>8, FS_Bijection DEF ExistsBijection
<1>10. ASSUME NEW p, p \in Units(s, kinds), p[1] = 1 PROVE m.kind \in kinds /\ p \in own
  <2>1. PICK i \in 1 .. Len(s) : s[i].kind \in kinds /\ p \in {i} \X (1 .. s[i].n)
    BY <1>10, UnitsAre
  <2>2. i = 1
    BY <1>10, <2>1
  <2> QED
    BY <1>1, <2>1, <2>2
<1>11. ASSUME NEW p \in own, m.kind \in kinds PROVE p \in Units(s, kinds) /\ p[1] = 1
  <2>1. 1 \in 1 .. Len(s) /\ s[1].kind \in kinds /\ p \in {1} \X (1 .. s[1].n)
    BY <1>1, <1>11
  <2> QED
    BY <2>1, UnitsAre
<1>12. CASE m.kind \in kinds
  <2>1. Units(s, kinds) = rest \cup own /\ rest \cap own = {}
    BY <1>10, <1>11, <1>12
  <2>2. IsFiniteSet(own) /\ Cardinality(own) = m.n
    BY <1>2, OwnUnits
  <2> HIDE DEF rest, own
  <2>3. Cardinality(Units(s, kinds)) = Cardinality(rest) + Cardinality(own) - 0
    BY <1>9, <2>1, <2>2, FS_Union, FS_EmptySet
  <2> QED
    BY <1>2, <1>3, <1>9, <1>12, <2>2, <2>3 DEF Weight, t, m
<1>13. CASE m.kind \notin kinds
  <2>1. Units(s, kinds) = rest
    BY <1>10, <1>13
  <2> HIDE DEF rest
  <2> QED
    BY <1>3, <1>9, <1>13, <2>1 DEF Weight, t, m
<1> QED
  BY <1>12, <1>13

-----------------------------------------------------------------------------
(* The account of a session: nothing is granted before the first CCCD, the  *)
(* device gives the client its limit with it, and the client gives the      *)
(* device its window when it opens the session.                            *)

\* Places along the plan of a Victron session: the first CCCD, and the session's opening.
Granting == 8
Opening == 11
Carriers == {"list", "get", "set", "keepalive", "value", "refused"}

\* Until the first CCCD nothing is granted: the device is quiet.
Early == \/ pc \in {"connecting", "secure"}
         \/ pc \in {"issue", "await"} /\ (Native => step < Granting)
Running == pc \in InCourse /\ Native /\ step >= Granting /\ nimble.link = "up"
EarlyInv == Early => Quiet
LinkedInv == pc \in InCourse /\ step > 1 => nimble.link # "connecting"
CreditInv ==
  Running =>
    /\ step <= Opening => air.toDevice = <<>> /\ Incoming = 0
    /\ step > Opening => Incoming = Window
    /\ step = Granting => Outgoing \in {0, TxLimit}
    /\ step = Granting /\ (pc = "issue" \/ nimble.procs # <<>>) => Outgoing = 0
    /\ step = Granting /\ pc = "await" /\ Current.ok => Outgoing = TxLimit
    /\ step > Granting => Outgoing = TxLimit

\* What messages are made of.
LEMMA MessagesSized ==
  /\ \A m \in Orders \cup Answers : m.n \in Nat
  /\ \A m \in Orders \cup Answers : m.kind # "credits" => m.kind \in Carriers /\ m.n = 1
BY DEF Orders, Answers, Credits, Carriers

\* What is granted and carried by messages under way.
LEMMA CountsTyped ==
  \A s \in Seq(Orders) \cup Seq(Answers) : Granted(s) \in Nat /\ Carried(s) \in Nat
<1>1. \A s \in Seq(Orders) : Granted(s) \in Nat /\ Carried(s) \in Nat
  BY MessagesSized, UnitsFinite DEF Granted, Carried
<1>2. \A s \in Seq(Answers) : Granted(s) \in Nat /\ Carried(s) \in Nat
  BY MessagesSized, UnitsFinite DEF Granted, Carried
<1> QED
  BY <1>1, <1>2

\* Nothing under way, nothing granted or carried.
LEMMA CountsNone == Granted(<<>>) = 0 /\ Carried(<<>>) = 0
BY NoUnits DEF Granted, Carried

\* A message more: its credits, or its one chunk.
LEMMA CountsAppend ==
  ASSUME NEW M \in {Orders, Answers}, NEW s \in Seq(M), NEW m \in M
  PROVE  /\ Granted(Append(s, m)) = Granted(s) + (IF m.kind = "credits" THEN m.n ELSE 0)
         /\ Carried(Append(s, m)) = Carried(s) + (IF m.kind = "credits" THEN 0 ELSE 1)
<1>1. \A x \in M : x.n \in Nat
  BY MessagesSized
<1>2. Cardinality(Units(Append(s, m), {"credits"}))
        = Cardinality(Units(s, {"credits"})) + Weight(m, {"credits"})
  BY <1>1, UnitsAppend
<1>3. Cardinality(Units(Append(s, m), Carriers))
        = Cardinality(Units(s, Carriers)) + Weight(m, Carriers)
  BY <1>1, UnitsAppend
<1>4. m.kind # "credits" => m.kind \in Carriers /\ m.n = 1
  BY MessagesSized
<1> QED
  BY <1>2, <1>3, <1>4 DEF Granted, Carried, Weight, Carriers

\* The first message taken: its credits, or its one chunk, less.
LEMMA CountsTail ==
  ASSUME NEW M \in {Orders, Answers}, NEW s \in Seq(M), s # <<>>
  PROVE  LET m == Head(s) IN
         /\ Granted(s) = Granted(Tail(s)) + (IF m.kind = "credits" THEN m.n ELSE 0)
         /\ Carried(s) = Carried(Tail(s)) + (IF m.kind = "credits" THEN 0 ELSE 1)
<1>1. \A x \in M : x.n \in Nat
  BY MessagesSized
<1>2. Cardinality(Units(s, {"credits"}))
        = Cardinality(Units(Tail(s), {"credits"})) + Weight(Head(s), {"credits"})
  BY <1>1, UnitsTail
<1>3. Cardinality(Units(s, Carriers))
        = Cardinality(Units(Tail(s), Carriers)) + Weight(Head(s), Carriers)
  BY <1>1, UnitsTail
<1>4. Head(s) \in M
  OBVIOUS
<1>5. Head(s).kind # "credits" => Head(s).kind \in Carriers /\ Head(s).n = 1
  BY <1>4, MessagesSized
<1> QED
  BY <1>2, <1>3, <1>5 DEF Granted, Carried, Weight, Carriers

\* The stages of a Victron session up to its opening.
LEMMA CoursePlan ==
  ASSUME request \in Requests, Native, NEW i \in 1 .. Len(Plan)
  PROVE  /\ i < 7 => Plan[i] \in Procedures \ {"info"}
         /\ i = 7 => Plan[i] = "info"
         /\ i \in Granting .. 10 => Plan[i] = "cccd"
         /\ i = Opening => Plan[i] = "open"
         /\ i > Opening => Plan[i] \notin Procedures \cup Writes \cup {"open"}
<1>1. CASE request.profile = "battery"
  <2>1. Len(Plan) = 19
    BY <1>1 DEF Plan, Prepare, Switch
  <2> QED
    BY <1>1, <2>1 DEF Plan, Prepare, Switch, Procedures, Writes, Granting, Opening
<1>2. CASE request.profile = "mppt" /\ request.instance = 0
  <2>1. Len(Plan) = 18
    BY <1>2 DEF Plan, Prepare, Switch
  <2> QED
    BY <1>2, <2>1 DEF Plan, Prepare, Switch, Procedures, Writes, Granting, Opening
<1>3. CASE request.profile = "mppt" /\ request.instance # 0
  <2>1. Len(Plan) = 19
    BY <1>3 DEF Plan, Prepare, Switch
  <2> QED
    BY <1>3, <2>1 DEF Plan, Prepare, Switch, Procedures, Writes, Granting, Opening
<1> QED
  BY <1>1, <1>2, <1>3 DEF Native

\* Where on its plan the client is.
LEMMA Whereabouts ==
  ASSUME Types, StageInv, pc \in InCourse
  PROVE  /\ request \in Requests /\ step \in Nat /\ step >= 1 /\ step <= Len(Plan)
         /\ Len(Plan) \in Nat /\ Stage = Plan[step]
         /\ pc \in Speaking => Native /\ step >= Opening
         /\ pc \in {"hear", "settle"} => step > Opening
         /\ pc \in {"issue", "await"} /\ Native => step < Opening /\ (Stage = "info" <=> step = 7)
         /\ Native => /\ Stage = "open" <=> step = Opening
                      /\ step \in Granting .. 10 <=> Stage = "cccd"
         /\ ~Native => Stage \notin {"cccd", "info"}
<1>1. request \in Requests /\ Len(Plan) \in Nat /\ step \in 1 .. Len(Plan) /\ Stage = Plan[step]
  BY StageTyped, PlanFacts DEF StageInv, Stage
<1>2. pc \in Speaking => Native
  BY SpeakingNative
<1>3. /\ pc \in {"issue", "await"} => Stage \in Procedures \cup Writes
      /\ pc \in Speaking => Stage \notin Procedures \cup Writes
      /\ pc \in {"hear", "settle"} => Stage # "open"
  BY DEF StageInv
<1>4. CASE Native
  <2>1. /\ step < 7 => Stage \in Procedures \ {"info"}
        /\ step = 7 => Stage = "info"
        /\ step \in Granting .. 10 => Stage = "cccd"
        /\ step = Opening => Stage = "open"
        /\ step > Opening => Stage \notin Procedures \cup Writes \cup {"open"}
    BY <1>1, <1>4, CoursePlan
  <2>2. /\ "cccd" \in Writes /\ "info" \in Procedures /\ "open" \notin Procedures \cup Writes
        /\ "cccd" \notin Procedures /\ "info" \notin Writes
    BY DEF Procedures, Writes
  <2> QED
    BY <1>1, <1>2, <1>3, <1>4, <2>1, <2>2 DEF Granting, Opening, Speaking, Procedures, Writes
<1>5. CASE ~Native
  <2>1. Stage \in {"services", "characteristics", "write", "reread"}
    BY <1>1, <1>5, PlanFacts
  <2> QED
    BY <1>1, <1>2, <1>3, <1>5, <2>1 DEF Speaking
<1> QED
  BY <1>4, <1>5

\* A step that leaves the sums as they were.
Balanced == Incoming' = Incoming /\ Outgoing' = Outgoing

\* The counters are numbers.
LEMMA CountersTyped ==
  Types => /\ Granted(air.toDevice) \in Nat /\ Granted(air.toClient) \in Nat
           /\ Carried(air.toDevice) \in Nat /\ Carried(air.toClient) \in Nat
           /\ device.grant \in Nat /\ device.owed \in Nat
           /\ session.tx \in Nat /\ session.received \in Nat
BY CountsTyped DEF Types, AirType, DeviceType, SessionType

\* The sums are.
LEMMA SumsTyped == Types => Incoming \in Nat /\ Outgoing \in Nat
BY CountersTyped DEF Incoming, Outgoing

\* A step that leaves the messages and the counters alone.
LEMMA BalanceStays ==
  /\ UNCHANGED <<air, session.tx, session.received, device.grant, device.owed>>
  => Balanced
BY DEF Balanced, Incoming, Outgoing

\* What was received is given back, or kept for later.
LEMMA ReturnedCounts ==
  ASSUME Types, session'.received = (IF session.received >= ReturnAt THEN 0 ELSE session.received),
         NEW s \in Seq(Orders)
  PROVE  /\ s \o Returned \in Seq(Orders)
         /\ Granted(s \o Returned) + session'.received = Granted(s) + session.received
         /\ Carried(s \o Returned) = Carried(s)
<1>1. session.received \in Nat /\ ReturnAt \in Nat
  BY CountersTyped, CreditsAssumption
<1>2. Granted(s) \in Nat
  BY CountsTyped
<1>3. CASE session.received >= ReturnAt
  <2> DEFINE m == [kind |-> "credits", n |-> session.received]
  <2>1. m \in Orders
    BY <1>1, OrdersTyped
  <2>2. Returned = <<m>> /\ s \o Returned = Append(s, m)
    BY <1>3, <2>1, AppendIsConcat DEF Returned
  <2>3. /\ Granted(Append(s, m)) = Granted(s) + session.received
        /\ Carried(Append(s, m)) = Carried(s) + 0
    BY <2>1, CountsAppend
  <2>4. Carried(s) \in Nat
    BY CountsTyped
  <2>5. session'.received = 0 /\ s \o Returned \in Seq(Orders)
    BY <1>3, <2>1, <2>2, AppendProperties
  <2> QED
    <3>1. Granted(s) + session.received + 0 = Granted(s) + session.received
      BY <1>1, <1>2
    <3>2. Carried(s) + 0 = Carried(s)
      BY <2>4
    <3>3. s \o Returned \in Seq(Orders)
      BY <2>5
    <3>4. Granted(s \o Returned) = Granted(s) + session.received
      BY <2>2, <2>3
    <3>5. Carried(s \o Returned) = Carried(s) 
      BY <2>2, <2>3, <3>2
    <3> QED
    BY <3>1, <3>3, <3>4, <3>5, <2>5
<1>4. CASE ~(session.received >= ReturnAt)
  <2>1. s \o Returned = s
    BY <1>4 DEF Returned
  <2> QED
    BY <1>4, <2>1
<1> QED
  BY <1>3, <1>4

\* An order sent, with what was received given back.
LEMMA SentCounts ==
  ASSUME Types, NEW m \in Orders, air' = [air EXCEPT !.toDevice = @ \o (Returned \o <<m>>)],
         session'.received = (IF session.received >= ReturnAt THEN 0 ELSE session.received)
  PROVE  /\ air'.toClient = air.toClient
         /\ Granted(air'.toDevice) + session'.received
              = Granted(air.toDevice) + session.received + (IF m.kind = "credits" THEN m.n ELSE 0)
         /\ Carried(air'.toDevice)
              = Carried(air.toDevice) + (IF m.kind = "credits" THEN 0 ELSE 1)
<1> DEFINE s == air.toDevice
           t == s \o Returned
<1>1. s \in Seq(Orders) /\ Returned \in Seq(Orders) /\ <<m>> \in Seq(Orders)
  BY ReturnedTyped, OneTyped DEF Types, AirType, SessionType
<1>2. air'.toClient = air.toClient /\ air'.toDevice = s \o (Returned \o <<m>>)
  BY DEF Types, AirType
<1>3. /\ t \in Seq(Orders)
      /\ Granted(t) + session'.received = Granted(s) + session.received
      /\ Carried(t) = Carried(s)
  BY <1>1, ReturnedCounts
<1>4. s \o (Returned \o <<m>>) = t \o <<m>>
  <2>1. \A a, b, c \in Seq(Orders) : (a \o b) \o c = a \o (b \o c)
    BY ConcatAssociative
  <2> QED
    BY <1>1, <2>1, Zenon
<1> HIDE DEF t
<1>5. t \o <<m>> = Append(t, m)
  BY <1>3, AppendIsConcat
<1>6. /\ Granted(Append(t, m)) = Granted(t) + (IF m.kind = "credits" THEN m.n ELSE 0)
      /\ Carried(Append(t, m)) = Carried(t) + (IF m.kind = "credits" THEN 0 ELSE 1)
  BY <1>3, CountsAppend
<1>7. Granted(t) \in Nat /\ Granted(s) \in Nat /\ session.received \in Nat
  BY <1>1, <1>3, CountsTyped, CountersTyped
<1>8. (IF m.kind = "credits" THEN m.n ELSE 0) \in Nat
  BY MessagesSized
<1>9. session'.received \in Nat
  BY <1>7
<1> QED
  <2>1. /\ Granted(air'.toDevice) = Granted(t) + (IF m.kind = "credits" THEN m.n ELSE 0)
        /\ Carried(air'.toDevice) = Carried(t) + (IF m.kind = "credits" THEN 0 ELSE 1)
    BY <1>2, <1>4, <1>5, <1>6
  <2> DEFINE w == IF m.kind = "credits" THEN m.n ELSE 0
  <2>2. Granted(air'.toDevice) = Granted(t) + w /\ w \in Nat
    BY <1>8, <2>1
  <2> HIDE DEF w
  <2>3. Granted(air'.toDevice) + session'.received = Granted(s) + session.received + w
    BY <1>3, <1>7, <1>9, <2>2
  <2>4. Carried(air'.toDevice) = Carried(s) + (IF m.kind = "credits" THEN 0 ELSE 1)
    BY <1>3, <2>1
  <2> QED
    BY <1>2, <2>3, <2>4 DEF w

\* A request costs one credit and weighs one chunk; what is given back stays in the window.
LEMMA RequestBalances ==
  ASSUME Types, StageInv, Ask \/ KeepAlive \/ Set
  PROVE  Balanced
<1>1. PICK m \in Orders : /\ m.kind # "credits"
                          /\ air' = [air EXCEPT !.toDevice = @ \o (Returned \o <<m>>)]
  <2>1. CASE Ask
    <3>1. Question \in Orders /\ Question.kind # "credits"
      BY <2>1, StageTyped, QuestionTyped DEF Ask, InCourse, Question, Message
    <3> QED
      BY <2>1, <3>1 DEF Ask, Transmit
  <2>2. CASE KeepAlive
    <3>1. Message("keepalive", None) \in Orders /\ Message("keepalive", None).kind # "credits"
      BY OrdersTyped DEF Message
    <3> QED
      BY <2>2, <3>1 DEF KeepAlive, Transmit
  <2>3. CASE Set
    <3>1. /\ Message("set", request.mode) \in Orders
          /\ Message("set", request.mode).kind # "credits"
      BY <2>3, OrdersTyped, RequestTyped DEF Set, Types, ClientType, Message
    <3> QED
      BY <2>3, <3>1 DEF Set, Transmit
  <2> QED
    BY <2>1, <2>2, <2>3
<1>2. /\ session'.received = (IF session.received >= ReturnAt THEN 0 ELSE session.received)
      /\ session'.tx = session.tx - 1 /\ session.tx > 0 /\ UNCHANGED device
  BY DEF Types, SessionType, Ask, KeepAlive, Set, Flushed, Awaiting
<1>3. /\ air'.toClient = air.toClient
      /\ Granted(air'.toDevice) + session'.received = Granted(air.toDevice) + session.received + 0
      /\ Carried(air'.toDevice) = Carried(air.toDevice) + 1
  BY <1>1, <1>2, SentCounts
<1>4. Granted(air'.toDevice) \in Nat /\ Carried(air'.toDevice) \in Nat
  BY AirTyped, CountsTyped DEF AirType, Next, Client
<1> QED
  BY <1>2, <1>3, <1>4, CountersTyped DEF Balanced, Incoming, Outgoing

\* Maintenance gives back what was received, no more.
LEMMA MaintainBalances ==
  ASSUME Types, StageInv, Maintain
  PROVE  Balanced
<1>1. air' = [air EXCEPT !.toDevice = @ \o Returned] /\ UNCHANGED device
  BY DEF Maintain, Transmit
<1>2. /\ session'.received = (IF session.received >= ReturnAt THEN 0 ELSE session.received)
      /\ session'.tx = session.tx
  BY DEF Types, SessionType, Maintain, Flushed
<1>3. air'.toClient = air.toClient /\ air'.toDevice = air.toDevice \o Returned
  BY <1>1 DEF Types, AirType
<1>4. /\ Granted(air'.toDevice) + session'.received = Granted(air.toDevice) + session.received
      /\ Carried(air'.toDevice) = Carried(air.toDevice)
  BY <1>2, <1>3, ReturnedCounts DEF Types, AirType
<1>5. Granted(air'.toDevice) \in Nat /\ session'.received \in Nat
  BY <1>2, CountersTyped, AirTyped, CountsTyped DEF AirType, Next, Client
<1> QED
  BY <1>1, <1>2, <1>3, <1>4, <1>5, CountersTyped DEF Balanced, Incoming, Outgoing

\* Opening the session grants the window.
LEMMA OpenGrants ==
  ASSUME Types, StageInv, Open
  PROVE  Incoming' = Incoming + Window /\ Outgoing' = Outgoing
<1> DEFINE m == [kind |-> "credits", n |-> Window]
<1>1. m \in Orders /\ Window \in Nat
  BY OrdersTyped, CreditsAssumption
<1>2. air' = [air EXCEPT !.toDevice = @ \o (Returned \o <<m>>)] /\ UNCHANGED device
  BY DEF Open, Transmit
<1>3. /\ session'.received = (IF session.received >= ReturnAt THEN 0 ELSE session.received)
      /\ session'.tx = session.tx
  BY DEF Types, SessionType, Open, Flushed
<1>4. /\ air'.toClient = air.toClient
      /\ Granted(air'.toDevice) + session'.received
            = Granted(air.toDevice) + session.received + Window
      /\ Carried(air'.toDevice) = Carried(air.toDevice) + 0
  BY <1>1, <1>2, <1>3, SentCounts
<1>5. Granted(air'.toDevice) \in Nat /\ session'.received \in Nat
  BY <1>3, CountersTyped, AirTyped, CountsTyped DEF AirType, Next, Client
<1> QED
  <2>1. Carried(air'.toDevice) = Carried(air.toDevice)
    BY <1>4, CountersTyped
  <2>2. Outgoing' = Outgoing
    BY <1>2, <1>3, <1>4, <2>1 DEF Outgoing
  <2>3. Incoming' = Incoming + Window
    <3>1. Window \in Nat /\ device'.grant = device.grant
      BY <1>1, <1>2
    <3>2. Incoming' = device.grant + Granted(air'.toDevice) + Carried(air.toClient)
                        + session'.received
      BY <1>4, <3>1 DEF Incoming
    <3>3. \A a, b, c, d, e, f, g \in Nat :
             c + d = e + f + g => a + c + b + d = (a + e + b + f) + g
      OBVIOUS
    <3>4. /\ device.grant \in Nat /\ Carried(air.toClient) \in Nat
          /\ Granted(air.toDevice) \in Nat /\ session.received \in Nat
      BY CountersTyped
    <3>5. Granted(air'.toDevice) + session'.received
            = Granted(air.toDevice) + session.received + Window
      BY <1>4
    <3>6. device.grant + Granted(air'.toDevice) + Carried(air.toClient) + session'.received
            = (device.grant + Granted(air.toDevice) + Carried(air.toClient) + session.received)
                + Window
      BY ONLY <1>5, <3>1, <3>3, <3>4, <3>5, SMTT(60)
    <3> QED
      BY <3>2, <3>6 DEF Incoming
  <2> QED
    BY <2>2, <2>3

\* A notification taken, with the window and the limit respected.
LEMMA HeardBalances ==
  ASSUME Types, NotifyRx, Incoming <= Window, Outgoing <= TxLimit
  PROVE  Balanced
<1> DEFINE m == Head(air.toClient)
           rest == Tail(air.toClient)
<1>1. /\ air.toClient # <<>> /\ air.toClient \in Seq(Answers)
      /\ air'.toDevice = air.toDevice /\ air'.toClient = rest /\ UNCHANGED device
  BY DEF NotifyRx, Types, AirType
<1>2. m \in Answers /\ m.n \in Nat /\ rest \in Seq(Answers)
  BY <1>1, HeadTailTyped, MessagesSized
<1>3. /\ Granted(air.toClient) = Granted(rest) + (IF m.kind = "credits" THEN m.n ELSE 0)
      /\ Carried(air.toClient) = Carried(rest) + (IF m.kind = "credits" THEN 0 ELSE 1)
  BY <1>1, CountsTail
<1>4. Granted(rest) \in Nat /\ Carried(rest) \in Nat
  BY <1>2, CountsTyped
<1>5. Window \in Nat /\ TxLimit \in Nat
  BY CreditsAssumption
<1>6. session' = IF Overflows(m) THEN [session EXCEPT !.failed = TRUE] ELSE Inspected(m)
  BY DEF NotifyRx
<1>7. m.kind \in {"credits", "list", "refused", "value"}
  BY <1>2 DEF Answers, Credits
<1> HIDE DEF m, rest
<1>8. CASE m.kind = "credits"
  <2>1. Granted(air.toClient) = Granted(rest) + m.n /\ Carried(air.toClient) = Carried(rest)
    BY <1>3, <1>4, <1>8
  <2>2. Outgoing = session.tx + (Granted(rest) + m.n) + Carried(air.toDevice) + device.owed
    BY <2>1 DEF Outgoing
  <2>3. session.tx + m.n <= TxLimit
    <3>1. \A a, b, c, d, e \in Nat : a + (b + c) + d + e <= TxLimit => a + c <= TxLimit
      BY <1>5
    <3>2. session.tx + (Granted(rest) + m.n) + Carried(air.toDevice) + device.owed <= TxLimit
      BY <2>2
    <3> QED
      BY <1>2, <1>4, <3>1, <3>2, CountersTyped
  <2>4. session' = [session EXCEPT !.failed = @ \/ session.tx + m.n > TxLimit,
                                   !.tx = IF @ + m.n > TxLimit THEN @ ELSE @ + m.n]
    BY <1>6, <1>8 DEF Overflows, Inspected
  <2>5. session'.tx = session.tx + m.n /\ session'.received = session.received
    BY <1>2, <1>5, <2>3, <2>4, CountersTyped DEF Types, SessionType
  <2>6. Outgoing' = (session.tx + m.n) + Granted(rest) + Carried(air.toDevice) + device.owed
    BY <1>1, <2>5 DEF Outgoing
  <2>7. Outgoing' = Outgoing
    BY <1>2, <1>4, <2>6, <2>2, CountersTyped
  <2>8. Incoming' = Incoming
    BY <1>1, <2>5, <2>1 DEF Incoming
  <2> QED
    BY <2>7, <2>8 DEF Balanced
<1>9. CASE m.kind # "credits"
  <2>1. Granted(air.toClient) = Granted(rest) /\ Carried(air.toClient) = Carried(rest) + 1
    BY <1>3, <1>4, <1>9
  <2>2. session.received < Window
    BY <1>4, <1>5, <2>1, CountersTyped DEF Incoming
  <2>3. ~Overflows(m)
    BY <1>5, <2>2, CountersTyped DEF Overflows
  <2>4. session' = Inspected(m)
    BY <1>6, <2>3
  <2>5. session'.received = session.received + 1 /\ session'.tx = session.tx
    BY <1>7, <1>9, <2>4 DEF Inspected, Types, SessionType
  <2>6. Incoming' = device.grant + Granted(air.toDevice) + Carried(rest) + (session.received + 1)
    BY <1>1, <2>5 DEF Incoming
  <2>7. Incoming = device.grant + Granted(air.toDevice) + (Carried(rest) + 1) + session.received
    BY <2>1 DEF Incoming
  <2>8. Incoming' = Incoming
    BY <1>4, <2>6, <2>7, CountersTyped
  <2>9. Outgoing' = Outgoing
    BY <1>1, <2>1, <2>5 DEF Outgoing
  <2> QED
    BY <2>8, <2>9 DEF Balanced
<1> QED
  BY <1>8, <1>9

\* The device takes an order: its credits become grants, any other is owed back.
LEMMA ServeBalances ==
  ASSUME Types, Serve, Live
  PROVE  Balanced
<1> DEFINE rest == Tail(air.toDevice)
<1>1. /\ air.toDevice # <<>> /\ air.toDevice \in Seq(Orders) /\ air.toClient \in Seq(Answers)
      /\ air'.toDevice = rest /\ session' = session
  BY ServeTakes, ServeSplits DEF Types, AirType
<1>2. Order \in Orders /\ Order.n \in Nat /\ rest \in Seq(Orders)
  BY <1>1, HeadTailTyped, MessagesSized DEF Order
<1>3. /\ Granted(air.toDevice) = Granted(rest) + (IF Order.kind = "credits" THEN Order.n ELSE 0)
      /\ Carried(air.toDevice) = Carried(rest) + (IF Order.kind = "credits" THEN 0 ELSE 1)
  BY <1>1, CountsTail DEF Order
<1>4. Granted(rest) \in Nat /\ Carried(rest) \in Nat
  BY <1>2, CountsTyped
<1> HIDE DEF rest
<1>5. CASE /\ Order.kind = "credits" /\ air' = [air EXCEPT !.toDevice = Tail(@)]
           /\ device' = [device EXCEPT !.grant = @ + Order.n]
  <2>1. air'.toClient = air.toClient
    BY <1>5 DEF Types, AirType
  <2>2. device'.grant = device.grant + Order.n /\ device'.owed = device.owed
    BY <1>5 DEF Types, DeviceType
  <2>3. Granted(air.toDevice) = Granted(rest) + Order.n /\ Carried(air.toDevice) = Carried(rest)
    BY <1>3, <1>4, <1>5
  <2>4. Incoming' = (device.grant + Order.n) + Granted(rest) + Carried(air.toClient)
                      + session.received
    BY <1>1, <2>1, <2>2 DEF Incoming
  <2>5. Incoming = device.grant + (Granted(rest) + Order.n) + Carried(air.toClient)
                     + session.received
    BY <2>3 DEF Incoming
  <2>6. Incoming' = Incoming
    BY <1>2, <1>4, <2>4, <2>5, CountersTyped
  <2>7. Outgoing' = Outgoing
    BY <1>1, <2>1, <2>2, <2>3 DEF Outgoing
  <2> QED
    BY <2>6, <2>7 DEF Balanced
<1>6. CASE /\ Order.kind \in {"keepalive", "set"} /\ air' = [air EXCEPT !.toDevice = Tail(@)]
           /\ device'.owed = device.owed + 1 /\ device'.grant = device.grant
  <2>1. air'.toClient = air.toClient
    BY <1>6 DEF Types, AirType
  <2>3. Granted(air.toDevice) = Granted(rest) /\ Carried(air.toDevice) = Carried(rest) + 1
    BY <1>3, <1>4, <1>6
  <2>4. Outgoing' = session.tx + Granted(air.toClient) + Carried(rest) + (device.owed + 1)
    BY <1>1, <1>6, <2>1 DEF Outgoing
  <2>5. Outgoing = session.tx + Granted(air.toClient) + (Carried(rest) + 1) + device.owed
    BY <2>3 DEF Outgoing
  <2>6. Outgoing' = Outgoing
    BY <1>4, <2>4, <2>5, CountersTyped
  <2>7. Incoming' = Incoming
    BY <1>1, <1>6, <2>1, <2>3 DEF Incoming
  <2> QED
    BY <2>6, <2>7 DEF Balanced
<1>7. ASSUME NEW kind \in {"list", "value", "refused"}, NEW what \in Subjects, NEW value \in Texts,
             Order.kind # "credits", device.grant > 0,
             device' = [device EXCEPT !.owed = @ + 1, !.grant = @ - 1], Tell(kind, what, value)
      PROVE  Balanced
  <2> DEFINE m == [kind |-> kind, what |-> what, value |-> value, n |-> 1]
  <2>1. m \in Answers /\ m.kind # "credits"
    BY <1>7, AnswersTyped
  <2>2. air'.toClient = Append(air.toClient, m)
    BY <1>7 DEF Tell
  <2> HIDE DEF m
  <2>3. /\ Granted(air'.toClient) = Granted(air.toClient) + 0
        /\ Carried(air'.toClient) = Carried(air.toClient) + 1
    BY <1>1, <2>1, <2>2, CountsAppend
  <2>4. device'.owed = device.owed + 1 /\ device'.grant = device.grant - 1
    BY <1>7 DEF Types, DeviceType
  <2>5. Granted(air.toDevice) = Granted(rest) /\ Carried(air.toDevice) = Carried(rest) + 1
    BY <1>3, <1>4, <1>7
  <2>6. Outgoing' = session.tx + (Granted(air.toClient) + 0) + Carried(rest) + (device.owed + 1)
    BY <1>1, <2>3, <2>4 DEF Outgoing
  <2>7. Outgoing = session.tx + Granted(air.toClient) + (Carried(rest) + 1) + device.owed
    BY <2>5 DEF Outgoing
  <2>8. Outgoing' = Outgoing
    BY <1>4, <2>6, <2>7, CountersTyped
  <2>9. Incoming' = (device.grant - 1) + Granted(rest) + (Carried(air.toClient) + 1)
                      + session.received
    BY <1>1, <2>3, <2>4 DEF Incoming
  <2>10. Incoming = device.grant + Granted(rest) + Carried(air.toClient) + session.received
    BY <2>5 DEF Incoming
  <2>11. Incoming' = Incoming
    BY <1>4, <2>9, <2>10, CountersTyped
  <2> QED
    BY <2>8, <2>11 DEF Balanced
<1>8. CASE Order.kind = "list" /\ Tell("list", Order.what, None)
  <2>1. Order.what \in Subjects /\ None \in Texts
    BY <1>2, <1>8 DEF Orders, Credits, Subjects, Texts
  <2>2. device.grant > 0 /\ device' = [device EXCEPT !.owed = @ + 1, !.grant = @ - 1]
    BY <1>8, ServeSplits
  <2> QED
    BY <1>7, <1>8, <2>1, <2>2
<1>9. CASE Order.kind = "get" /\ Tell("value", Order.what, Value(Order.what))
  <2>1. Order.what \in Registers /\ Order.what \in Subjects
    BY <1>2, <1>9 DEF Orders, Credits, Subjects
  <2>2. Value(Order.what) \in Texts
    BY <2>1, ValueTyped DEF Types
  <2>3. device.grant > 0 /\ device' = [device EXCEPT !.owed = @ + 1, !.grant = @ - 1]
    BY <1>9, ServeSplits
  <2> QED
    BY <1>7, <1>9, <2>1, <2>2, <2>3
<1>10. CASE /\ Order.kind = "set" /\ Tell("refused", "mode", None) /\ device.grant > 0
            /\ device' = [device EXCEPT !.owed = @ + 1, !.grant = @ - 1]
  <2>1. "mode" \in Subjects /\ None \in Texts
    BY DEF Subjects, Registers, Texts
  <2> QED
    BY <1>7, <1>10, <2>1
<1>11. CASE /\ Order.kind = "keepalive" /\ air' = [air EXCEPT !.toDevice = Tail(@)]
            /\ device' = [device EXCEPT !.owed = @ + 1]
  BY <1>6, <1>11 DEF Types, DeviceType
<1>12. CASE /\ Order.kind = "set" /\ air' = [air EXCEPT !.toDevice = Tail(@)]
            /\ device' = [device EXCEPT !.owed = IF Live THEN @ + 1 ELSE 0, !.mode = Order.what]
  BY <1>6, <1>12 DEF Types, DeviceType
<1> QED
  BY <1>5, <1>8, <1>9, <1>10, <1>11, <1>12, ServeSplits

\* It speaks up at the cost of a grant.
LEMMA NotifyBalances ==
  ASSUME Types, Notify
  PROVE  Balanced
<1>1. PICK what \in {"mode", "output"} : Tell("notify", what, Value(what))
  BY DEF Notify
<1> DEFINE m == [kind |-> "value", what |-> what, value |-> Value(what), n |-> 1]
<1>2. what \in Subjects /\ Value(what) \in Texts
  BY ValueTyped DEF Types, Subjects, Registers
<1>3. m \in Answers /\ m.kind # "credits"
  BY <1>2, AnswersTyped
<1>4. air'.toClient = Append(air.toClient, m) /\ air'.toDevice = air.toDevice
  BY <1>1 DEF Tell
<1>5. /\ device' = [device EXCEPT !.grant = @ - 1] /\ device.grant > 0 /\ UNCHANGED session
  BY DEF Notify
<1> HIDE DEF m
<1>6. device'.grant = device.grant - 1 /\ device'.owed = device.owed
  BY <1>5 DEF Types, DeviceType
<1>7. /\ Granted(air'.toClient) = Granted(air.toClient) + 0
      /\ Carried(air'.toClient) = Carried(air.toClient) + 1
  BY <1>3, <1>4, CountsAppend DEF Types, AirType
<1>8. Outgoing' = session.tx + (Granted(air.toClient) + 0) + Carried(air.toDevice) + device.owed
  BY <1>4, <1>5, <1>6, <1>7 DEF Outgoing
<1>9. Outgoing' = Outgoing
  BY <1>8, CountersTyped DEF Outgoing
<1>10. Incoming' = (device.grant - 1) + Granted(air.toDevice) + (Carried(air.toClient) + 1)
                     + session.received
  BY <1>4, <1>5, <1>6, <1>7 DEF Incoming
<1>11. Incoming' = Incoming
  BY <1>10, CountersTyped DEF Incoming
<1> QED
  BY <1>9, <1>11 DEF Balanced

\* What it owes it gives back.
LEMMA GrantBalances ==
  ASSUME Types, Grant
  PROVE  Balanced
<1> DEFINE m == [kind |-> "credits", n |-> device.owed]
<1>1. m \in Answers /\ m.kind = "credits" /\ m.n = device.owed
  BY AnswersTyped, CountersTyped
<1>2. air'.toClient = Append(air.toClient, m) /\ air'.toDevice = air.toDevice
  BY DEF Grant, Types, AirType
<1>3. device'.grant = device.grant /\ device'.owed = 0 /\ UNCHANGED session
  BY DEF Grant, Types, DeviceType
<1> HIDE DEF m
<1>4. /\ Granted(air'.toClient) = Granted(air.toClient) + device.owed
      /\ Carried(air'.toClient) = Carried(air.toClient) + 0
  BY <1>1, <1>2, CountsAppend DEF Types, AirType
<1>5. Outgoing' = session.tx + (Granted(air.toClient) + device.owed) + Carried(air.toDevice) + 0
  BY <1>2, <1>3, <1>4 DEF Outgoing
<1>6. Outgoing' = Outgoing
  BY <1>5, CountersTyped DEF Outgoing
<1>7. Incoming' = device.grant + Granted(air.toDevice) + (Carried(air.toClient) + 0)
                    + session.received
  BY <1>2, <1>3, <1>4 DEF Incoming
<1>8. Incoming' = Incoming
  BY <1>7, CountersTyped DEF Incoming
<1> QED
  BY <1>6, <1>8 DEF Balanced

-----------------------------------------------------------------------------
(* Where the account is kept.                                              *)

\* The places of the client with a connection, or with one to come.
Linked == {"connecting", "secure"} \cup InCourse

\* How the client gets, or stays, there.
LEMMA CourseMoves ==
  ASSUME Types, Next, pc' \in Linked
  PROVE  /\ request' = request
         /\ \/ UNCHANGED <<pc, step>>
            \/ Connect
            \/ pc = "connecting" /\ step' = 1 /\ pc' \in {"secure", "issue"}
            \/ pc = "secure" /\ pc' = "issue" /\ step' = step
            \/ Issue /\ pc' = "await" /\ step' = step
            \/ (Discovered \/ Written) /\ pc = "await" /\ Advance
            \/ pc \in Speaking /\ pc' \in Speaking /\ step' = step
            \/ pc \in Speaking /\ Advance
<1> DEFINE Goal == /\ request' = request
                   /\ \/ UNCHANGED <<pc, step>>
                      \/ Connect
                      \/ pc = "connecting" /\ step' = 1 /\ pc' \in {"secure", "issue"}
                      \/ pc = "secure" /\ pc' = "issue" /\ step' = step
                      \/ Issue /\ pc' = "await" /\ step' = step
                      \/ (Discovered \/ Written) /\ pc = "await" /\ Advance
                      \/ pc \in Speaking /\ pc' \in Speaking /\ step' = step
                      \/ pc \in Speaking /\ Advance
<1>1. CASE UNCHANGED <<pc, step, request>>
  BY <1>1
<1>2. CASE pc' \notin Linked
  BY <1>2
<1>3. CASE Connect
  BY <1>3 DEF Connect
<1>4. CASE Connected
  BY <1>4 DEF Connected
<1>5. CASE Secured
  BY <1>5 DEF Secured
<1>6. CASE Issue
  BY <1>6 DEF Issue
<1>7. CASE Discovered
  BY <1>7 DEF Discovered, Completed
<1>8. CASE Written
  <2>1. request' = request /\ pc = "await" /\ (pc' = "drop" \/ Advance)
    BY <1>8 DEF Written, Completed
  <2> QED
    BY <1>8, <2>1 DEF Linked, InCourse
<1>9. CASE Open \/ KeepAlive \/ AlreadySet
  BY <1>9 DEF Open, KeepAlive, AlreadySet, Speaking
<1>10. CASE Ask \/ Set
  BY <1>10 DEF Ask, Set, Speaking
<1>11. CASE Settle
  BY <1>11 DEF Settle, Leaves, Speaking, Linked, InCourse
<1>12. CASE Hear
  <2>1. request' = request /\ pc = "hear"
    BY <1>12 DEF Hear
  <2>2. Advance \/ (pc' \in {"drop", "settle"} /\ UNCHANGED step)
    BY <1>12, HearSplits
  <2> QED
    BY <2>1, <2>2 DEF Speaking, Linked, InCourse
<1>13. CASE Run \/ StackFails \/ HostSynced \/ HostNotSynced \/ Stop \/ StopFails \/ Report
  BY <1>13 DEF Run, StackFails, HostSynced, HostNotSynced, Stop, StopFails, Report, Linked, InCourse
<1>14. CASE Scan \/ Scanned \/ ScanFails \/ ScanAbort
  BY <1>14 DEF Scan, Scanned, ScanFails, ScanAbort, Ends, Linked, InCourse
<1>15. CASE ConnectFails \/ ConnectAbort \/ Abandoned \/ NotSecured \/ Failed \/ Reread \/ Unheard
  BY <1>15 DEF ConnectFails, ConnectAbort, Abandoned, NotSecured, Failed, Reread, Unheard, Leaves,
    Linked, InCourse
<1>16. CASE Disconnect \/ Retry \/ Finish
  BY <1>16 DEF Disconnect, Drop, Retry, Finish, Linked, InCourse
<1>17. Goal
  BY <1>1, <1>2, <1>3, <1>4, <1>5, <1>6, <1>7, <1>8, <1>9, <1>10, <1>11, <1>12, <1>13, <1>14,
    <1>15, <1>16 DEF Next, Client, Host, Device, client, radio, Maintain, Sync, Reset, Sighted,
    ScanOver, LinkUp, LinkRefused, LinkLost, Deliver, Encrypted, Complete, NotifyRx, Serve,
    Notify, SwitchOutput, Grant, Abort
<1> QED
  BY <1>17

\* Before the first CCCD the client has come from the connection.
LEMMA EarlyFrom ==
  ASSUME Types, StageInv, Next, Early'
  PROVE  Early \/ Connect
<1>1. /\ pc' \in {"connecting", "secure", "issue", "await"}
      /\ pc' \in {"issue", "await"} /\ Native' => step' < Granting
  BY DEF Early
<1>2. step \in Nat /\ Granting = 8 /\ Opening = 11
  BY DEF Types, ClientType, Granting, Opening
<1>3. pc' \in Linked /\ request' = request /\ Native' = Native
  BY <1>1, CourseMoves, PlanKept DEF Linked, InCourse
<1>4. CASE UNCHANGED <<pc, step>>
  BY <1>3, <1>4 DEF Early
<1>5. CASE pc \in {"connecting", "secure"}
  BY <1>5 DEF Early
<1>6. CASE Issue /\ pc' = "await" /\ step' = step
  BY <1>1, <1>3, <1>6 DEF Early, Issue
<1>7. CASE pc = "await" /\ Advance
  BY <1>1, <1>2, <1>3, <1>7 DEF Early, Advance
<1>8. CASE pc \in Speaking /\ (Advance \/ pc' \in Speaking)
  <2>1. Native /\ step >= Opening
    BY <1>8, Whereabouts DEF InCourse, Speaking
  <2>2. CASE Advance
    BY <1>1, <1>2, <1>3, <2>1, <2>2 DEF Advance
  <2> QED
    BY <1>1, <1>8, <2>2 DEF Speaking
<1> QED
  BY <1>3, <1>4, <1>5, <1>6, <1>7, <1>8, CourseMoves

\* And the device is quiet.
LEMMA EarlyKept ==
  ASSUME Types, StageInv, HostInv, LinkInv, ProcInv, EarlyInv, Next
  PROVE  EarlyInv'
<1> SUFFICES ASSUME Early' PROVE Quiet'
  BY DEF EarlyInv
<1>1. CASE Connect
  <2>1. nimble.host /\ UNCHANGED <<air, device>>
    BY <1>1 DEF Connect, HostInv
  <2>2. nimble.link = "down"
    BY <1>1 DEF Connect, Early
  <2> QED
    BY <2>1, <2>2 DEF LinkInv, Quiet
<1>2. CASE Early /\ ~Connect
  <2>1. Quiet /\ pc \in {"connecting", "secure", "issue", "await"}
    BY <1>2 DEF EarlyInv, Early
  <2>2. air = [toDevice |-> <<>>, toClient |-> <<>>] /\ device.grant = 0 /\ device.owed = 0
    BY <2>1 DEF Quiet, Silence
  <2>3. air' = air
    <3>1. ~Open /\ ~Ask /\ ~Maintain /\ ~KeepAlive /\ ~Set /\ ~Disconnect /\ ~Stop /\ ~Report
      BY <2>1 DEF Open, Ask, Maintain, KeepAlive, Set, Disconnect, Drop, Stop, Report
    <3>2. LinkLost => air' = air
      BY <2>1 DEF LinkLost, Quiet
    <3>3. ~NotifyRx /\ ~Serve /\ ~Notify /\ ~Grant
      BY <2>2 DEF NotifyRx, Serve, Notify, Grant
    <3> QED
      BY <3>1, <3>2, <3>3, AirMoves
  <2>4. device'.grant = 0 /\ device'.owed = 0
    <3>1. ~Stop /\ ~Report /\ ~Disconnect /\ ~Serve /\ ~Notify /\ ~Grant
      BY <2>1, <2>2 DEF Stop, Report, Disconnect, Drop, Serve, Notify, Grant
    <3>2. CASE LinkLost
      BY <3>2 DEF LinkLost, Types, DeviceType
    <3>3. CASE SwitchOutput
      BY <2>2, <3>3 DEF SwitchOutput, Types, DeviceType
    <3>4. CASE Complete
      <4>1. pc = "await" /\ Head(nimble.procs) = Owner
        BY <2>1, <3>4, OneOwner DEF Complete, ProcInv
      <4>2. Plan[Owner.step] = Stage
        BY DEF Owner, Stage
      <4>3. Native => step < Granting
        BY <1>2, <4>1 DEF Early
      <4>4. Stage # "cccd"
        BY <4>1, <4>3, Whereabouts DEF InCourse, Granting
      <4>5. device' = device
        BY <3>4, <4>1, <4>2, <4>4 DEF Complete
      <4> QED
        BY <2>2, <4>5
    <3>5. CASE UNCHANGED device
      BY <2>2, <3>5
    <3> QED
      BY <3>1, <3>2, <3>3, <3>4, <3>5, DeviceMoves
  <2> QED
    BY <2>1, <2>3, <2>4 DEF Quiet
<1> QED
  BY <1>1, <1>2, EarlyFrom

\* Past the first stage the link is not one that is still to come up.
LEMMA LinkedKept ==
  ASSUME Types, StageInv, LinkInv, LinkedInv, Next
  PROVE  LinkedInv'
<1> SUFFICES ASSUME pc' \in InCourse, step' > 1, nimble'.link = "connecting" PROVE FALSE
  BY DEF LinkedInv
<1>1. ~Connect /\ pc' \in Linked
  BY DEF Connect, Linked, InCourse
<1>2. nimble.link = "connecting"
  BY <1>1, NimbleMoves DEF Types, NimbleType, Run, Stop, StopFails, Report, Scan, ScanAbort, Off,
    ConnectAbort, Issue, Disconnect, Drop, Terminated, Reset, Sighted, ScanOver, LinkUp,
    LinkRefused, LinkLost, Deliver, Encrypted, Complete, InCourse
<1>3. pc \notin {"await"} \cup Speaking /\ ~Issue
  BY <1>2 DEF LinkInv, Issue
<1>4. UNCHANGED <<pc, step>> \/ (pc = "secure" /\ step' = step)
  BY <1>1, <1>3, CourseMoves
<1> QED
  BY <1>2, <1>4 DEF LinkedInv, StageInv

\* The session's part of an attempt is entered through the discovery, with the link up.
LEMMA RunningFrom ==
  ASSUME Types, StageInv, LinkInv, LinkedInv, Next, Running'
  PROVE  /\ request' = request /\ Native' = Native /\ pc' \in InCourse /\ step' >= Granting
         /\ nimble'.link = "up" /\ nimble.link = "up" /\ pc \in InCourse /\ Native
         /\ step \in Nat
         /\ Running \/ (Discovered /\ step = 7 /\ Advance)
<1>1. pc' \in InCourse /\ Native' /\ step' >= Granting /\ nimble'.link = "up"
  BY DEF Running
<1>2. request' = request /\ Native' = Native /\ pc' \in Linked
  BY <1>1, CourseMoves, PlanKept DEF Linked
<1>3. nimble.link = "up" \/ LinkUp
  BY <1>1, UpByLinkUp
<1>4. nimble.link = "up"
  <2>1. ~LinkUp
    BY <1>1 DEF LinkUp, client, LinkedInv, Granting, Types, ClientType
  <2> QED
    BY <1>3, <2>1
<1>5. pc \in InCourse
  BY <1>1, <1>2, CourseMoves DEF StageInv, Granting, Connect, Issue, InCourse, Speaking
<1>6. step \in Nat
  BY DEF Types, ClientType
<1>7. step >= Granting \/ (Discovered /\ step = 7 /\ Advance)
  <2>1. step' = step \/ Advance
    BY <1>1, <1>2, <1>5, CourseMoves DEF StageInv, Granting, Connect, InCourse
  <2>2. CASE Advance /\ step < Granting
    <3>1. step = 7
      BY <1>1, <1>6, <2>2 DEF Advance, Granting
    <3>2. pc \notin Speaking
      BY <1>5, <3>1, Whereabouts DEF Opening
    <3>3. Stage = "info" /\ "info" \notin Writes
      BY <1>1, <1>2, <1>5, <3>1, <3>2, Whereabouts DEF InCourse, Speaking, Writes
    <3>4. ~Written
      BY <3>3 DEF Written
    <3>5. step' # step
      BY <3>1, <2>2 DEF Advance
    <3> QED
      BY <1>1, <1>2, <1>5, <2>2, <3>1, <3>2, <3>4, <3>5, CourseMoves DEF InCourse, Connect
  <2> QED
    BY <1>1, <1>6, <2>1, <2>2 DEF Granting
<1> QED
  BY <1>1, <1>2, <1>4, <1>5, <1>6, <1>7 DEF Running

\* A step that keeps the sums, the place and the pending procedure.
LEMMA CreditStays ==
  ASSUME CreditInv, Running, UNCHANGED <<pc, step>>, Balanced,
         air'.toDevice = air.toDevice \/ step > Opening, step \in Nat,
         nimble'.procs = nimble.procs, Current'.ok => Current.ok
  PROVE  CreditInv'
BY DEF CreditInv, Balanced, Opening

\* Within the window and the limit.
LEMMA CreditBounds ==
  ASSUME CreditInv, Running, step \in Nat
  PROVE  Incoming <= Window /\ Outgoing <= TxLimit /\ (air.toDevice # <<>> => step > Opening)
BY CreditsAssumption DEF CreditInv, Opening, Granting, Running

\* Only the first CCCD makes the device grant the client its limit.
LEMMA CreditComplete ==
  ASSUME Types, StageInv, ProcInv, CreditInv, Running, Complete
  PROVE  CreditInv'
<1>1. PICK ok \in BOOLEAN, found \in BOOLEAN : LET owner == Head(nimble.procs) IN
        /\ context' = [Answered(owner, ok) EXCEPT !.found = found]
        /\ device' = IF ok /\ Plan[owner.step] = "cccd" /\ Plan[owner.step - 1] # "cccd"
                     THEN [device EXCEPT !.owed = TxLimit] ELSE device
  BY DEF Complete
<1>2. /\ nimble.procs # <<>> /\ nimble' = [nimble EXCEPT !.procs = Tail(@)]
      /\ UNCHANGED <<pc, step, request, session, air>>
  BY DEF Complete, client
<1>3. pc = "await" /\ nimble.procs = <<Owner>>
  BY <1>2 DEF ProcInv, Running, InCourse, Speaking
<1>4. nimble'.procs = <<>>
  BY <1>2, <1>3, OneOwner DEF Types, NimbleType
<1>5. /\ request \in Requests /\ step \in Nat /\ step >= Granting /\ step < Opening
      /\ step \in 1 .. Len(Plan) /\ step - 1 \in 1 .. Len(Plan) /\ Native
      /\ Stage = "cccd" /\ Stage = Plan[step]
  BY <1>3, Whereabouts DEF Running, InCourse, Granting, Opening, StageInv
<1>6. step > Granting => Plan[step - 1] = "cccd"
  BY <1>5, CoursePlan DEF Granting, Opening
<1>7. step = Granting => Plan[step - 1] = "info"
  BY <1>5, CoursePlan DEF Granting, Opening
<1>8. device' = IF ok /\ step = Granting THEN [device EXCEPT !.owed = TxLimit] ELSE device
  BY <1>1, <1>3, <1>5, <1>6, <1>7, OneOwner DEF Owner, Granting
<1>9. Stage' = Stage /\ Stage \in Writes
  BY <1>2, <1>5, StageStays DEF Writes
<1>10. ~ok => ~Current'.ok
  <2>1. Plan[Owner.step] \in Writes
    BY <1>5, <1>9 DEF Owner
  <2>2. context' = [Answered(Owner, ok) EXCEPT !.found = found]
    BY <1>1, <1>3, OneOwner
  <2>3. ~ok => context'.write = Pending
    BY <2>1, <2>2 DEF Answered, Given, Types, ContextType
  <2> QED
    BY <1>9, <2>3 DEF Current, Pending
<1>11. CASE ok /\ step = Granting
  <2>1. /\ session.tx = 0 /\ Granted(air.toClient) = 0 /\ Carried(air.toDevice) = 0
        /\ device.owed = 0
    BY <1>2, <1>11, CountersTyped DEF CreditInv, Outgoing
  <2>2. device'.owed = TxLimit /\ device'.grant = device.grant
    BY <1>8, <1>11 DEF Types, DeviceType
  <2>3. Outgoing' = TxLimit
    BY <1>2, <2>1, <2>2, CreditsAssumption DEF Outgoing
  <2>4. Incoming' = Incoming
    BY <1>2, <2>2 DEF Incoming
  <2>5. air.toDevice = <<>> /\ Incoming = 0
    BY <1>5 DEF CreditInv, Opening
  <2>6. step' = Granting /\ air'.toDevice = <<>> /\ Incoming' = 0
    BY <1>2, <1>11, <2>4, <2>5
  <2> QED
    <3>1. ~(step' > Opening) /\ ~(step' > Granting)
      BY <2>6 DEF Granting, Opening
    <3>2. Outgoing' \in {0, TxLimit} /\ nimble'.procs = <<>> /\ pc' # "issue"
      BY <1>2, <1>3, <1>4, <2>3
    <3> QED
      BY <2>3, <2>6, <3>1, <3>2 DEF CreditInv
<1>12. CASE ~(ok /\ step = Granting)
  <2>1. device' = device
    BY <1>8, <1>12
  <2>2. Balanced
    BY <1>2, <2>1, BalanceStays
  <2> QED
    BY <1>2, <1>3, <1>4, <1>5, <1>10, <1>12, <2>2 DEF CreditInv, Balanced, Granting, Opening
<1> QED
  BY <1>11, <1>12

\* From the discovery on the account is empty.
LEMMA CreditStarts ==
  ASSUME Types, StageInv, EarlyInv, Discovered, step = 7, Advance, Native
  PROVE  CreditInv'
<1>1. pc = "await" /\ UNCHANGED <<request, air, device>>
  BY DEF Discovered, Completed, radio
<1>2. Quiet
  BY <1>1 DEF EarlyInv, Early, Granting
<1>3. Stage = "info" /\ request \in Requests /\ 8 \in 1 .. Len(Plan)
  <2>1. Stage = "info" /\ request \in Requests
    BY <1>1, Whereabouts DEF InCourse
  <2>2. 8 \in 1 .. Len(Plan)
    BY <2>1, PlanFacts DEF Native, Plan, Prepare, Switch, Stage
  <2> QED
    BY <2>1, <2>2
<1>4. Plan[8] = "cccd"
  BY <1>3, CoursePlan DEF Granting
<1>5. step' = 8 /\ pc' = "issue"
  BY <1>4 DEF Advance, Writes
<1>6. session'.tx = 0 /\ session'.received = 0
  BY <1>3 DEF Discovered, Types, SessionType
<1>7. /\ air'.toDevice = <<>> /\ air'.toClient = <<>> /\ device'.grant = 0 /\ device'.owed = 0
  BY <1>1, <1>2 DEF Quiet, Silence
<1>8. Incoming' = 0 /\ Outgoing' = 0
  BY <1>6, <1>7, CountsNone DEF Incoming, Outgoing
<1> QED
  BY <1>5, <1>7, <1>8 DEF CreditInv, Granting, Opening

\* The requests of the session, and what follows them, keep the sums.
LEMMA CreditAsks ==
  ASSUME Types, StageInv, CreditInv, Running, Next, Running',
         Ask \/ KeepAlive \/ Set \/ Maintain \/ AlreadySet \/ Settle \/ Hear
  PROVE  CreditInv'
<1>1. Types /\ pc \in Speaking /\ pc \in InCourse /\ Stage # "open"
  <2>1. pc = "hear" => Stage # "open"
    BY DEF StageInv
  <2>2. pc = "settle" => Stage # "open"
    BY DEF StageInv
  <2> QED
    BY <2>1, <2>2 DEF Ask, KeepAlive, Set, Maintain, client, AlreadySet, Settle, Hear, Speaking,
      InCourse
<1>2. step \in Nat /\ step > Opening
  BY <1>1, Whereabouts DEF Opening
<1>3. step' = step \/ step' = step + 1
  <2>1. CASE Hear
    BY <2>1, HearSplits DEF Advance
  <2> QED
    BY <2>1 DEF Ask, KeepAlive, Set, Maintain, client, AlreadySet, Settle, Advance
<1>4. Balanced
  <2>1. CASE Ask \/ KeepAlive \/ Set
    BY <2>1, RequestBalances
  <2>2. CASE Maintain
    BY <2>2, MaintainBalances
  <2>3. CASE AlreadySet \/ Settle
    BY <2>3, BalanceStays DEF AlreadySet, Settle, radio
  <2>4. CASE Hear
    <3>1. session' = [session EXCEPT !.awaited = None, !.target = None] /\ UNCHANGED <<air, device>>
      BY <2>4 DEF Hear, radio
    <3>2. session'.tx = session.tx /\ session'.received = session.received
      BY <3>1 DEF Types, SessionType
    <3> QED
      BY <3>1, <3>2, BalanceStays
  <2> QED
    BY <2>1, <2>2, <2>3, <2>4
<1> QED
  BY <1>2, <1>3, <1>4 DEF CreditInv, Balanced, Granting, Opening

\* The steps of the host and the device that keep the sums.
LEMMA CreditQuiet ==
  ASSUME Types, StageInv, ProcInv, CreditInv, Running, Next,
         \/ NotifyRx \/ Serve \/ Notify \/ Grant \/ SwitchOutput \/ Abort
         \/ Sync \/ Sighted \/ ScanOver \/ Deliver \/ Encrypted
  PROVE  CreditInv'
<1>1. step \in Nat /\ pc \in InCourse /\ UNCHANGED <<pc, step, request>>
  BY ServeSplits DEF Types, ClientType, Running, client, NotifyRx, Notify, Grant, SwitchOutput,
    Abort, Sync, Sighted, ScanOver, Deliver, Encrypted
<1>2. /\ Incoming <= Window /\ Outgoing <= TxLimit
      /\ air.toDevice # <<>> => step > Opening
  BY <1>1, CreditBounds
<1>3. Stage' = Stage
  BY <1>1, StageStays
<1>4. nimble'.procs = nimble.procs
  BY ServeSplits DEF NotifyRx, Notify, Grant, SwitchOutput, Abort, radio, Sync, Sighted, ScanOver,
    Deliver, Encrypted, Types, NimbleType
<1>5. Current'.ok => Current.ok
  <2>1. CASE Deliver
    <3>1. context' = GapEvent(Head(nimble.events)) /\ nimble.events # <<>>
      BY <2>1 DEF Deliver
    <3>2. Head(nimble.events) \in {"connected", "connect_failed", "disconnected"}
      BY <3>1 DEF Types, NimbleType
    <3>3. \/ context'.gatt = context.gatt /\ context'.write = context.write
          \/ context'.gatt = Pending /\ context'.write = Pending
      BY <3>1, <3>2 DEF GapEvent, Given, Types, ContextType
    <3> QED
      BY <1>3, <3>3 DEF Current, Pending
  <2>2. CASE context'.gatt = context.gatt /\ context'.write = context.write
    BY <1>3, <2>2 DEF Current
  <2>3. CASE Sync \/ Sighted \/ ScanOver
    <3>1. context'.gatt = context.gatt /\ context'.write = context.write
      BY <2>3 DEF Sync, Sighted, ScanOver, Given, Types, ContextType
    <3> QED
      BY <2>2, <3>1
  <2> QED
    BY <2>1, <2>2, <2>3, ServeSplits DEF NotifyRx, Notify, Grant, SwitchOutput, Abort, radio,
      Encrypted
<1>6. air'.toDevice = air.toDevice \/ step > Opening
  <2>1. CASE Serve
    BY <1>2, <2>1, ServeSplits
  <2> QED
    BY <2>1 DEF NotifyRx, Notify, Tell, Grant, SwitchOutput, Abort, radio, Sync, Sighted, ScanOver,
      Deliver, Encrypted, Types, AirType
<1>7. Balanced
  <2>1. CASE NotifyRx
    BY <1>2, <2>1, HeardBalances
  <2>2. CASE Serve
    <3>1. step > Opening
      BY <1>2, <2>2, ServeSplits
    <3>2. pc \in Speaking
      BY <1>1, <3>1, Whereabouts DEF Running, InCourse, Speaking, Opening
    <3> QED
      BY <2>2, <3>2, ServeBalances DEF Live, Speaking
  <2>3. CASE Notify
    BY <2>3, NotifyBalances
  <2>4. CASE Grant
    BY <2>4, GrantBalances
  <2>5. CASE SwitchOutput
    BY <2>5, BalanceStays DEF SwitchOutput, Types, DeviceType
  <2>6. CASE Abort
    BY <2>6, BalanceStays DEF Abort, radio, Types, SessionType
  <2>7. CASE Sync \/ Sighted \/ ScanOver \/ Deliver \/ Encrypted
    BY <2>7, BalanceStays DEF radio, Sync, Sighted, ScanOver, Deliver, Encrypted
  <2> QED
    BY <2>1, <2>2, <2>3, <2>4, <2>5, <2>6, <2>7
<1> QED
  BY <1>1, <1>4, <1>5, <1>6, <1>7, CreditStays

\* Each step keeps the account of the session.
LEMMA CreditKept ==
  ASSUME Types, StageInv, LinkInv, ProcInv, EarlyInv, LinkedInv, CreditInv, Next
  PROVE  CreditInv'
<1> SUFFICES ASSUME Running' PROVE CreditInv'
  BY DEF CreditInv
<1>1. /\ pc' \in InCourse /\ pc \in InCourse /\ nimble'.link = "up" /\ nimble.link = "up"
      /\ Native /\ step \in Nat /\ request' = request
      /\ Running \/ (Discovered /\ step = 7 /\ Advance)
  BY RunningFrom
<1>2. CASE Discovered /\ step = 7 /\ Advance
  BY <1>1, <1>2, CreditStarts
<1>3. CASE Running /\ ~(step = 7)
  <2>1. step >= Granting
    BY <1>3 DEF Running
  <2>2. CASE Issue
    <3>1. /\ pc = "issue" /\ pc' = "await" /\ UNCHANGED <<step, session, air, device>>
          /\ Stage \in Writes => context' = [Drained("write") EXCEPT !.write = Pending]
          /\ Stage \notin Writes
               => context' = [Drained("gatt") EXCEPT !.gatt = Pending, !.found = FALSE]
      BY <2>2 DEF Issue
    <3>2. Stage' = Stage
      BY <1>1, <3>1, StageStays
    <3>3. ~Current'.ok
      <4>1. Stage \in Writes => context'.write = Pending
        BY <3>1 DEF Drained, Types, ContextType
      <4>2. Stage \notin Writes => context'.gatt = Pending
        BY <3>1 DEF Drained, Types, ContextType
      <4> QED
        BY <3>2, <4>1, <4>2 DEF Current, Pending
    <3>4. Balanced
      BY <3>1, BalanceStays
    <3> QED
      BY <1>3, <2>1, <3>1, <3>3, <3>4 DEF CreditInv, Balanced
  <2>3. CASE Discovered
    <3>1. pc = "await" /\ Stage \in Procedures
      BY <2>3 DEF Discovered, Completed
    <3>2. Stage = "cccd"
      BY <1>1, <2>1, <3>1, Whereabouts DEF InCourse, Granting, Opening
    <3> QED
      BY <3>1, <3>2 DEF Procedures
  <2>4. CASE Written
    <3>1. /\ pc = "await" /\ Stage \in Writes /\ context.write.ok
          /\ UNCHANGED <<session, air, device>>
      BY <2>4 DEF Written, Completed, radio
    <3>2. step < Opening
      BY <1>1, <3>1, Whereabouts DEF InCourse
    <3>3. step' = step + 1
      BY <1>1, <2>4 DEF Written, Advance, InCourse
    <3>4. Outgoing = TxLimit
      BY <1>1, <1>3, <2>1, <3>1 DEF CreditInv, Current, Granting
    <3>5. air.toDevice = <<>> /\ Incoming = 0
      BY <1>1, <1>3, <3>2 DEF CreditInv, Opening
    <3>6. Balanced
      BY <3>1, BalanceStays
    <3>7. ~(step' > Opening) /\ step' # Granting
      BY <1>1, <2>1, <3>2, <3>3 DEF Granting, Opening
    <3>8. Outgoing' = TxLimit /\ Incoming' = 0 /\ air'.toDevice = <<>>
      BY <3>1, <3>4, <3>5, <3>6 DEF Balanced
    <3> QED
      BY <3>7, <3>8 DEF CreditInv
  <2>5. CASE Open
    <3>1. pc = "ask" /\ Stage = "open" /\ step' = step + 1
      BY <2>5 DEF Open, Advance
    <3>2. step = Opening
      BY <1>1, <3>1, Whereabouts
    <3>3. Incoming = 0 /\ Outgoing = TxLimit
      BY <1>3, <3>2 DEF CreditInv, Opening, Granting
    <3>4. Incoming' = Incoming + Window /\ Outgoing' = Outgoing
      BY <2>5, OpenGrants
    <3>5. Incoming' = Window
      BY <3>3, <3>4, CreditsAssumption
    <3> QED
      BY <3>1, <3>2, <3>3, <3>4, <3>5 DEF CreditInv, Opening, Granting
  <2>6. CASE Ask \/ KeepAlive \/ Set \/ Maintain \/ AlreadySet \/ Settle \/ Hear
    BY <1>3, <2>6, CreditAsks
  <2>7. CASE Complete
    BY <1>3, <2>7, CreditComplete
  <2>8. CASE \/ NotifyRx \/ Serve \/ Notify \/ Grant \/ SwitchOutput \/ Abort
             \/ Sync \/ Sighted \/ ScanOver \/ Deliver \/ Encrypted
    BY <1>3, <2>8, CreditQuiet
  <2>9. CASE Run \/ StackFails \/ HostSynced \/ HostNotSynced \/ Stop \/ StopFails \/ Report
    BY <1>1, <2>9 DEF Run, StackFails, HostSynced, HostNotSynced, Stop, StopFails, Report, InCourse
  <2>10. CASE Scan \/ Scanned \/ ScanFails \/ ScanAbort \/ Connect \/ Connected \/ ConnectFails
    BY <1>1, <2>10 DEF Scan, Scanned, ScanFails, ScanAbort, Connect, Connected, ConnectFails,
      InCourse
  <2>11. CASE ConnectAbort \/ Abandoned \/ Secured \/ NotSecured \/ Failed \/ Reread \/ Unheard
    BY <1>1, <2>11 DEF ConnectAbort, Abandoned, Secured, NotSecured, Failed, Reread, Unheard,
      Leaves, InCourse
  <2>12. CASE Disconnect \/ Retry \/ Finish
    BY <1>1, <2>12 DEF Disconnect, Drop, Retry, Finish, InCourse
  <2>13. CASE Reset \/ LinkUp \/ LinkRefused \/ LinkLost
    BY <1>1, <2>13 DEF Reset, LinkUp, LinkRefused, LinkLost, Types, NimbleType
  <2> QED
    BY <2>2, <2>3, <2>4, <2>5, <2>6, <2>7, <2>8, <2>9, <2>10, <2>11, <2>12, <2>13
    DEF Next, Client, Host, Device
<1> QED
  BY <1>1, <1>2, <1>3 DEF Running, Granting

\* The invariant of the account.
AccountInv == EarlyInv /\ LinkedInv /\ CreditInv

\* It holds at the start, where there is no connection.
LEMMA AccountInit == Init => AccountInv
BY DEF Init, AccountInv, EarlyInv, LinkedInv, CreditInv, Early, Running, InCourse

\* Every step keeps it.
LEMMA AccountNext == Inv /\ AccountInv /\ [Next]_vars => AccountInv'
<1>1. ASSUME Inv, AccountInv, Next PROVE AccountInv'
  <2>1. Types /\ StageInv /\ HostInv /\ LinkInv /\ ProcInv /\ EarlyInv /\ LinkedInv /\ CreditInv
    BY <1>1 DEF Inv, AccountInv
  <2> QED
    BY <1>1, <2>1, EarlyKept, LinkedKept, CreditKept DEF AccountInv
<1>2. ASSUME AccountInv, UNCHANGED vars PROVE AccountInv'
  <2>1. Native' = Native /\ Stage' = Stage
    BY <1>2, StageStays, PlanKept DEF vars
  <2>2. Early' = Early /\ Quiet' = Quiet /\ Running' = Running
    BY <1>2, <2>1 DEF vars, Early, Quiet, Running
  <2>3. Incoming' = Incoming /\ Outgoing' = Outgoing /\ Current' = Current
    BY <1>2, <2>1 DEF vars, Incoming, Outgoing, Current
  <2> QED
    BY <1>2, <2>2, <2>3 DEF vars, AccountInv, EarlyInv, LinkedInv, CreditInv
<1> QED
  BY <1>1, <1>2

(* While the session runs no credit is lost or invented in either direction, *)
(* however answers, returned credits, keep-alives and the notifications of   *)
(* the device cross on the link, for any window, threshold and limit.        *)
THEOREM CreditsKept == Spec => []CreditsConserved
<1>1. Inv /\ AccountInv => CreditsConserved
  <2> SUFFICES ASSUME Inv, AccountInv, InSession PROVE Incoming = Window /\ Outgoing = TxLimit
    BY DEF CreditsConserved
  <2>1. Types /\ StageInv /\ pc \in InCourse /\ pc \in Speaking
    BY DEF Inv, InSession, InCourse, Speaking
  <2>2. Native /\ step \in Nat /\ step > Opening
    BY <2>1, Whereabouts DEF InSession, Opening
  <2> QED
    BY <2>1, <2>2 DEF AccountInv, CreditInv, Running, InSession, Granting, Opening
<1> QED
  BY <1>1, AccountInit, AccountNext, ClientInvariant, PTL DEF Spec

=============================================================================
