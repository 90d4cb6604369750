-------------------------- MODULE DeviceLoopProofs --------------------------
(***************************************************************************)
(* Proofs about DeviceLoop, for all times, action sets, queue sizes and    *)
(* numbers of events.                                                      *)
(***************************************************************************)
EXTENDS DeviceLoop, TLAPS

-----------------------------------------------------------------------------
(* The inductive invariant, in one part for each actor.                    *)

HistoryFields ==
    /\ history = [fires |-> history.fires, owed |-> history.owed, sent |-> history.sent,
                  told |-> history.told, events |-> history.events]
    /\ history.fires \in Nat

(* A pulse is the last order, and its timer ends when it is over.          *)
RelayInv ==
    /\ relay \in RelayType
    /\ order \in [action : {"relay_on", "relay_off", "relay_pulse"}, age : 0..PulseTime]
    /\ relay.pulse <=> order.action = "relay_pulse" /\ order.age < PulseTime
    /\ relay.left = IF relay.pulse THEN PulseTime - order.age ELSE 0
    /\ relay.on <=> order.action = "relay_on" \/ relay.pulse

(* What is left to wait and what the edge has waited make up its time; an   *)
(* edge whose action has happened waits for nothing.                       *)
EdgeInv ==
    /\ contact \in ContactType /\ input \in InputType
    /\ history.fires > 0 => ~input.fresh /\ ~input.pending
    /\ input.pending /\ ~input.fresh => input.age + input.wait >= Hold[input.rising]

QueueInv ==
    /\ queue \in QueueType
    /\ history.owed = Queued

(* The companion has a command exactly while the loop waits for its result. *)
BleInv ==
    /\ ble \in BleType /\ phase \in {"idle", "running", "done"}
    /\ ble.busy <=> phase # "idle"
    /\ phase = "done" => outcome \in Results

UplinkInv ==
    /\ uplink \in UplinkType /\ mac \in MacType /\ reboot \in 0..NoReboot
    /\ uplink.inFlight <=> mac.sends = "status"

(* A status tells the state of the Bluetooth command and of the relay.      *)
Tells(status) ==
    /\ ~ble.pending /\ ~ble.busy => status.result = ble.result
    /\ relay.report /\ ~relay.expired => status.on = relay.on

(* What was heard last is told by that status, and what has not changed     *)
(* since a status went out by that one.                                    *)
KnowsInv ==
    /\ ~uplink.due /\ ~uplink.busyDue => Tells(history.told)
    /\ uplink.inFlight /\ ~uplink.dueAfter /\ ~uplink.busySent /\ ~uplink.busyDue =>
          Tells(history.sent)

PlaceInv ==
    pc \in {"top", "input", "remote", "network", "send", "companion", "portal", "result",
            "send again", "reboot", "delay"}

LoopInv ==
    /\ HistoryFields /\ RelayInv /\ EdgeInv /\ QueueInv
    /\ BleInv /\ UplinkInv /\ KnowsInv /\ PlaceInv

-----------------------------------------------------------------------------
(* Numbers.                                                                *)

LEMMA Times ==
    /\ Debounce \in Nat /\ PulseTime \in Nat /\ PulseTime > 0
    /\ Hold[TRUE] \in Nat /\ Hold[FALSE] \in Nat /\ MaxHold \in Nat
    /\ \A level \in BOOLEAN : Hold[level] \in Nat /\ Hold[level] <= MaxHold
<1>1. /\ Debounce \in Nat /\ PulseTime \in Nat /\ PulseTime > 0
      /\ Hold \in [BOOLEAN -> Nat]
  BY TimesAssumption
<1>2. Hold[TRUE] \in Nat /\ Hold[FALSE] \in Nat
  <2>1. \A level \in BOOLEAN : Hold[level] \in Nat
    BY <1>1
  <2>2. QED
    BY <2>1, Zenon
<1>3. MaxHold \in Nat /\ Hold[TRUE] <= MaxHold /\ Hold[FALSE] <= MaxHold
  <2>1. \A a, b \in Nat : /\ (IF a > b THEN a ELSE b) \in Nat
                           /\ a <= (IF a > b THEN a ELSE b) /\ b <= (IF a > b THEN a ELSE b)
    OBVIOUS
  <2>2. QED
    BY <1>2, <2>1, Zenon DEF MaxHold
<1>4. \A level \in BOOLEAN : Hold[level] \in Nat /\ Hold[level] <= MaxHold
  <2>1. \A level \in BOOLEAN : level = TRUE \/ level = FALSE
    OBVIOUS
  <2>2. QED
    BY <1>2, <1>3, <2>1, Zenon
<1>5. QED
  BY <1>1, <1>2, <1>3, <1>4

LEMMA Round ==
    ASSUME NEW w \in 0..QueueSize - 1, NEW r \in 0..QueueSize - 1
    PROVE  /\ (w + 1) % QueueSize = IF w + 1 = QueueSize THEN 0 ELSE w + 1
           /\ (w + QueueSize - r) % QueueSize = IF w >= r THEN w - r ELSE w + QueueSize - r
<1>1. QueueSize \in Nat /\ QueueSize > 1
  BY TimesAssumption
<1>2. \A k \in 0..QueueSize - 1 : k % QueueSize = k /\ (k + QueueSize) % QueueSize = k
  BY <1>1
<1>3. QED
  BY <1>1, <1>2

-----------------------------------------------------------------------------
(* The relay.                                                              *)

LEMMA SetRelayInv ==
    ASSUME RelayInv,
           NEW action \in {"relay_on", "relay_off", "relay_pulse"},
           NEW report \in BOOLEAN, NEW timerRuns \in TimerRuns(action),
           relay' = SetRelay(action, report, timerRuns),
           order' = [action |-> IF timerRuns THEN action ELSE "relay_off", age |-> 0]
    PROVE  RelayInv'
<1>1. timerRuns \in BOOLEAN /\ (action # "relay_pulse" => timerRuns)
  BY DEF TimerRuns
<1> DEFINE on == action = "relay_on" \/ (action = "relay_pulse" /\ timerRuns)
           pulse == action = "relay_pulse" /\ timerRuns
           left == IF action = "relay_pulse" /\ timerRuns THEN PulseTime ELSE 0
<1>a. on \in BOOLEAN /\ pulse \in BOOLEAN /\ left \in 0..PulseTime
  BY <1>1, Times
<1>b. relay' = [relay EXCEPT !.on = on, !.pulse = pulse, !.left = left, !.report = report]
  BY DEF SetRelay
<1>2. relay' \in RelayType
  <2> HIDE DEF on, pulse, left
  <2>1. QED
    BY <1>a, <1>b, Zenon DEF RelayInv, RelayType
<1>3. order' \in [action : {"relay_on", "relay_off", "relay_pulse"}, age : 0..PulseTime]
  BY <1>1, Times
<1>4. /\ relay'.on <=> action = "relay_on" \/ (action = "relay_pulse" /\ timerRuns)
      /\ relay'.pulse <=> action = "relay_pulse" /\ timerRuns
      /\ relay'.left = IF action = "relay_pulse" /\ timerRuns THEN PulseTime ELSE 0
  BY <1>1 DEF RelayInv, RelayType, SetRelay
<1>5. /\ order'.action = IF timerRuns THEN action ELSE "relay_off"
      /\ order'.age = 0
  OBVIOUS
<1>6. QED
  BY <1>1, <1>2, <1>3, <1>4, <1>5, Times DEF RelayInv

LEMMA ExecuteRelay ==
    ASSUME RelayInv, NEW actions, ExecuteActions(actions)
    PROVE  RelayInv'
<1>1. CASE UNCHANGED <<relay, order>>
  BY <1>1 DEF RelayInv
<1>2. CASE \E action \in RelayActions(actions) : \E timerRuns \in TimerRuns(action) :
             /\ relay' = SetRelay(action, "uplink" \in actions, timerRuns)
             /\ order' = [action |-> IF timerRuns THEN action ELSE "relay_off", age |-> 0]
  <2>1. ("uplink" \in actions) \in BOOLEAN
    OBVIOUS
  <2> DEFINE Done(action, timerRuns) ==
             /\ relay' = SetRelay(action, "uplink" \in actions, timerRuns)
             /\ order' = [action |-> IF timerRuns THEN action ELSE "relay_off", age |-> 0]
  <2>a. PICK action \in RelayActions(actions) :
          \E timerRuns \in TimerRuns(action) : Done(action, timerRuns)
    BY <1>2
  <2>2. PICK timerRuns \in TimerRuns(action) : Done(action, timerRuns)
    BY <2>a
  <2>3. action \in {"relay_on", "relay_off", "relay_pulse"}
    BY DEF RelayActions
  <2>4. QED
    BY <2>1, <2>2, <2>3, SetRelayInv, Zenon
<1>3. QED
  BY <1>1, <1>2 DEF ExecuteActions

LEMMA TickRelay ==
    ASSUME RelayInv, NEW level \in BOOLEAN, Tick(level)
    PROVE  RelayInv'
<1>1. /\ relay' = IF relay.left = 1 THEN RelayPulseExpired(relay)
                                    ELSE [relay EXCEPT !.left = Less(@)]
      /\ order' = [order EXCEPT !.age = More(@, PulseTime)]
  BY DEF Tick
<1>2. /\ order'.action = order.action /\ order'.age = More(order.age, PulseTime)
      /\ order' \in [action : {"relay_on", "relay_off", "relay_pulse"}, age : 0..PulseTime]
  BY <1>1, Times DEF RelayInv, More
<1>3. CASE relay.left = 1
  <2>1. relay.pulse /\ PulseTime - order.age = 1
    BY <1>3 DEF RelayInv
  <2>2. relay' = [relay EXCEPT !.on = FALSE, !.pulse = FALSE, !.left = 0, !.expired = TRUE]
    BY <1>1, <1>3, <2>1 DEF RelayPulseExpired
  <2>3. relay' \in RelayType /\ ~relay'.on /\ ~relay'.pulse /\ relay'.left = 0
    <3>1. 0 \in 0..PulseTime /\ FALSE \in BOOLEAN /\ TRUE \in BOOLEAN
      BY Times
    <3>2. relay' \in RelayType
      BY <2>2, <3>1, Zenon DEF RelayInv, RelayType
    <3>3. QED
      BY <2>2, <3>2 DEF RelayInv, RelayType
  <2>4. order.action = "relay_pulse" /\ order'.age = PulseTime
    BY <1>2, <2>1, Times DEF RelayInv, More
  <2>5. QED
    BY <1>2, <2>3, <2>4, Times DEF RelayInv
<1>4. CASE relay.left # 1
  <2>1. /\ relay' \in RelayType /\ relay'.on = relay.on /\ relay'.pulse = relay.pulse
        /\ relay'.left = Less(relay.left)
    BY <1>1, <1>4, Times DEF RelayInv, RelayType, Less
  <2>2. QED
    BY <1>2, <1>4, <2>1, Times DEF RelayInv, RelayType, More, Less
<1>5. QED
  BY <1>3, <1>4

LEMMA TopRelay ==
    ASSUME RelayInv, Top
    PROVE  RelayInv'
<1>1. relay' = [relay EXCEPT !.expired = FALSE] /\ order' = order
  BY DEF Top
<1>2. /\ relay' \in RelayType /\ relay'.on = relay.on /\ relay'.pulse = relay.pulse
      /\ relay'.left = relay.left
  BY <1>1 DEF RelayInv, RelayType
<1>3. QED
  BY <1>1, <1>2 DEF RelayInv

LEMMA RelaySame ==
    ASSUME RelayInv, UNCHANGED <<relay, order>>
    PROVE  RelayInv'
BY DEF RelayInv

LEMMA RelayStart ==
    ASSUME relay = RelayOff, order = NoOrder
    PROVE  RelayInv
<1>1. relay \in RelayType
  BY Times DEF RelayOff, RelayType
<1>2. order \in [action : {"relay_on", "relay_off", "relay_pulse"}, age : 0..PulseTime]
  BY Times DEF NoOrder
<1>3. QED
  BY <1>1, <1>2 DEF RelayInv, RelayOff, NoOrder

-----------------------------------------------------------------------------
(* The contact and its edges.                                              *)

LEMMA TickEdge ==
    ASSUME EdgeInv, HistoryFields, NEW level \in BOOLEAN, Tick(level)
    PROVE  EdgeInv' /\ HistoryFields'
<1> DEFINE edge == contact'.stable # contact.stable
<1>1. contact' \in ContactType
  <2>1. contact' = Sampled(level)
    BY DEF Tick
  <2> DEFINE age == IF level # contact.raw THEN 0 ELSE More(contact.age, Debounce)
             stable == IF age >= Debounce THEN level ELSE contact.stable
  <2>2. age \in 0..Debounce
    BY Times DEF EdgeInv, ContactType, More
  <2>3. stable \in BOOLEAN
    BY Zenon DEF EdgeInv, ContactType
  <2>4. contact' = [raw |-> level, age |-> age, stable |-> stable]
    BY <2>1 DEF Sampled
  <2> HIDE DEF age, stable
  <2>5. QED
    BY <2>2, <2>3, <2>4 DEF ContactType
<1>2. /\ input' = [input EXCEPT !.fresh = @ \/ edge,
                                !.age = IF edge THEN 0 ELSE More(@, MaxHold),
                                !.wait = Less(@)]
      /\ history' = [history EXCEPT !.fires = IF edge THEN 0 ELSE @,
                                    !.events = IF level # contact.raw THEN @ + 1 ELSE @]
  BY DEF Tick
<1> HIDE DEF edge
<1>3. /\ input'.fresh = (input.fresh \/ edge)
      /\ input'.age = IF edge THEN 0 ELSE More(input.age, MaxHold)
      /\ input'.wait = Less(input.wait)
      /\ input'.pending = input.pending /\ input'.rising = input.rising
  BY <1>2 DEF EdgeInv, InputType
<1>4. input' \in InputType
  <2> DEFINE fresh == input.fresh \/ edge
             age == IF edge THEN 0 ELSE More(input.age, MaxHold)
             wait == Less(input.wait)
  <2>1. fresh \in BOOLEAN
    BY DEF EdgeInv, InputType
  <2>2. age \in 0..MaxHold /\ wait \in 0..MaxHold
    BY Times DEF EdgeInv, InputType, More, Less
  <2>3. input' = [input EXCEPT !.fresh = fresh, !.age = age, !.wait = wait]
    BY <1>2
  <2> HIDE DEF fresh, age, wait
  <2>4. QED
    BY <2>1, <2>2, <2>3, Zenon DEF EdgeInv, InputType
<1>5. HistoryFields' /\ history'.fires = IF edge THEN 0 ELSE history.fires
  <2> DEFINE fires == IF edge THEN 0 ELSE history.fires
             events == IF level # contact.raw THEN history.events + 1 ELSE history.events
  <2>1. history' = [history EXCEPT !.fires = fires, !.events = events]
    BY <1>2
  <2>2. fires \in Nat
    BY DEF HistoryFields
  <2> HIDE DEF fires, events
  <2>3. history' = [fires |-> fires, owed |-> history.owed, sent |-> history.sent,
                    told |-> history.told, events |-> events]
    BY <2>1 DEF HistoryFields
  <2>4. HistoryFields' /\ history'.fires = fires
    BY <2>2, <2>3 DEF HistoryFields
  <2>5. QED
    BY <2>4 DEF fires
<1>6. input'.pending /\ ~input'.fresh => input'.age + input'.wait >= Hold[input'.rising]
  <2>1. SUFFICES ASSUME input'.pending, ~input'.fresh
                 PROVE  input'.age + input'.wait >= Hold[input'.rising]
    OBVIOUS
  <2>2. ~edge /\ input.pending /\ ~input.fresh
    BY <1>3, <2>1
  <2>3. input.age + input.wait >= Hold[input.rising]
    BY <2>2 DEF EdgeInv
  <2>4. Hold[input.rising] \in Nat /\ Hold[input.rising] <= MaxHold
    BY Times DEF EdgeInv, InputType
  <2>5. input.age \in 0..MaxHold /\ input.wait \in 0..MaxHold
    BY DEF EdgeInv, InputType
  <2>6. input'.age = More(input.age, MaxHold) /\ input'.wait = Less(input.wait)
    BY <1>3, <2>2
  <2>7. More(input.age, MaxHold) + Less(input.wait) >= Hold[input.rising]
    BY <2>3, <2>4, <2>5, Times DEF More, Less
  <2>8. QED
    BY <1>3, <2>6, <2>7
<1>7. history'.fires > 0 => ~input'.fresh /\ ~input'.pending
  <2>1. SUFFICES ASSUME history'.fires > 0 PROVE ~input'.fresh /\ ~input'.pending
    OBVIOUS
  <2>2. ~edge /\ history.fires > 0
    BY <1>5, <2>1
  <2>3. ~input.fresh /\ ~input.pending
    BY <2>2 DEF EdgeInv
  <2>4. QED
    BY <1>3, <2>2, <2>3
<1>8. QED
  BY <1>1, <1>4, <1>5, <1>6, <1>7 DEF EdgeInv

LEMMA ArmedInv ==
    ASSUME EdgeInv
    PROVE  /\ Armed \in InputType /\ ~Armed.fresh
           /\ Armed.age = input.age
           /\ Armed.pending => /\ input.fresh \/ input.pending
                              /\ Armed.age + Armed.wait >= Hold[Armed.rising]
<1>1. CASE input.fresh
  <2> DEFINE wait == IF Hold[contact.stable] > input.age
                       THEN Hold[contact.stable] - input.age ELSE 0
  <2>1. /\ contact.stable \in BOOLEAN /\ input.age \in 0..MaxHold
    BY DEF EdgeInv, ContactType, InputType
  <2>2. Hold[contact.stable] \in Nat /\ Hold[contact.stable] <= MaxHold
    BY <2>1, Times
  <2>3. wait \in 0..MaxHold /\ input.age + wait >= Hold[contact.stable]
    BY <2>1, <2>2, Times
  <2>4. Armed = [input EXCEPT !.fresh = FALSE, !.pending = TRUE, !.rising = contact.stable,
                              !.wait = wait]
    BY <1>1 DEF Armed
  <2> HIDE DEF wait
  <2>5. Armed \in InputType
    BY <2>1, <2>3, <2>4, Zenon DEF EdgeInv, InputType
  <2>6. /\ ~Armed.fresh /\ Armed.age = input.age /\ Armed.wait = wait
        /\ Armed.rising = contact.stable
    BY <2>4 DEF EdgeInv, InputType
  <2>7. QED
    BY <1>1, <2>3, <2>5, <2>6
<1>2. CASE ~input.fresh
  <2>1. Armed = input
    BY <1>2 DEF Armed
  <2>2. QED
    BY <1>2, <2>1 DEF EdgeInv
<1>3. QED
  BY <1>1, <1>2

(* updateContact keeps the invariant, and an action it starts is due.       *)
LEMMA UpdateContactEdge ==
    ASSUME EdgeInv, HistoryFields, UpdateContact
    PROVE  /\ EdgeInv' /\ HistoryFields'
           /\ history'.fires > history.fires =>
                 /\ history.fires = 0 /\ input.age >= Hold[contact.stable]
                 /\ contact.raw = contact.stable
<1>1. contact' = contact
  BY DEF UpdateContact
<1>2. CASE reboot # NoReboot
  <2>1. input' = [input EXCEPT !.fresh = FALSE, !.pending = FALSE] /\ history' = history
    BY <1>2 DEF UpdateContact
  <2>2. FALSE \in BOOLEAN
    OBVIOUS
  <2>3. input' \in InputType
    BY <2>1, <2>2, Zenon DEF EdgeInv, InputType
  <2>4. ~input'.fresh /\ ~input'.pending
    BY <2>1 DEF EdgeInv, InputType
  <2>5. EdgeInv'
    BY <1>1, <2>3, <2>4 DEF EdgeInv
  <2>6. history'.fires = history.fires /\ HistoryFields'
    BY <2>1 DEF HistoryFields
  <2>7. QED
    BY <2>5, <2>6 DEF HistoryFields
<1>3. CASE reboot = NoReboot
  <2> DEFINE stale == contact.raw = contact.stable /\ Armed.rising # contact.stable
             pending == Armed.pending /\ ~stale /\ ~Claims(Armed)
  <2>1. input' = [Armed EXCEPT !.pending = pending]
    BY <1>3 DEF UpdateContact
  <2>2. IF Claims(Armed) THEN history' = [history EXCEPT !.fires = @ + 1]
                         ELSE history' = history
    BY <1>3 DEF UpdateContact
  <2>a. pending \in BOOLEAN
    BY ArmedInv DEF InputType
  <2>b. pending => Armed.pending /\ ~Claims(Armed)
    OBVIOUS
  <2> HIDE DEF pending
  <2>3. input' \in InputType
    BY <2>1, <2>a, ArmedInv, Zenon DEF InputType
  <2>4. /\ input'.pending = pending /\ ~input'.fresh /\ input'.age = Armed.age
        /\ input'.wait = Armed.wait /\ input'.rising = Armed.rising
    BY <2>1, ArmedInv DEF InputType
  <2>5. CASE Claims(Armed)
    <3>1. Armed.pending /\ Armed.rising = contact.stable /\ Armed.wait = 0
          /\ contact.raw = contact.stable
      BY <2>5 DEF Claims
    <3>2. history.fires = 0
      BY <3>1, ArmedInv DEF EdgeInv, HistoryFields
    <3>3. input.age >= Hold[contact.stable]
      BY <3>1, ArmedInv DEF InputType
    <3>4. HistoryFields' /\ ~input'.pending
      BY <2>2, <2>4, <2>5, <2>b DEF HistoryFields
    <3>5. EdgeInv'
      BY <1>1, <2>3, <2>4, <3>4 DEF EdgeInv
    <3>6. QED
      BY <3>1, <3>2, <3>3, <3>4, <3>5
  <2>6. CASE ~Claims(Armed)
    <3>1. history' = history
      BY <2>2, <2>6
    <3>2. HistoryFields' /\ history'.fires = history.fires
      BY <3>1 DEF HistoryFields
    <3>3. history'.fires > 0 => ~input'.pending
      BY <2>4, <2>b, <3>2, ArmedInv DEF EdgeInv
    <3>4. input'.pending => input'.age + input'.wait >= Hold[input'.rising]
      BY <2>4, <2>b, ArmedInv
    <3>5. EdgeInv'
      BY <1>1, <2>3, <2>4, <3>3, <3>4 DEF EdgeInv
    <3>6. QED
      BY <3>2, <3>5 DEF HistoryFields
  <2>7. QED
    BY <2>5, <2>6
<1>4. QED
  BY <1>2, <1>3

LEMMA EdgeSame ==
    ASSUME EdgeInv, UNCHANGED <<contact, input>>, history'.fires = history.fires
    PROVE  EdgeInv'
BY DEF EdgeInv

LEMMA EdgeStart ==
    ASSUME NEW level \in BOOLEAN, contact = Steady(level), input = NoEdge, history.fires = 0
    PROVE  EdgeInv
<1>1. contact \in ContactType
  BY Times DEF Steady, ContactType
<1>2. input \in InputType /\ ~input.fresh /\ ~input.pending
  BY Times DEF NoEdge, InputType
<1>3. QED
  BY <1>1, <1>2 DEF EdgeInv

-----------------------------------------------------------------------------
(* The queue of downlinked commands.                                       *)

LEMMA RemoteQueue ==
    ASSUME QueueInv, HistoryFields, Remote
    PROVE  QueueInv' /\ HistoryFields' /\ history'.fires = history.fires
<1>1. CASE queue.read # queue.write
  <2>1. /\ queue' = [queue EXCEPT !.read = (@ + 1) % QueueSize, !.slot[queue.read] = {}]
        /\ history' = [history EXCEPT !.owed = Less(@)]
    BY <1>1 DEF Remote
  <2> DEFINE read == (queue.read + 1) % QueueSize
             slot == [queue.slot EXCEPT ![queue.read] = {}]
  <2>2. /\ queue.read \in 0..QueueSize - 1 /\ queue.write \in 0..QueueSize - 1
        /\ queue.slot \in [0..QueueSize - 1 -> Commands \cup {{}}]
    BY DEF QueueInv, QueueType
  <2>3. slot \in [0..QueueSize - 1 -> Commands \cup {{}}]
    BY <2>2
  <2>4. read \in 0..QueueSize - 1
    BY <2>2, Round, TimesAssumption
  <2>5. queue' = [queue EXCEPT !.read = read, !.slot = slot]
    BY <2>1 DEF QueueInv, QueueType
  <2>6. (queue.write + QueueSize - read) % QueueSize
          = Less((queue.write + QueueSize - queue.read) % QueueSize)
    <3>1. read = IF queue.read + 1 = QueueSize THEN 0 ELSE queue.read + 1
      BY <2>2, Round
    <3>2. (queue.write + QueueSize - read) % QueueSize
            = IF queue.write >= read THEN queue.write - read ELSE queue.write + QueueSize - read
      BY <2>2, <2>4, Round
    <3>3. (queue.write + QueueSize - queue.read) % QueueSize
            = IF queue.write >= queue.read THEN queue.write - queue.read
                                           ELSE queue.write + QueueSize - queue.read
      BY <2>2, Round
    <3> DEFINE before == (queue.write + QueueSize - queue.read) % QueueSize
               after == (queue.write + QueueSize - read) % QueueSize
               w == queue.write
               r == queue.read
    <3>4. /\ before = IF w >= r THEN w - r ELSE w + QueueSize - r
          /\ after = IF w >= read THEN w - read ELSE w + QueueSize - read
          /\ read = IF r + 1 = QueueSize THEN 0 ELSE r + 1
          /\ w \in 0..QueueSize - 1 /\ r \in 0..QueueSize - 1 /\ w # r
          /\ QueueSize \in Nat /\ QueueSize > 1
      BY <1>1, <2>2, <3>1, <3>2, <3>3, TimesAssumption
    <3> HIDE DEF before, after, read, w, r
    <3>5. after = Less(before)
      BY <3>4 DEF Less
    <3>6. QED
      BY <3>5 DEF before, after
  <2> HIDE DEF read, slot
  <2>7. queue' \in QueueType /\ queue'.read = read /\ queue'.write = queue.write
    BY <2>2, <2>3, <2>4, <2>5 DEF QueueInv, QueueType
  <2>8. history'.owed = Less(history.owed) /\ history'.fires = history.fires /\ HistoryFields'
    BY <2>1 DEF HistoryFields
  <2>9. QED
    BY <2>6, <2>7, <2>8 DEF QueueInv, Queued
<1>2. CASE queue.read = queue.write
  BY <1>2 DEF Remote, QueueInv, Queued, HistoryFields
<1>3. QED
  BY <1>1, <1>2

LEMMA ReceiveQueue ==
    ASSUME QueueInv, HistoryFields, NEW command \in Commands \cup {{}}, NEW again \in BOOLEAN,
           Receive(command, again)
    PROVE  QueueInv' /\ HistoryFields' /\ history'.fires = history.fires
<1> DEFINE fits == command # {} /\ ~Full
<1>1. ~again
  BY DEF Receive, Known
<1>2. /\ queue' = [queue EXCEPT
                     !.heard = TRUE,
                     !.slot = IF fits THEN [@ EXCEPT ![queue.write] = command] ELSE @,
                     !.write = IF fits THEN (@ + 1) % QueueSize ELSE @]
      /\ history' = [history EXCEPT !.events = @ + 1, !.owed = IF fits THEN @ + 1 ELSE @]
  BY <1>1 DEF Receive
<1>3. /\ queue.read \in 0..QueueSize - 1 /\ queue.write \in 0..QueueSize - 1
      /\ queue.slot \in [0..QueueSize - 1 -> Commands \cup {{}}]
  BY DEF QueueInv, QueueType
<1>4. CASE fits
  <2> DEFINE write == (queue.write + 1) % QueueSize
             slot == [queue.slot EXCEPT ![queue.write] = command]
  <2>1. slot \in [0..QueueSize - 1 -> Commands \cup {{}}]
    BY <1>3
  <2>2. write \in 0..QueueSize - 1 /\ write # queue.read
    BY <1>3, <1>4, Round, TimesAssumption DEF Full
  <2>3. (write + QueueSize - queue.read) % QueueSize
          = ((queue.write + QueueSize - queue.read) % QueueSize) + 1
    <3>1. write = IF queue.write + 1 = QueueSize THEN 0 ELSE queue.write + 1
      BY <1>3, Round
    <3>2. (write + QueueSize - queue.read) % QueueSize
            = IF write >= queue.read THEN write - queue.read ELSE write + QueueSize - queue.read
      BY <1>3, <2>2, Round
    <3>3. (queue.write + QueueSize - queue.read) % QueueSize
            = IF queue.write >= queue.read THEN queue.write - queue.read
                                           ELSE queue.write + QueueSize - queue.read
      BY <1>3, Round
    <3> DEFINE before == (queue.write + QueueSize - queue.read) % QueueSize
               after == (write + QueueSize - queue.read) % QueueSize
               w == queue.write
               r == queue.read
    <3>4. /\ before = IF w >= r THEN w - r ELSE w + QueueSize - r
          /\ after = IF write >= r THEN write - r ELSE write + QueueSize - r
          /\ write = IF w + 1 = QueueSize THEN 0 ELSE w + 1
          /\ w \in 0..QueueSize - 1 /\ r \in 0..QueueSize - 1 /\ write # r
          /\ QueueSize \in Nat /\ QueueSize > 1
      BY <1>3, <2>2, <3>1, <3>2, <3>3, TimesAssumption
    <3> HIDE DEF before, after, write, w, r
    <3>5. after = before + 1
      BY <3>4
    <3>6. QED
      BY <3>5 DEF before, after
  <2>4. queue' = [queue EXCEPT !.heard = TRUE, !.slot = slot, !.write = write]
    BY <1>2, <1>4
  <2>5. TRUE \in BOOLEAN
    OBVIOUS
  <2> HIDE DEF write, slot
  <2>6. queue' \in QueueType
    BY <2>1, <2>2, <2>4, <2>5, Zenon DEF QueueInv, QueueType
  <2>7. queue'.read = queue.read /\ queue'.write = write
    BY <2>4 DEF QueueInv, QueueType
  <2>8. /\ history'.owed = history.owed + 1 /\ history'.fires = history.fires
        /\ HistoryFields'
    BY <1>2, <1>4 DEF HistoryFields
  <2>9. QED
    BY <2>3, <2>6, <2>7, <2>8 DEF QueueInv, Queued
<1>5. CASE ~fits
  <2>1. queue' = [queue EXCEPT !.heard = TRUE]
    BY <1>2, <1>5 DEF QueueInv, QueueType
  <2>2. queue' \in QueueType /\ queue'.read = queue.read /\ queue'.write = queue.write
    BY <2>1 DEF QueueInv, QueueType
  <2>3. history'.owed = history.owed /\ history'.fires = history.fires /\ HistoryFields'
    BY <1>2, <1>5 DEF HistoryFields
  <2>4. QED
    BY <2>2, <2>3 DEF QueueInv, Queued
<1>6. QED
  BY <1>4, <1>5

LEMMA QueueSame ==
    ASSUME QueueInv, queue' = queue, history'.owed = history.owed
    PROVE  QueueInv'
BY DEF QueueInv, Queued

LEMMA QueueStart ==
    ASSUME queue = EmptyQueue, history.owed = 0
    PROVE  QueueInv
<1>1. QueueSize \in Nat /\ QueueSize > 1 /\ 0 \in 0..QueueSize - 1
  BY TimesAssumption
<1>2. queue \in QueueType /\ queue.write = 0 /\ queue.read = 0
  BY <1>1 DEF EmptyQueue, QueueType
<1>3. Queued = 0
  BY <1>1, <1>2, Round DEF Queued
<1>4. QED
  BY <1>2, <1>3 DEF QueueInv

-----------------------------------------------------------------------------
(* Status uplinks.                                                         *)

LEMMA RequestedFacts ==
    ASSUME NEW u \in UplinkType
    PROVE  /\ Requested(u) \in UplinkType
           /\ Requested(u).due /\ Requested(u).dueAfter = u.inFlight
           /\ Requested(u).inFlight = u.inFlight
           /\ BusyEvent(u) \in UplinkType
           /\ BusyEvent(u).busyDue /\ BusyEvent(u).inFlight = u.inFlight
<1>1. TRUE \in BOOLEAN /\ u.inFlight \in BOOLEAN
  BY DEF UplinkType
<1>2. Requested(u) \in UplinkType
  BY <1>1, Zenon DEF Requested, UplinkType
<1>3. BusyEvent(u) \in UplinkType
  BY <1>1, Zenon DEF BusyEvent, UplinkType
<1>4. /\ Requested(u).due /\ Requested(u).dueAfter = u.inFlight
      /\ Requested(u).inFlight = u.inFlight
      /\ BusyEvent(u).busyDue /\ BusyEvent(u).inFlight = u.inFlight
  BY DEF Requested, BusyEvent, UplinkType
<1>5. QED
  BY <1>2, <1>3, <1>4

(* After a request nothing is told that need hold.                         *)
LEMMA RequestedKnows ==
    ASSUME UplinkInv, NEW u \in {uplink, BusyEvent(uplink)}, uplink' = Requested(u),
           UNCHANGED <<mac, reboot>>
    PROVE  UplinkInv' /\ KnowsInv'
<1>1. u \in UplinkType /\ u.inFlight = uplink.inFlight
  BY RequestedFacts DEF UplinkInv
<1>2. /\ uplink' \in UplinkType /\ uplink'.due
      /\ uplink'.dueAfter = uplink.inFlight /\ uplink'.inFlight = uplink.inFlight
  BY <1>1, RequestedFacts
<1>3. QED
  BY <1>2 DEF UplinkInv, KnowsInv

(* What need hold is told as before.                                       *)
LEMMA SameKnows ==
    ASSUME KnowsInv, uplink' = uplink,
           history'.told = history.told, history'.sent = history.sent,
           \A status : Tells(status) => Tells(status)'
    PROVE  KnowsInv'
BY DEF KnowsInv

LEMMA TellsSame ==
    ASSUME UNCHANGED <<ble, relay>>
    PROVE  \A status : Tells(status) => Tells(status)'
BY DEF Tells

LEMMA ExecuteInv ==
    ASSUME RelayInv, BleInv, UplinkInv, KnowsInv, NEW actions, ExecuteActions(actions),
           UNCHANGED <<phase, outcome, mac, reboot>>,
           history'.told = history.told, history'.sent = history.sent
    PROVE  RelayInv' /\ BleInv' /\ UplinkInv' /\ KnowsInv'
<1> DEFINE report == "uplink" \in actions
           refused == "load" \in actions /\ (ble.pending \/ ble.busy)
<1>1. RelayInv'
  BY ExecuteRelay
<1>2. ble' = IF "load" \in actions /\ ~refused
               THEN [ble EXCEPT !.pending = TRUE, !.result = "not_run"] ELSE ble
  BY DEF ExecuteActions
<1>3. BleInv' /\ (ble' = ble \/ ble'.pending)
  <2>1. CASE ble' = ble
    BY <2>1 DEF BleInv
  <2>2. CASE ble' = [ble EXCEPT !.pending = TRUE, !.result = "not_run"]
    <3>1. TRUE \in BOOLEAN /\ "not_run" \in Seen
      BY DEF Seen
    <3>2. ble' \in BleType
      BY <2>2, <3>1, Zenon DEF BleInv, BleType
    <3>3. ble'.busy = ble.busy /\ ble'.pending
      BY <2>2 DEF BleInv, BleType
    <3>4. QED
      BY <3>2, <3>3 DEF BleInv
  <2>3. QED
    BY <1>2, <2>1, <2>2
<1>4. CASE report
  <2>1. \E u \in {uplink, BusyEvent(uplink)} : uplink' = Requested(u)
    BY <1>4 DEF ExecuteActions, RequestedIf
  <2>2. QED
    BY <1>1, <1>3, <2>1, RequestedKnows
<1>5. CASE ~report
  <2>1. uplink' = uplink
    BY <1>5 DEF ExecuteActions, RequestedIf
  <2>2. UNCHANGED <<relay, order>> \/ ~relay'.report
    <3>1. ASSUME NEW action, NEW timerRuns, relay' = SetRelay(action, report, timerRuns)
          PROVE  ~relay'.report
      BY <1>5, <3>1 DEF SetRelay, RelayInv, RelayType
    <3>2. QED
      BY <3>1 DEF ExecuteActions
  <2>3. \A status : Tells(status) => Tells(status)'
    BY <1>3, <2>2 DEF Tells
  <2>4. KnowsInv'
    BY <2>1, <2>3, SameKnows
  <2>5. UplinkInv'
    BY <2>1 DEF UplinkInv
  <2>6. QED
    BY <1>1, <1>3, <2>4, <2>5
<1>6. QED
  BY <1>4, <1>5

LEMMA SubmittedFacts ==
    ASSUME UplinkInv, NEW accepted \in BOOLEAN
    PROVE  /\ Submitted(accepted) \in UplinkType
           /\ Submitted(accepted).inFlight = accepted
           /\ Submitted(accepted).due = uplink.due
           /\ Submitted(accepted).busyDue = uplink.busyDue
           /\ Submitted(accepted).busySent = (accepted /\ uplink.busyDue)
<1> DEFINE busySent == accepted /\ uplink.busyDue
<1>1. /\ FALSE \in BOOLEAN /\ busySent \in BOOLEAN /\ RetryTime \in 0..RetryTime
  BY TimesAssumption
<1>2. Submitted(accepted) = [uplink EXCEPT !.dueAfter = FALSE, !.busyAfter = FALSE,
                               !.retry = RetryTime, !.manual = FALSE,
                               !.inFlight = accepted, !.busySent = busySent]
  BY DEF Submitted
<1>3. Submitted(accepted) \in UplinkType
  <2> HIDE DEF busySent
  <2>1. QED
    BY <1>1, <1>2, Zenon DEF UplinkInv, UplinkType
<1>4. QED
  BY <1>2, <1>3 DEF UplinkInv, UplinkType

LEMMA EndedFacts ==
    ASSUME UplinkInv
    PROVE  /\ Ended \in UplinkType /\ ~Ended.inFlight
           /\ Ended.due = uplink.due /\ Ended.busyDue = uplink.busyDue
<1>1. FALSE \in BOOLEAN
  OBVIOUS
<1>2. Ended \in UplinkType
  BY <1>1, Zenon DEF UplinkInv, UplinkType, Ended
<1>3. QED
  BY <1>2 DEF UplinkInv, UplinkType, Ended

(* A status that was heard leaves nothing due that has not changed since.   *)
LEMMA HeardFacts ==
    ASSUME UplinkInv
    PROVE  /\ Completed(TRUE) \in UplinkType /\ ~Completed(TRUE).inFlight
           /\ ~Completed(TRUE).due /\ ~Completed(TRUE).busyDue =>
                 ~uplink.dueAfter /\ ~uplink.busySent /\ ~uplink.busyDue
<1> DEFINE busyDue == IF uplink.busySent THEN uplink.busyAfter ELSE uplink.busyDue
           next == [Ended EXCEPT !.due = uplink.dueAfter, !.busyDue = busyDue]
<1>1. uplink.dueAfter \in BOOLEAN /\ busyDue \in BOOLEAN
  BY DEF UplinkInv, UplinkType
<1>2. next \in UplinkType
  <2> HIDE DEF busyDue
  <2>1. QED
    BY <1>1, EndedFacts, Zenon DEF UplinkType
<1>3. ~next.inFlight /\ next.due = uplink.dueAfter /\ next.busyDue = busyDue
  BY EndedFacts DEF UplinkType
<1>4. Completed(TRUE) = RequestedIf(uplink.busySent, next)
  BY EndedFacts DEF Completed, UplinkType
<1> HIDE DEF next
<1>5. CASE uplink.busySent
  <2>1. Completed(TRUE) = Requested(next)
    BY <1>4, <1>5 DEF RequestedIf
  <2>2. QED
    BY <1>2, <1>3, <2>1, RequestedFacts
<1>6. CASE ~uplink.busySent
  <2>1. Completed(TRUE) = next
    BY <1>4, <1>6 DEF RequestedIf
  <2>2. QED
    BY <1>2, <1>3, <1>6, <2>1
<1>7. QED
  BY <1>5, <1>6

-----------------------------------------------------------------------------
(* Every action keeps the invariant.                                       *)

LEMMA HistorySame ==
    ASSUME HistoryFields, history' = history
    PROVE  HistoryFields'
BY DEF HistoryFields

(* A change of nothing but the events that were counted.                    *)
LEMMA HistoryCounted ==
    ASSUME HistoryFields, NEW n, history' = [history EXCEPT !.events = n]
    PROVE  /\ HistoryFields'
           /\ history'.fires = history.fires /\ history'.owed = history.owed
           /\ history'.told = history.told /\ history'.sent = history.sent
<1>1. history' = [fires |-> history.fires, owed |-> history.owed, sent |-> history.sent,
                  told |-> history.told, events |-> n]
  BY DEF HistoryFields
<1>2. QED
  BY <1>1 DEF HistoryFields

LEMMA InitInv == Init => LoopInv
<1> SUFFICES ASSUME Init PROVE LoopInv
  OBVIOUS
<1>1. HistoryFields /\ history.fires = 0 /\ history.owed = 0
  BY DEF Init, HistoryFields
<1>2. RelayInv /\ QueueInv
  BY <1>1, RelayStart, QueueStart DEF Init
<1>3. EdgeInv
  BY <1>1, EdgeStart DEF Init
<1>4. BleInv
  BY DEF Init, Companion!Init, NotRun, BleInv, BleType, Seen
<1>5. UplinkInv /\ KnowsInv
  BY TimesAssumption
     DEF Init, StatusDue, NotJoined, NoReboot, UplinkInv, UplinkType, MacType, KnowsInv
<1>6. PlaceInv
  BY DEF Init, PlaceInv
<1>7. QED
  BY <1>1, <1>2, <1>3, <1>4, <1>5, <1>6 DEF LoopInv

LEMMA RestartInv == ASSUME LoopInv, Restart PROVE LoopInv'
<1>1. HistoryFields' /\ history'.fires = 0 /\ history'.owed = 0
  <2>1. history' = [history EXCEPT !.fires = 0, !.owed = 0, !.sent = Unheard, !.told = Unheard]
    BY DEF Restart
  <2>2. history' = [fires |-> 0, owed |-> 0, sent |-> Unheard, told |-> Unheard,
                    events |-> history.events]
    BY <2>1 DEF LoopInv, HistoryFields
  <2>3. QED
    BY <2>2 DEF HistoryFields
<1>2. relay' = RelayOff /\ order' = NoOrder /\ queue' = EmptyQueue /\ input' = NoEdge
      /\ \E level \in BOOLEAN : contact' = Steady(level)
  BY DEF Restart
<1>3. RelayInv'
  BY <1>2, Times DEF RelayOff, NoOrder, RelayInv, RelayType
<1>4. QueueInv'
  <2>1. QueueSize \in Nat /\ QueueSize > 1 /\ 0 \in 0..QueueSize - 1
    BY TimesAssumption
  <2>2. queue' \in QueueType /\ queue'.write = 0 /\ queue'.read = 0
    BY <1>2, <2>1 DEF EmptyQueue, QueueType
  <2>3. (0 + QueueSize - 0) % QueueSize = 0
    BY <2>1, Round
  <2>4. QED
    BY <1>1, <2>2, <2>3 DEF QueueInv, Queued
<1>5. EdgeInv'
  <2>1. contact' \in ContactType
    BY <1>2, Times DEF Steady, ContactType
  <2>2. input' \in InputType /\ ~input'.fresh /\ ~input'.pending
    BY <1>2, Times DEF NoEdge, InputType
  <2>3. QED
    BY <2>1, <2>2 DEF EdgeInv
<1>6. BleInv'
  BY DEF Restart, NotRun, BleInv, BleType, Seen
<1>7. UplinkInv' /\ KnowsInv'
  BY TimesAssumption
     DEF Restart, StatusDue, NotJoined, NoReboot, UplinkInv, UplinkType, MacType, KnowsInv
<1>8. PlaceInv'
  BY DEF Restart, PlaceInv
<1>9. QED
  BY <1>1, <1>3, <1>4, <1>5, <1>6, <1>7, <1>8 DEF LoopInv

LEMMA TickInv == ASSUME LoopInv, NEW level \in BOOLEAN, Tick(level) PROVE LoopInv'
<1>1. EdgeInv' /\ HistoryFields' /\ RelayInv'
  BY TickEdge, TickRelay DEF LoopInv
<1>2. pc' = pc /\ queue' = queue /\ ble' = ble /\ phase' = phase /\ outcome' = outcome
      /\ mac' = mac
  BY DEF Tick
<1>3. /\ history'.owed = history.owed /\ history'.told = history.told
      /\ history'.sent = history.sent
  <2>1. \E f, n : history' = [history EXCEPT !.fires = f, !.events = n]
    BY DEF Tick
  <2>2. QED
    BY <2>1 DEF LoopInv, HistoryFields
<1>4. QueueInv' /\ BleInv' /\ PlaceInv'
  BY <1>2, <1>3, QueueSame DEF LoopInv, BleInv, PlaceInv
<1>5. uplink' = [uplink EXCEPT !.retry = Less(@)]
  BY DEF Tick
<1>6. /\ uplink' \in UplinkType /\ uplink'.due = uplink.due
      /\ uplink'.busyDue = uplink.busyDue /\ uplink'.inFlight = uplink.inFlight
      /\ uplink'.dueAfter = uplink.dueAfter /\ uplink'.busySent = uplink.busySent
  BY <1>5, TimesAssumption DEF LoopInv, UplinkInv, UplinkType, Less
<1>7. reboot' \in 0..NoReboot
  BY TimesAssumption DEF Tick, LoopInv, UplinkInv, NoReboot, Less
<1>8. UplinkInv'
  BY <1>2, <1>6, <1>7 DEF LoopInv, UplinkInv
<1>9. (relay'.on = relay.on /\ relay'.report = relay.report /\ relay'.expired = relay.expired)
      \/ relay'.expired \/ ~relay'.report
  <2>1. relay' = IF relay.left = 1 THEN RelayPulseExpired(relay)
                                   ELSE [relay EXCEPT !.left = Less(@)]
    BY DEF Tick
  <2>2. relay \in RelayType
    BY DEF LoopInv, RelayInv
  <2>3. CASE relay' = [relay EXCEPT !.on = FALSE, !.pulse = FALSE, !.left = 0, !.expired = TRUE]
    BY <2>2, <2>3 DEF RelayType
  <2>4. CASE \E n : relay' = [relay EXCEPT !.left = n]
    BY <2>2, <2>4 DEF RelayType
  <2>5. QED
    BY <2>1, <2>3, <2>4 DEF RelayPulseExpired
<1>10. \A status : Tells(status) => Tells(status)'
  BY <1>2, <1>9 DEF Tells
<1>11. KnowsInv'
  BY <1>3, <1>6, <1>10 DEF LoopInv, KnowsInv
<1>12. QED
  BY <1>1, <1>4, <1>8, <1>11 DEF LoopInv

LEMMA TopInv == ASSUME LoopInv, Top PROVE LoopInv'
<1>1. /\ UNCHANGED <<contact, input, queue, ble, phase, outcome, mac, reboot, order, history>>
      /\ relay' = [relay EXCEPT !.expired = FALSE]
      /\ uplink' = RequestedIf(relay.expired /\ relay.report, uplink) /\ pc' = "input"
  BY DEF Top
<1>2. RelayInv'
  BY TopRelay DEF LoopInv
<1>3. HistoryFields' /\ EdgeInv' /\ QueueInv'
  BY <1>1, HistorySame, EdgeSame, QueueSame DEF LoopInv
<1>4. BleInv' /\ PlaceInv'
  BY <1>1 DEF LoopInv, BleInv, PlaceInv
<1>5. CASE relay.expired /\ relay.report
  <2>1. uplink' = Requested(uplink)
    BY <1>1, <1>5 DEF RequestedIf
  <2>2. UplinkInv' /\ KnowsInv'
    BY <1>1, <2>1, RequestedKnows DEF LoopInv
  <2>3. QED
    BY <1>2, <1>3, <1>4, <2>2 DEF LoopInv
<1>6. CASE ~(relay.expired /\ relay.report)
  <2>1. uplink' = uplink
    BY <1>1, <1>6 DEF RequestedIf
  <2>2. relay'.on = relay.on /\ relay'.report = relay.report
    BY <1>1 DEF LoopInv, RelayInv, RelayType
  <2>3. \A status : Tells(status) => Tells(status)'
    BY <1>1, <1>6, <2>2 DEF Tells
  <2>4. UplinkInv' /\ KnowsInv'
    BY <1>1, <2>1, <2>3, SameKnows DEF LoopInv, UplinkInv
  <2>5. QED
    BY <1>2, <1>3, <1>4, <2>4 DEF LoopInv
<1>7. QED
  BY <1>5, <1>6

LEMMA UpdateContactInv == ASSUME LoopInv, UpdateContact PROVE LoopInv'
<1>1. EdgeInv' /\ HistoryFields'
  BY UpdateContactEdge DEF LoopInv
<1>2. /\ UNCHANGED <<contact, queue, phase, outcome, mac, reboot>> /\ pc' = "remote"
      /\ \/ UNCHANGED <<relay, ble, uplink, order, history>>
         \/ /\ ExecuteActions(InputActions[contact.stable])
            /\ history' = [history EXCEPT !.fires = @ + 1]
  BY DEF UpdateContact
<1>3. /\ history'.owed = history.owed /\ history'.told = history.told
      /\ history'.sent = history.sent
  <2>1. CASE history' = history
    BY <2>1
  <2>2. CASE \E f : history' = [history EXCEPT !.fires = f]
    BY <2>2 DEF LoopInv, HistoryFields
  <2>3. QED
    BY <1>2, <2>1, <2>2
<1>4. QueueInv' /\ PlaceInv'
  BY <1>2, <1>3, QueueSame DEF LoopInv, PlaceInv
<1>5. RelayInv' /\ BleInv' /\ UplinkInv' /\ KnowsInv'
  <2>1. CASE ExecuteActions(InputActions[contact.stable])
    BY <1>2, <1>3, <2>1, ExecuteInv DEF LoopInv
  <2>2. CASE UNCHANGED <<relay, ble, uplink, order, history>>
    BY <1>2, <2>2, RelaySame, TellsSame, SameKnows DEF LoopInv, BleInv, UplinkInv
  <2>3. QED
    BY <1>2, <2>1, <2>2
<1>6. QED
  BY <1>1, <1>4, <1>5 DEF LoopInv

LEMMA RemoteInv == ASSUME LoopInv, Remote PROVE LoopInv'
<1>1. QueueInv' /\ HistoryFields' /\ history'.fires = history.fires
  BY RemoteQueue DEF LoopInv
<1>2. /\ UNCHANGED <<contact, input, phase, outcome, mac, reboot>> /\ pc' = "network"
      /\ \/ UNCHANGED <<relay, ble, uplink, order, history>>
         \/ /\ ExecuteActions(queue.slot[queue.read])
            /\ history' = [history EXCEPT !.owed = Less(@)]
  BY DEF Remote
<1>3. history'.told = history.told /\ history'.sent = history.sent
  <2>1. CASE history' = history
    BY <2>1
  <2>2. CASE \E n : history' = [history EXCEPT !.owed = n]
    BY <2>2 DEF LoopInv, HistoryFields
  <2>3. QED
    BY <1>2, <2>1, <2>2
<1>4. EdgeInv' /\ PlaceInv'
  BY <1>1, <1>2, EdgeSame DEF LoopInv, PlaceInv
<1>5. RelayInv' /\ BleInv' /\ UplinkInv' /\ KnowsInv'
  <2>1. CASE ExecuteActions(queue.slot[queue.read])
    BY <1>2, <1>3, <2>1, ExecuteInv DEF LoopInv
  <2>2. CASE UNCHANGED <<relay, ble, uplink, order, history>>
    BY <1>2, <2>2, RelaySame, TellsSame, SameKnows DEF LoopInv, BleInv, UplinkInv
  <2>3. QED
    BY <1>2, <2>1, <2>2
<1>6. QED
  BY <1>1, <1>4, <1>5 DEF LoopInv

(* A step of the loop that only goes on, or only concerns the companion.    *)
LEMMA QuietInv ==
    ASSUME LoopInv, BleInv', PlaceInv',
           UNCHANGED <<contact, input, relay, queue, ble, uplink, mac, reboot, order, history>>
    PROVE  LoopInv'
<1>1. HistoryFields' /\ EdgeInv' /\ QueueInv' /\ RelayInv'
  BY HistorySame, EdgeSame, QueueSame, RelaySame DEF LoopInv
<1>2. UplinkInv' /\ KnowsInv'
  BY TellsSame, SameKnows DEF LoopInv, UplinkInv
<1>3. QED
  BY <1>1, <1>2 DEF LoopInv

LEMMA GoesOnInv ==
    ASSUME LoopInv, NothingToSend \/ NothingAsked \/ Settle \/ Again
    PROVE  LoopInv'
<1>1. /\ UNCHANGED <<contact, input, relay, queue, ble, phase, outcome, uplink, mac, reboot,
                     order, history>>
      /\ pc' \in {"companion", "reboot", "result", "delay", "top"}
  BY DEF NothingToSend, Send, Sending, NothingAsked, Settle, Again
<1>2. BleInv' /\ PlaceInv'
  BY <1>1 DEF LoopInv, BleInv, PlaceInv
<1>3. QED
  BY <1>1, <1>2, QuietInv

LEMMA ConcludeInv == ASSUME LoopInv, Conclude PROVE LoopInv'
<1>1. BleInv' /\ PlaceInv'
  BY DEF LoopInv, Conclude, Companion!Conclude, BleInv, PlaceInv
<1>2. QED
  BY <1>1, QuietInv DEF Conclude

LEMMA NetworkInv == ASSUME LoopInv, Network PROVE LoopInv'
<1>1. /\ UNCHANGED <<contact, input, relay, queue, ble, phase, outcome, reboot, order>>
      /\ pc' = "send"
  BY DEF Network
<1>2. PICK joined \in Sessions, wifiChanged \in BOOLEAN, intervalOver \in BOOLEAN :
        /\ mac' = [mac EXCEPT !.joined = joined, !.known = joined,
                              !.accepted = @ /\ reboot # NoReboot]
        /\ uplink' = RequestedIf(wifiChanged \/ intervalOver \/ (joined /\ ~mac.known), uplink)
        /\ history' = [history EXCEPT !.events = IF wifiChanged THEN @ + 1 ELSE @]
  BY DEF Network
<1>3. /\ HistoryFields' /\ history'.fires = history.fires /\ history'.owed = history.owed
      /\ history'.told = history.told /\ history'.sent = history.sent
  BY <1>2, HistoryCounted DEF LoopInv
<1>4. RelayInv' /\ EdgeInv' /\ QueueInv' /\ BleInv' /\ PlaceInv'
  BY <1>1, <1>3, RelaySame, EdgeSame, QueueSame DEF LoopInv, BleInv, PlaceInv
<1>5. mac' \in MacType /\ mac'.sends = mac.sends
  <2> DEFINE accepted == mac.accepted /\ reboot # NoReboot
  <2>1. joined \in BOOLEAN /\ accepted \in BOOLEAN
    BY DEF Sessions, LoopInv, UplinkInv, MacType
  <2>2. mac' = [mac EXCEPT !.joined = joined, !.known = joined, !.accepted = accepted]
    BY <1>2
  <2> HIDE DEF accepted
  <2>3. mac' \in MacType
    BY <2>1, <2>2, Zenon DEF LoopInv, UplinkInv, MacType
  <2>4. QED
    BY <2>2, <2>3 DEF LoopInv, UplinkInv, MacType
<1>6. UplinkInv' /\ KnowsInv'
  <2>1. CASE uplink' = uplink
    BY <1>1, <1>3, <1>5, <2>1, TellsSame, SameKnows DEF LoopInv, UplinkInv
  <2>2. CASE uplink' = Requested(uplink)
    <3>1. /\ uplink' \in UplinkType /\ uplink'.due
          /\ uplink'.dueAfter = uplink.inFlight /\ uplink'.inFlight = uplink.inFlight
      BY <2>2, RequestedFacts DEF LoopInv, UplinkInv
    <3>2. QED
      BY <1>1, <1>5, <3>1 DEF LoopInv, UplinkInv, KnowsInv
  <2>3. QED
    BY <1>2, <2>1, <2>2 DEF RequestedIf
<1>7. QED
  BY <1>3, <1>4, <1>6 DEF LoopInv

(* What is sent is told as it is now.                                      *)
LEMMA SendAcceptedInv == ASSUME LoopInv, SendAccepted PROVE LoopInv'
<1>1. /\ UNCHANGED <<contact, input, relay, queue, ble, phase, outcome, reboot, order>>
      /\ pc' \in {"companion", "reboot"} /\ ~uplink.inFlight
      /\ uplink' = Submitted(TRUE) /\ mac' = [mac EXCEPT !.sends = "status"]
      /\ history' = [history EXCEPT !.sent = Payload]
  BY DEF SendAccepted, Send, Sending, MaySend, Accept
<1>2. history' = [fires |-> history.fires, owed |-> history.owed, sent |-> Payload,
                  told |-> history.told, events |-> history.events]
  BY <1>1 DEF LoopInv, HistoryFields
<1>3. /\ HistoryFields' /\ history'.fires = history.fires /\ history'.owed = history.owed
      /\ history'.told = history.told /\ history'.sent = Payload
  BY <1>2 DEF LoopInv, HistoryFields
<1>4. RelayInv' /\ EdgeInv' /\ QueueInv' /\ BleInv' /\ PlaceInv'
  BY <1>1, <1>3, RelaySame, EdgeSame, QueueSame DEF LoopInv, BleInv, PlaceInv
<1>5. /\ uplink' \in UplinkType /\ uplink'.inFlight /\ uplink'.due = uplink.due
      /\ uplink'.busyDue = uplink.busyDue /\ (uplink'.busySent <=> uplink.busyDue)
  BY <1>1, SubmittedFacts DEF LoopInv
<1>6. mac' \in MacType /\ mac'.sends = "status"
  BY <1>1 DEF LoopInv, UplinkInv, MacType
<1>7. UplinkInv'
  BY <1>1, <1>5, <1>6 DEF LoopInv, UplinkInv
<1>8. Payload.on = relay.on /\ (~uplink.busyDue => Payload.result = ble.result)
  BY DEF Payload
<1>9. Tells(history.told) => Tells(history.told)'
  BY <1>1, <1>3 DEF Tells
<1>10. KnowsInv'
  <2>1. history'.sent = Payload
    BY <1>3
  <2> HIDE DEF Payload
  <2>2. ~uplink'.busyDue => Tells(history.sent)'
    BY <1>1, <1>5, <1>8, <2>1 DEF Tells
  <2>3. QED
    BY <1>5, <1>9, <2>2 DEF LoopInv, KnowsInv
<1>11. QED
  BY <1>3, <1>4, <1>7, <1>10 DEF LoopInv

LEMMA SendRefusedInv == ASSUME LoopInv, SendRefused PROVE LoopInv'
<1>1. /\ UNCHANGED <<contact, input, relay, queue, ble, phase, outcome, reboot, order, history>>
      /\ pc' \in {"companion", "reboot"} /\ ~uplink.inFlight
      /\ \/ UNCHANGED <<uplink, mac>>
         \/ /\ mac.sends = "nothing" /\ uplink' = Submitted(FALSE)
            /\ mac' \in {mac, [mac EXCEPT !.sends = "commands"]}
  BY DEF SendRefused, Send, Sending, MaySend, Refuse
<1>2. BleInv' /\ PlaceInv'
  BY <1>1 DEF LoopInv, BleInv, PlaceInv
<1>3. CASE UNCHANGED <<uplink, mac>>
  BY <1>1, <1>2, <1>3, QuietInv
<1>4. CASE /\ mac.sends = "nothing" /\ uplink' = Submitted(FALSE)
           /\ mac' \in {mac, [mac EXCEPT !.sends = "commands"]}
  <2>1. HistoryFields' /\ EdgeInv' /\ QueueInv' /\ RelayInv'
    BY <1>1, HistorySame, EdgeSame, QueueSame, RelaySame DEF LoopInv
  <2>2. /\ uplink' \in UplinkType /\ ~uplink'.inFlight /\ uplink'.due = uplink.due
        /\ uplink'.busyDue = uplink.busyDue
    BY <1>4, SubmittedFacts DEF LoopInv
  <2>3. mac' \in MacType /\ mac'.sends \in {"nothing", "commands"}
    BY <1>4 DEF LoopInv, UplinkInv, MacType
  <2>4. UplinkInv'
    BY <1>1, <2>2, <2>3 DEF LoopInv, UplinkInv
  <2>5. Tells(history.told) => Tells(history.told)'
    BY <1>1 DEF Tells
  <2>6. KnowsInv'
    BY <2>2, <2>5 DEF LoopInv, KnowsInv
  <2>7. QED
    BY <1>2, <2>1, <2>4, <2>6 DEF LoopInv
<1>5. QED
  BY <1>1, <1>3, <1>4

LEMMA RequestLoadInv == ASSUME LoopInv, RequestLoad PROVE LoopInv'
<1>1. /\ UNCHANGED <<contact, input, relay, queue, mac, reboot, order, history>>
      /\ pc' = "portal"
  BY DEF RequestLoad
<1>2. HistoryFields' /\ EdgeInv' /\ QueueInv' /\ RelayInv' /\ PlaceInv'
  BY <1>1, HistorySame, EdgeSame, QueueSame, RelaySame DEF LoopInv, PlaceInv
<1>3. CASE ~ble.pending
  <2>1. UNCHANGED <<ble, phase, outcome, uplink>>
    BY <1>3 DEF RequestLoad
  <2>2. BleInv'
    BY <2>1 DEF LoopInv, BleInv
  <2>3. QED
    BY <1>1, <1>2, <2>1, <2>2, QuietInv
<1>4. CASE ble.pending /\ phase = "idle"
  <2>1. /\ phase' = "running" /\ uplink' = uplink
        /\ ble' = [ble EXCEPT !.pending = FALSE, !.busy = TRUE]
    BY <1>4 DEF RequestLoad, Companion!Request
  <2>2. ble' \in BleType /\ ble'.busy
    BY <2>1 DEF LoopInv, BleInv, BleType
  <2>3. BleInv'
    BY <2>1, <2>2 DEF BleInv
  <2>4. \A status : Tells(status) => Tells(status)'
    BY <1>1, <2>2 DEF Tells
  <2>5. UplinkInv' /\ KnowsInv'
    BY <1>1, <2>1, <2>4, SameKnows DEF LoopInv, UplinkInv
  <2>6. QED
    BY <1>2, <2>3, <2>5 DEF LoopInv
<1>5. CASE ble.pending /\ phase # "idle"
  <2>1. /\ uplink' = Requested(BusyEvent(uplink)) /\ UNCHANGED <<phase, outcome>>
        /\ ble' = [ble EXCEPT !.pending = FALSE, !.result = "busy"]
    BY <1>5 DEF RequestLoad
  <2>2. ble' \in BleType /\ ble'.busy = ble.busy
    BY <2>1 DEF LoopInv, BleInv, BleType, Seen
  <2>3. BleInv'
    BY <2>1, <2>2 DEF LoopInv, BleInv
  <2>4. UplinkInv' /\ KnowsInv'
    BY <1>1, <2>1, RequestedKnows DEF LoopInv
  <2>5. QED
    BY <1>2, <2>3, <2>4 DEF LoopInv
<1>6. QED
  BY <1>3, <1>4, <1>5

LEMMA TakeResultInv == ASSUME LoopInv, TakeResult PROVE LoopInv'
<1>1. /\ UNCHANGED <<contact, input, relay, queue, mac, reboot, order, history>>
      /\ pc' = "send again"
  BY DEF TakeResult
<1>2. HistoryFields' /\ EdgeInv' /\ QueueInv' /\ RelayInv' /\ PlaceInv'
  BY <1>1, HistorySame, EdgeSame, QueueSame, RelaySame DEF LoopInv, PlaceInv
<1>3. CASE phase = "done"
  <2>1. /\ phase' = "idle" /\ uplink' = Requested(uplink)
        /\ ble' = [ble EXCEPT !.busy = FALSE, !.result = outcome]
    BY <1>3 DEF TakeResult, Companion!Collect
  <2>2. outcome \in Seen
    BY <1>3 DEF LoopInv, BleInv, Seen
  <2>3. ble' \in BleType /\ ~ble'.busy
    BY <2>1, <2>2 DEF LoopInv, BleInv, BleType
  <2>4. BleInv'
    BY <2>1, <2>3 DEF BleInv
  <2>5. UplinkInv' /\ KnowsInv'
    BY <1>1, <2>1, RequestedKnows DEF LoopInv
  <2>6. QED
    BY <1>2, <2>4, <2>5 DEF LoopInv
<1>4. CASE phase # "done"
  <2>1. UNCHANGED <<phase, outcome, ble, uplink>>
    BY <1>4 DEF TakeResult
  <2>2. BleInv'
    BY <2>1 DEF LoopInv, BleInv
  <2>3. QED
    BY <1>1, <1>2, <2>1, <2>2, QuietInv
<1>5. QED
  BY <1>3, <1>4

LEMMA PortalInv ==
    ASSUME LoopInv, NEW action \in PortalActions, Portal(action)
    PROVE  LoopInv'
<1>1. /\ UNCHANGED <<contact, input, queue, phase, outcome, mac, reboot>> /\ pc' = "result"
      /\ ExecuteActions(action)
  BY DEF Portal
<1>2. /\ HistoryFields' /\ history'.fires = history.fires /\ history'.owed = history.owed
      /\ history'.told = history.told /\ history'.sent = history.sent
  BY HistoryCounted DEF Portal, LoopInv
<1>3. EdgeInv' /\ QueueInv' /\ PlaceInv'
  BY <1>1, <1>2, EdgeSame, QueueSame DEF LoopInv, PlaceInv
<1>4. RelayInv' /\ BleInv' /\ UplinkInv' /\ KnowsInv'
  BY <1>1, <1>2, ExecuteInv DEF LoopInv
<1>5. QED
  BY <1>2, <1>3, <1>4 DEF LoopInv

(* What the other requests of the portal leave alone.                       *)
LEMMA PortalOther ==
    ASSUME LoopInv, PortalConfirm \/ PortalReboot
    PROVE  /\ HistoryFields' /\ EdgeInv' /\ QueueInv' /\ RelayInv' /\ BleInv' /\ PlaceInv'
           /\ history'.told = history.told /\ history'.sent = history.sent
<1>1. /\ UNCHANGED <<contact, input, relay, queue, ble, phase, outcome, mac, order>>
      /\ pc' = "result" /\ history' = [history EXCEPT !.events = @ + 1]
  BY DEF PortalConfirm, PortalReboot
<1>2. /\ HistoryFields' /\ history'.fires = history.fires /\ history'.owed = history.owed
      /\ history'.told = history.told /\ history'.sent = history.sent
  BY <1>1, HistoryCounted DEF LoopInv
<1>3. QED
  BY <1>1, <1>2, EdgeSame, QueueSame, RelaySame DEF LoopInv, BleInv, PlaceInv

LEMMA PortalConfirmInv == ASSUME LoopInv, PortalConfirm PROVE LoopInv'
<1>1. /\ uplink' = [Requested(uplink) EXCEPT !.manual = TRUE, !.retry = 0]
      /\ UNCHANGED <<mac, reboot>>
  BY DEF PortalConfirm
<1>2. /\ Requested(uplink) \in UplinkType /\ Requested(uplink).due
      /\ Requested(uplink).dueAfter = uplink.inFlight
      /\ Requested(uplink).inFlight = uplink.inFlight
  BY RequestedFacts DEF LoopInv, UplinkInv
<1>3. TRUE \in BOOLEAN /\ 0 \in 0..RetryTime
  BY TimesAssumption
<1>4. uplink' \in UplinkType
  BY <1>1, <1>2, <1>3, Zenon DEF UplinkType
<1>5. /\ uplink'.due /\ uplink'.dueAfter = uplink.inFlight
      /\ uplink'.inFlight = uplink.inFlight
  BY <1>1, <1>2 DEF UplinkType
<1>6. UplinkInv' /\ KnowsInv'
  BY <1>1, <1>4, <1>5 DEF LoopInv, UplinkInv, KnowsInv
<1>7. QED
  BY <1>6, PortalOther DEF LoopInv

LEMMA PortalRebootInv == ASSUME LoopInv, PortalReboot PROVE LoopInv'
<1>1. /\ uplink' = uplink \/ uplink' = Requested(uplink)
      /\ reboot' = RebootTime /\ UNCHANGED <<mac, ble, relay>>
  BY DEF PortalReboot
<1>2. reboot' \in 0..NoReboot
  BY <1>1, TimesAssumption DEF NoReboot
<1>3. UplinkInv' /\ KnowsInv'
  <2>1. CASE uplink' = uplink
    BY <1>1, <1>2, <2>1, PortalOther, TellsSame, SameKnows DEF LoopInv, UplinkInv
  <2>2. CASE uplink' = Requested(uplink)
    <3>1. /\ uplink' \in UplinkType /\ uplink'.due
          /\ uplink'.dueAfter = uplink.inFlight /\ uplink'.inFlight = uplink.inFlight
      BY <2>2, RequestedFacts DEF LoopInv, UplinkInv
    <3>2. QED
      BY <1>1, <1>2, <3>1 DEF LoopInv, UplinkInv, KnowsInv
  <2>3. QED
    BY <1>1, <2>1, <2>2
<1>4. QED
  BY <1>3, PortalOther DEF LoopInv

(* What is heard was told when it was sent, and still holds unless it is    *)
(* due again.                                                              *)
LEMMA SendCallbackInv ==
    ASSUME LoopInv, NEW ok \in BOOLEAN, SendCallback(ok)
    PROVE  LoopInv'
<1>1. /\ UNCHANGED <<pc, contact, input, relay, queue, ble, phase, outcome, reboot, order>>
  BY DEF SendCallback
<1>2. RelayInv' /\ BleInv' /\ PlaceInv'
  BY <1>1, RelaySame DEF LoopInv, BleInv, PlaceInv
<1>3. CASE uplink.inFlight
  <2>1. PICK joined \in {mac.joined, FALSE} :
          mac' = [mac EXCEPT !.sends = "nothing", !.joined = joined]
    BY <1>3 DEF SendCallback
  <2>2. joined \in BOOLEAN
    BY DEF LoopInv, UplinkInv, MacType
  <2>3. mac' \in MacType /\ mac'.sends = "nothing"
    BY <2>1, <2>2 DEF LoopInv, UplinkInv, MacType
  <2>4. /\ uplink' = Completed(ok)
        /\ history' = [history EXCEPT !.sent = Unheard,
                                      !.told = IF ok THEN history.sent ELSE @]
    BY <1>3 DEF SendCallback
  <2>5. history' = [fires |-> history.fires, owed |-> history.owed, sent |-> Unheard,
                    told |-> IF ok THEN history.sent ELSE history.told,
                    events |-> history.events]
    BY <2>4 DEF LoopInv, HistoryFields
  <2>6. /\ HistoryFields' /\ history'.fires = history.fires /\ history'.owed = history.owed
        /\ history'.told = IF ok THEN history.sent ELSE history.told
    BY <2>5 DEF LoopInv, HistoryFields
  <2>7. EdgeInv' /\ QueueInv'
    BY <1>1, <2>6, EdgeSame, QueueSame DEF LoopInv
  <2>8. uplink' \in UplinkType /\ ~uplink'.inFlight
    <3>1. Completed(FALSE) = Ended
      BY DEF Completed
    <3>2. ok = TRUE \/ ok = FALSE
      OBVIOUS
    <3>3. QED
      BY <2>4, <3>1, <3>2, EndedFacts, HeardFacts DEF LoopInv
  <2>9. UplinkInv'
    BY <1>1, <2>3, <2>8 DEF LoopInv, UplinkInv
  <2>10. \A status : Tells(status) => Tells(status)'
    BY <1>1, TellsSame
  <2>11. ~uplink'.due /\ ~uplink'.busyDue => Tells(history.told)'
    <3>1. CASE ok
      <4>1. uplink' = Completed(TRUE) /\ history'.told = history.sent
        BY <2>4, <2>6, <3>1
      <4>2. SUFFICES ASSUME ~uplink'.due, ~uplink'.busyDue PROVE Tells(history.told)'
        OBVIOUS
      <4>3. ~uplink.dueAfter /\ ~uplink.busySent /\ ~uplink.busyDue
        BY <4>1, <4>2, HeardFacts DEF LoopInv
      <4>4. Tells(history.sent)
        BY <1>3, <4>3 DEF LoopInv, KnowsInv
      <4>5. ble' = ble /\ relay' = relay
        BY <1>1
      <4>6. QED
        BY <4>1, <4>4, <4>5 DEF Tells
    <3>2. CASE ~ok
      <4>1. uplink' = Ended /\ history'.told = history.told
        BY <2>4, <2>6, <3>2 DEF Completed
      <4>2. uplink'.due = uplink.due /\ uplink'.busyDue = uplink.busyDue
        BY <4>1, EndedFacts DEF LoopInv
      <4>3. QED
        BY <1>1, <4>1, <4>2 DEF LoopInv, KnowsInv, Tells
    <3>3. QED
      BY <3>1, <3>2
  <2>12. KnowsInv'
    BY <2>8, <2>11 DEF KnowsInv
  <2>13. QED
    BY <1>2, <2>6, <2>7, <2>9, <2>12 DEF LoopInv
<1>4. CASE ~uplink.inFlight
  <2>1. mac' = [mac EXCEPT !.sends = "nothing"] /\ uplink' = uplink /\ history' = history
    BY <1>4 DEF SendCallback
  <2>2. mac' \in MacType /\ mac'.sends = "nothing"
    BY <2>1 DEF LoopInv, UplinkInv, MacType
  <2>3. UplinkInv' /\ KnowsInv'
    BY <1>1, <1>4, <2>1, <2>2, TellsSame, SameKnows DEF LoopInv, UplinkInv
  <2>4. HistoryFields' /\ EdgeInv' /\ QueueInv'
    BY <1>1, <2>1, HistorySame, EdgeSame, QueueSame DEF LoopInv
  <2>5. QED
    BY <1>2, <2>3, <2>4 DEF LoopInv
<1>5. QED
  BY <1>3, <1>4

LEMMA JoinCallbackInv ==
    ASSUME LoopInv, NEW ok \in BOOLEAN, JoinCallback(ok)
    PROVE  LoopInv'
<1>1. /\ UNCHANGED <<pc, contact, input, relay, ble, phase, outcome, reboot, order, history>>
      /\ mac' = [mac EXCEPT !.accepted = ok, !.known = ok]
      /\ uplink' = RequestedIf(ok, uplink)
      /\ queue' = [queue EXCEPT !.heard = @ /\ ~ok]
  BY DEF JoinCallback
<1>2. HistoryFields' /\ EdgeInv' /\ RelayInv' /\ BleInv' /\ PlaceInv'
  BY <1>1, HistorySame, EdgeSame, RelaySame DEF LoopInv, BleInv, PlaceInv
<1>3. QueueInv'
  <2>1. queue' \in QueueType /\ queue'.read = queue.read /\ queue'.write = queue.write
    BY <1>1 DEF LoopInv, QueueInv, QueueType
  <2>2. QED
    BY <1>1, <2>1 DEF LoopInv, QueueInv, Queued
<1>4. mac' \in MacType /\ mac'.sends = mac.sends
  BY <1>1 DEF LoopInv, UplinkInv, MacType
<1>5. UplinkInv' /\ KnowsInv'
  <2>1. CASE uplink' = uplink
    BY <1>1, <1>4, <2>1, TellsSame, SameKnows DEF LoopInv, UplinkInv
  <2>2. CASE uplink' = Requested(uplink)
    <3>1. /\ uplink' \in UplinkType /\ uplink'.due
          /\ uplink'.dueAfter = uplink.inFlight /\ uplink'.inFlight = uplink.inFlight
      BY <2>2, RequestedFacts DEF LoopInv, UplinkInv
    <3>2. QED
      BY <1>1, <1>4, <3>1 DEF LoopInv, UplinkInv, KnowsInv
  <2>3. QED
    BY <1>1, <2>1, <2>2 DEF RequestedIf
<1>6. QED
  BY <1>2, <1>3, <1>5 DEF LoopInv

LEMMA ReceiveInv ==
    ASSUME LoopInv, NEW command \in Commands \cup {{}}, NEW again \in BOOLEAN,
           Receive(command, again)
    PROVE  LoopInv'
<1>1. QueueInv' /\ HistoryFields' /\ history'.fires = history.fires
  BY ReceiveQueue DEF LoopInv
<1>2. /\ UNCHANGED <<pc, contact, input, relay, ble, phase, outcome, mac, reboot, order>>
      /\ uplink' = uplink \/ uplink' = Requested(BusyEvent(uplink))
  BY DEF Receive
<1>3. history'.told = history.told /\ history'.sent = history.sent
  <2>1. \E n, k : history' = [history EXCEPT !.events = n, !.owed = k]
    BY DEF Receive
  <2>2. QED
    BY <2>1 DEF LoopInv, HistoryFields
<1>4. EdgeInv' /\ RelayInv' /\ BleInv' /\ PlaceInv'
  BY <1>1, <1>2, EdgeSame, RelaySame DEF LoopInv, BleInv, PlaceInv
<1>5. UplinkInv' /\ KnowsInv'
  <2>1. CASE uplink' = uplink
    BY <1>2, <1>3, <2>1, TellsSame, SameKnows DEF LoopInv, UplinkInv
  <2>2. CASE uplink' = Requested(BusyEvent(uplink))
    BY <1>2, <2>2, RequestedKnows DEF LoopInv
  <2>3. QED
    BY <1>2, <2>1, <2>2
<1>6. QED
  BY <1>1, <1>4, <1>5 DEF LoopInv

-----------------------------------------------------------------------------
(* Theorems.                                                               *)

LEMMA LoopStep == ASSUME LoopInv, [Next]_vars PROVE LoopInv'
<1>1. CASE UNCHANGED vars
  <2>1. /\ UNCHANGED <<contact, input, relay, queue, ble, uplink, mac, reboot, order, history>>
        /\ BleInv' /\ PlaceInv'
    BY <1>1 DEF vars, LoopInv, BleInv, PlaceInv
  <2>2. QED
    BY <2>1, QuietInv
<1>2. CASE \E level \in BOOLEAN : Tick(level)
  BY <1>2, TickInv
<1>3. CASE Loop
  BY <1>3, TopInv, UpdateContactInv, RemoteInv, NetworkInv, SendAcceptedInv, SendRefusedInv,
     GoesOnInv, RequestLoadInv, PortalInv, PortalConfirmInv, PortalRebootInv, TakeResultInv,
     RestartInv DEF Loop
<1>4. CASE Conclude
  BY <1>4, ConcludeInv
<1>5. CASE Callbacks
  BY <1>5, SendCallbackInv, JoinCallbackInv, ReceiveInv DEF Callbacks
<1>6. QED
  BY <1>1, <1>2, <1>3, <1>4, <1>5 DEF Next

LEMMA LoopAlways == Spec => []LoopInv
BY InitInv, LoopStep, PTL DEF Spec

(* Every variable of the application keeps its type; among them, a pulse    *)
(* runs as long as its timer, the companion has a command as long as the    *)
(* busy flag says so, and an uplink is in flight as long as the radio       *)
(* sends a status (stm32.ino).                                             *)
THEOREM LoopTypeCorrect == Spec => []TypeOK
<1>1. LoopInv => TypeOK
  <2> SUFFICES ASSUME LoopInv PROVE TypeOK
    OBVIOUS
  <2>1. relay.pulse <=> relay.left > 0
    BY Times DEF LoopInv, RelayInv
  <2>2. QED
    BY <2>1 DEF LoopInv, RelayInv, EdgeInv, QueueInv, BleInv, UplinkInv, PlaceInv, TypeOK
<1>2. QED
  BY <1>1, LoopAlways, PTL

(* The relay is what the last action executed made it, for every pulse      *)
(* time and however actions and the timer interleave (setRelay,             *)
(* relayPulseExpired).                                                     *)
THEOREM RelayAlwaysAsCommanded == Spec => []RelayAsCommanded
<1>1. LoopInv => RelayAsCommanded
  BY DEF LoopInv, RelayInv, RelayAsCommanded
<1>2. QED
  BY <1>1, LoopAlways, PTL

(* No command of a downlink is lost in the queue, doubled or overwritten,   *)
(* for every size of the queue (receiveCallback, remoteActionQueue).        *)
THEOREM DownlinksAlwaysAccounted == Spec => []DownlinksAccounted
<1>1. LoopInv => DownlinksAccounted
  BY DEF LoopInv, QueueInv, DownlinksAccounted
<1>2. QED
  BY <1>1, LoopAlways, PTL

(* With nothing left to report, the network knows the present state, for    *)
(* any refusals, failures and changes while a status is on air              *)
(* (sendStatusUplink, sendCallback).                                       *)
THEOREM NetworkAlwaysKnows == Spec => []NetworkKnows
<1>1. LoopInv => NetworkKnows
  BY DEF LoopInv, KnowsInv, Tells, NetworkKnows
<1>2. QED
  BY <1>1, LoopAlways, PTL

(* An action of the contact happens once for an edge and not before its     *)
(* time, for all times of the debounce, the hold and the delay              *)
(* (updateContact, InputActionTimer).                                      *)
THEOREM EdgesAreHeld == Spec => EdgeHeld
<1> DEFINE Due == history'.fires > history.fires =>
                     /\ history.fires = 0 /\ input.age >= Hold[contact.stable]
                     /\ contact.raw = contact.stable
<1>1. ASSUME LoopInv, [Next]_vars PROVE Due
  <2>1. CASE UpdateContact
    BY <1>1, <2>1, UpdateContactEdge DEF LoopInv
  <2>2. CASE ~UpdateContact
    <3>1. ASSUME \/ history'.fires = 0 \/ history'.fires = history.fires
          PROVE  Due
      BY <1>1, <3>1 DEF LoopInv, HistoryFields
    <3>2. CASE UNCHANGED vars
      BY <3>1, <3>2 DEF vars
    <3>3. ASSUME NEW level \in BOOLEAN, Tick(level) PROVE Due
      <4>1. \E n, f : f \in {0, history.fires}
                       /\ history' = [history EXCEPT !.fires = f, !.events = n]
        BY <3>3 DEF Tick
      <4>2. QED
        BY <1>1, <3>1, <4>1 DEF LoopInv, HistoryFields
    <3>4. CASE Restart
      <4>1. history' = [history EXCEPT !.fires = 0, !.owed = 0, !.sent = Unheard,
                                       !.told = Unheard]
        BY <3>4 DEF Restart
      <4>2. QED
        BY <1>1, <3>1, <4>1 DEF LoopInv, HistoryFields
    <3>5. CASE Remote
      BY <1>1, <3>1, <3>5, RemoteQueue DEF LoopInv
    <3>6. ASSUME NEW command \in Commands \cup {{}}, NEW again \in BOOLEAN,
                 Receive(command, again)
          PROVE  Due
      BY <1>1, <3>1, <3>6, ReceiveQueue DEF LoopInv
    <3>7. ASSUME history' = history PROVE Due
      BY <3>1, <3>7
    <3>8. CASE Top \/ SendRefused \/ NothingToSend \/ RequestLoad \/ NothingAsked \/ TakeResult
               \/ Settle \/ Again \/ Conclude
      <4>1. history' = history
        BY <3>8 DEF Top, SendRefused, NothingToSend, Refuse, RequestLoad, NothingAsked,
                    TakeResult, Settle, Again, Conclude
      <4>2. QED
        BY <3>7, <4>1
    <3>9. CASE Network \/ SendAccepted \/ PortalConfirm \/ PortalReboot
                \/ \E action \in PortalActions : Portal(action)
      <4>1. CASE SendAccepted
        <5>1. history' = [history EXCEPT !.sent = Payload]
          BY <4>1 DEF SendAccepted, Accept
        <5>2. QED
          BY <1>1, <3>1, <5>1 DEF LoopInv, HistoryFields
      <4>2. CASE ~SendAccepted
        <5>1. \E n : history' = [history EXCEPT !.events = n]
          BY <3>9, <4>2 DEF Network, PortalConfirm, PortalReboot, Portal
        <5>2. history'.fires = history.fires
          BY <1>1, <5>1, HistoryCounted DEF LoopInv
        <5>3. QED
          BY <3>1, <5>2
      <4>3. QED
        BY <4>1, <4>2
    <3>10. ASSUME NEW ok \in BOOLEAN, SendCallback(ok) \/ JoinCallback(ok) PROVE Due
      <4>1. \/ history' = history
            \/ \E s, t : history' = [history EXCEPT !.sent = s, !.told = t]
        BY <3>10 DEF SendCallback, JoinCallback
      <4>2. CASE \E s, t : history' = [history EXCEPT !.sent = s, !.told = t]
        BY <1>1, <3>1, <4>2 DEF LoopInv, HistoryFields
      <4>3. QED
        BY <3>7, <4>1, <4>2
    <3>11. QED
      BY <1>1, <2>2, <3>2, <3>3, <3>4, <3>5, <3>6, <3>8, <3>9, <3>10
         DEF Next, Loop, Callbacks
  <2>3. QED
    BY <2>1, <2>2
<1>2. QED
  BY <1>1, LoopAlways, PTL DEF Spec, EdgeHeld

=============================================================================
