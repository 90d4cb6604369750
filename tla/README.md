# TLA+ models of the LoRaBLE remote

The product is a RAK board with two processors that run one program in two
halves. The **STM32** (`src/stm32`) owns LoRaWAN, the contact input, the relay
and the settings; the **ESP8684** (`src/esp8684`) owns Bluetooth and WiFi. They
talk over a UART in framed lines, and the STM32 switches the power of the ESP.
The models below cover the parts where the order of events, a lost frame or a
power cut decides whether the program is right.

## 1. Inventory

| # | Component (source) | State it keeps | Operations | Interacts by |
|---|---|---|---|---|
| 1 | Companion link, STM32 side (`esp_companion.cpp`, `stm32.ino` `serviceCompanion`) | the `victron*` job, READY/HELLO handshake, ESP power, update hold, portal requests | request/take result, service, frame handlers | UART frames to 2, polled by `loop()` |
| 2 | ESP command worker and radio manager (`app_main.c`) | `application_state`: hello seen, work pending, one-entry result cache, portal request | frame handlers (UART task), manager loop | UART to 1, `state_lock` between its tasks, calls 9, 10, 11 |
| 3 | Settings store (`config_store.cpp`) | two flash slots, active generation, staged credentials | load, save, stage, commit | called by 4 and 5 |
| 4 | Portal save and boot recovery (`stm32.ino`, `legacy_at_portal.cpp`) | settings and credentials in RAM, the tuple in RUI memory, reboot due | `applyConfigRequest`, `ensureLorawanCredentials`, `configureLorawan` | calls 3, RUI setters; answered to the browser through 1 and 11 |
| 5 | LoRaWAN network manager (`network_manager.cpp`, `network_policy.h`, nonce files) | selected profile, policy state, budgets, DevNonce reservation, JoinNonce ledger | tick, join now, join/transmit/downlink callbacks | LoRaMAC callbacks, polled by `loop()` |
| 6 | Uplinks, relay, input (`stm32.ino`, `action_rules.h`, `input_timing.h`) | pending uplink, in-flight flag, last downlink counters, debounced contact | send and its callback, receive callback, edges, relay pulse | calls 1 and 5; LoRaMAC callbacks |
| 7 | Update bundle (`bundle_update.c`, `firmware_update.cpp`, `ram-loader.c`, `esp_migration.cpp`) | staged images, journal in flash, phase | upload, control phase, connectivity phase, resume | HTTP in, UART to 1, resets both processors |
| 8 | USB tunnel (`usb_tunnel.c`, `esp_companion.cpp`) | raw mode on both sides | open, exchange, end | takes the UART away from 1 and 2 |
| 9 | Victron Bluetooth client (`victron_ble.c`) | one connection, GATT step, result | attempts, GAP/GATT callbacks | NimBLE task callbacks against the manager task |
| 10 | BLE scan (`ble_scan.c`) | list of advertisers | one scan | called by the manager |
| 11 | ESP portal and WiFi (`portal.c`, `wifi_client_policy.h`, `app_model.c`) | access point or client, proxy slot, upload flag | start/stop, WiFi events, proxied HTTP | HTTP in, UART to 13 |
| 12 | UART framing (`protocol.c`, `uart_link.c`) | receive ring, line buffer, CRC | send, receive | under 1, 2, 8, 11 |
| 13 | STM32 portal pages (`legacy_at_portal.cpp`) | page revision, last save | render, parse a form | called by 1, calls 4 |
| 14 | Radio power, diagnostics (`lora_power.cpp`, `activity_log.cpp`) | registers, a log ring | apply, add | called by 5, 6 |
| 15 | Codec, web assets, installer, tools, notices | none | none | outside the running program |

What makes each of them correct, and where it is hard:

1. *Link and worker (1, 2)*: three deadlines hand over to each other while the
   handshake restarts, frames are lost and repeated, and the ESP may restart at
   any time. A command must end, end with its own result, and be run once.
2. *Settings (3, 4)*: power is lost between any two flash operations; several
   memories must change together; a page may be stale.
3. *Network manager (5)*: callbacks raise flags consumed later; nonces must
   survive a reset without reuse; fallback must leave no profile unreachable.
4. *Uplinks (6)*: an uplink requested while one is in flight must not be lost; a
   repeated downlink must not act twice; a relay pulse must end.
5. *Update (7)*: a journal resumed after power loss at any step.
6. *USB, Bluetooth, portal (8-11)*: tasks and callbacks that share state.

`PROJECT.json` lists under "hazards" each of these at its line.

## 2. Plan

Order of work, most important behaviour first; the abstract specification that
each detailed one implements is in brackets.

1. `CompanionLink` [`BleCommand`]: done, checked, proved.
2. `ConfigStore` composed into `SettingsUpdate` [`AtomicSettings`]: done, checked, proved.
3. `NetworkPolicy`, and `NetworkManager` that implements it: done, checked, proved.
4. `DeviceLoop` [`BleCommand` below it; a queue that loses no command, a status that
   is owed until it was heard]: done, checked, proved.
5. `FirmwareUpdate`, the journal and its resume: done, checked, proved.
6. `UsbTunnel`, composed into `FirmwareUpdate`: done, checked, proved.
7. `VictronClient`: done, checked, proved.
8. The portal: the WiFi client policy, the HTTP proxy's slot and a late answer: left.

Every safety invariant, action property and refinement that a passing run checks is
stated by a theorem. What is left to prove belongs to item 8.

## 3. The modules

### BleCommand, CompanionLink

`BleCommand` is what `esp_companion.h` promises the application: a request is
accepted when none is under way, it concludes once with a result, and the result
is collected before the next request.

`CompanionLink` is the protocol that provides it. The STM32 is one loop; `pc`
says where it is: `"app"` (the loop may collect a result, change the WiFi
demand, start a command, or let a tick of `millis()` pass), `"read"` (the first
`readEspFrames` of `companionService`) and `"link"` (the second one, then the
handshake and sending). `link`, `job`, `clock` and `otaHold` are the static
variables of `esp_companion.cpp` of the same names. The ESP has two tasks: the
UART receive task (`ReceiveHello`, `ReceiveLoadSet`, and `SendReply`, which is a
step of its own because the task waits for the transmit lock there) and the radio
manager (`ManagerCheck` ... `ManagerSend`). `application_state` is `esp`. A frame
sent is appended to the line or lost; one that was read by nobody when the power
of the ESP goes is gone, while what it had sent stays in the STM32's ring until
the power comes back.

`history` is auxiliary: what was started in this session of the ESP, what was completed
since the present command was first sent, the number of the session, and the bounds.
No guard of the program reads it other than the bounds (`MaxJobs`, `MaxAllocations`,
`MaxRestarts`, `MaxUploads`).

Abstracted: payload fields (a payload that does not parse is the outcome
`Timeout` that `handleVictronResult` gives it), the retry intervals (a retry may
happen on any pass, a superset of the real times), the portal's own requests, the
USB tunnel, and the 1.5 s boot wait. A hold is modelled by its number of ticks.

### ConfigStore, SettingsUpdate, AtomicSettings

`ConfigStore` is `config_store.cpp`: two slots, each a record with a generation or
`Torn`. `WriteErase` and `WriteProgram` are the two halves of a flash page write,
between which `PowerLoss` may come; a slot may be programmed and still be reported
as an error, or reported as fine and not be readable. `active` is RAM.

`SettingsUpdate` is the code around it. `pc` says which flash operation or RUI
setter comes next: the portal's save stages settings and the credential tuple in
one record (`Stage`), writes the three credentials one by one (`Apply`), reads them
back (`Applied`), and clears the staged tuple (`Commit`); the boot (`PowerOn`,
`Identify`, `Migrate`, `Configure`) finishes what was interrupted. `form` is a
page in a browser, `request` the save under way.

`AtomicSettings` is the promise: a save changes settings and credentials together
or not at all, before it is reported done. The refinement maps "what a boot would
bring into force" to the latest valid record with its staged tuple, or else the
tuple in RUI.

Assumed of the board: it comes with a whole provisioned tuple, the build carries
no compiled-in key, and reading flash does not fail. A restart the program asks
for, of its own or through the RUI runtime, is a loss of power. The form handler
takes any mask of credentials (`Maskable`); the run uses two of the three.

### NetworkPolicy, NetworkManager

`NetworkPolicy` is the class of `network_policy.h` and the ways in which
`network_manager.cpp` may use it. A profile is its rank in `networkOrder`. The
methods are functions from one state of the class to the next (`Selected`,
`Preempted`, `Failed`, `Considered`, `Started`, `Joined`), the actions are the
manager's uses of them. Times are relative: what is left of a wait, and how long
ago something was, up to the longest time anything asks for, so that the model is
finite without a bound on time. `manual` is the join asked for by hand. `recent` is
auxiliary: the time since a join failed, the joins of the last day by age, and the
bound `MaxManual`.

`NetworkManager` is `networkTick`, cut at each use of the policy, of flash and of
the radio, so that power may be lost there (`PowerLoss`). `pc` is `"loop"` between
two ticks; only there do callbacks come in, because RUI delivers them in the loop's
`delay()`. `JoinResult` is `networkJoinResult`; a callback may come late or never.
`mac` (what the MAC does, for whom, its session and nonces) and `server` (the last
JoinNonce each network handed out) are external. Flash holds the DevNonce
high-water mark and the JoinNonce ledger; a write that reports an error may have
been done. `sent` is auxiliary.

Assumed: the public build, in which a join asked for by hand passes by `ready()`
(`LORABLE_MANUAL_RADIO_TEST`, `arduino/platform.local.txt`, `tools/build.ps1`); the
set of usable profiles is fixed during a boot, as a change of settings restarts the
board; `service_lora_set_DevNonce` writes flash only and the MAC takes its DevNonce
from there at boot. `joinsToday` is only ever compared with the budget and counted
up to it. The interval of health checks, the datarate and the transmit power are
data.

The branch of `networkTick` that gives up an overdue join is in the model, and can
never be taken: a profile is JOINING exactly as long as `joinInFlight` holds
(`JoinInv` in the proofs), and that keeps it busy. So a callback that is lost stops
the manager until a restart, as the comment above the branch intends.

### DeviceLoop

The application of `stm32.ino`. `pc` walks through `loop()`; the RUI callbacks
(`SendCallback`, `JoinCallback`, `Receive`) run in its `delay()`, the interrupt that
samples the contact and ends a pulse (`Tick`) anywhere. `contact` is the debounced
sample, `input` the newest edge and `InputActionTimer`, `relay` the output with its
pulse, `queue` the ring of downlinked commands, `ble` the Bluetooth command, `uplink`
the state of `sendStatusUplink`. The companion is an instance of `BleCommand`, which
`CompanionLink` is shown to implement. A revision counter is only compared with two
copies of itself, so the model keeps whether it is ahead of each. `order` and
`history` are auxiliary: the last relay command and its age, the actions fired for
the present edge, the commands taken and not executed, what a status told.

Abstracted: the WiFi window (that it changed is a choice), the network manager (a
session that comes and goes as `networkTick` lets it), and the fields of a status
other than the relay and the Bluetooth result.

### VictronClient

`victron_ble_run` and every callback of `victron_ble.c`. `Plan` is the course of an
attempt for a profile; `pc` and `step` are the place in it. Two tasks share
`context` and `session`: the manager's task, which waits, and the NimBLE host task,
whose callbacks are the actions that take an event or a message. `nimble`, `air` and
`device` are external: the stack refuses, answers late, resets or loses the link
when it likes, but a link delivers in order and a procedure ends with its link.
`truth` is auxiliary: whether the device has executed the write, and whether it has
been in the mode asked for since this connection.

A timeout may strike at any wait, so there is no clock; and the semaphores
`security_done`, `value_done` and `disconnect_done` are left out because their taker
looks at the state whichever way the wait ended. A message is one chunk. The stale
disconnect event after a disconnect timeout is in the model: that event, and the
answer to a procedure of an earlier link, are what `OwnCompletion` and
`SuccessIsVerified` are about. `CreditsConserved` counts credits as units, one for
each chunk a message grants or carries, so that what is under way is the size of a
set and the sum has no recursion. No liveness is stated: every wait has a timeout.

### UsbTunnel, FirmwareUpdate

`UsbTunnel` is the maintenance path: the script on the PC (`pc`), the raw exchange of
the STM32 (`usb`, `hold`), the tunnel task (`tun`), the two directions of the line,
and what the loopback socket was given (`tcp`). A block is its sequence number.

`FirmwareUpdate` extends it with one update of both processors. An image is the name
of its bundle and a hash compares names; `flash` is the stage, the storage, the
trigger and the journal of the ESP8684, `stm.img` the pages of the STM32, page 0 its
vector table. `http` is the handler that runs (`bundle_upload` or the service OTA
`recovery_post`), `job` the two tasks `update_resume` and `update_job`, `mgr` the
radio manager with a Bluetooth command or a scan, `loader` the program in the
STM32's RAM. Every flash operation is a step and `PowerLoss` may come between any
two; a torn one is a step not done, as each is followed by a checksum or guarded by
the next. Frames are synchronous and may be lost. The stock bootloaders and the
repair over USB (`UsbRepair`) are external; a reset of the STM32 cuts the power of
the ESP8684 (`BothReset`). The 180 s of a job may end at any time, which counts as an
event. `JobRelease` waits for a RAM program that is not asking for pages: its four
acknowledgements take a second, longer than any such step. The journal is read in
`BootApp`, seconds before the portal can admit an upload.

`mgr = "announce"` is the manager between reading `hello_seen` and sending READY. On a
READY (`ReadyHeard`) the STM32 sends a pending command again or gives it up; how often
it tolerates one is counted in `CompanionLink` and a choice here. A command given up
there stays with the ESP8684, whose worker runs on (`esp.orphan`); one given up on a
deadline loses its worker with the power (`StmGivesUp`). `spent.raced` remembers that
`resume` has begun its install beside an upload or a service OTA, or after one; it and
`spent.lone` are read by properties only.

What the model shows beyond its properties:

* `resume` stores `busy` (`bundle_update.c:244`) where an upload exchanges it, and does
  not read the journal again. An upload or a service OTA that begins in the last second
  of its wait for the portal (`portal.c:310`, `326`) runs beside the resumed install:
  the control image of the old journal is written while the stage and the journal are
  replaced. `OneBundle` and `LoaderReleased` except what follows (`spent.raced`);
  without the exception both are violated: the first while the STM32 is written, the
  second because a service OTA discards the journal under the install, and the STM32
  then waits with its new image until the power is cut. `BootsWhole`, `LoaderAlone` and
  `StreamInOrder` hold through the race.
* A command given up on the last tolerated READY (`esp_companion.cpp:987-998`) is no
  longer pending, so that an update is accepted while its worker is alive. `LoaderAlone`
  excepts that worker, and no other (`esp.orphan`).
* The service OTA erases the ESP8684's staged image before it discards the journal.
  Abandoned in between, the journal's control image alone is installed at the next
  boot, and the update then fails with error 31; it is never reported complete.
* A board whose STM32 waits for its acknowledgement while the ESP8684 alone restarts,
  with the control side not yet journalled, waits until the power is cut
  (`spent.lone`, and the exception in `LoaderReleased`).
* A board whose bootloader page is erased refuses every update
  (`firmwareUpdateReady`), which is why a page lost in the middle of the mark is
  repaired over USB only.

## 4. The runs

| Run | Asks | Bounds and why they are enough |
|---|---|---|
| `companion_link` | safety of one command and refinement of `BleCommand` | 2 commands (the second meets leftovers of the first), 1 ESP restart, lines of 2 frames (a reply and an announcement), 3 identifiers, 2 HELLO attempts, 2 link failures, deadlines of one tick each |
| `companion_live` | every command is answered | 1 command and 1 upload hold; the ESP may do anything |
| `companion_stale_result` | *violated*: a result can only be that of a command sent | 2 commands |
| `companion_ready` | *violated*: READY means the ESP restarted | no restart at all |
| `companion_unfenced` | *violated*: a worker is fenced before the next command | 2 commands |
| `settings_update` | atomicity, journal order, whole tuples, page revisions | 2 saves, 2 values of 2 credentials, 2 settings, 8 generations starting at the wrap, 3 states of the flash to begin with |
| `network_policy` | budgets, probes, and that every profile gets its turn | 4 places, 3 usable, the last of them and the first private, the middle one public; a budget of 1 join in a day of 5 ticks, a cooldown of 2; 1 join by hand: enough for a round of probes to meet a spent budget, and to be ended by hand |
| `network_attempts` | *violated*: 60 s between a failed join and the next | the same, no join by hand |
| `network_manager` | nonces, results, faults, and refinement of `NetworkPolicy` | 2 profiles, reservations of 2 DevNonces in a small space that runs out, power lost anywhere |
| `device_loop` | the contact, the relay, the queue, and that a status tells what happened | 2 events from outside (a change of the contact, a downlink, a portal action): enough for a pulse ended by a newer command, an edge that takes back another, and a queue that is full (one usable slot); times of one tick |
| `victron_client` | verified results, completions of their own procedure, credits, lifetime of the context | five requests, one for each course of an attempt (with two attempts where a leftover may meet the next); a window of 2 chunks returned one by one; two devices |
| `firmware_update` | whole images, one bundle, no command under the RAM program, order of the tunnel, release | 2 uploads or USB exchanges (the second upload meets the journal of the first), good or damaged, over WiFi or the tunnel; 3 pages (the vector table and two more); 2 events anywhere, of commands, scans, deadlines, failures and races together: a failure and a second one in the recovery from it, or a command and a failure; UPDATE_PREPARE sent twice, 3 blocks sent at most twice. The race of a resume, and the RAM program beside a given-up worker, are reached |

Deadlock is not checked where a bound, not the program, stops the model: the loop
itself always has a next pass.

**Fairness.** `CompanionLink!FairSpec` assumes of the STM32 only: `loop()` keeps
running, reading empties the ring faster than 115200 baud fills it (`ReadFrame`,
`Service`, `Link`), results are collected on each pass, and `millis()` advances
(`LoopTick`). Service and Link need strong fairness because a frame that arrives
disables them for a step. Nothing is assumed of the ESP or the line.

`NetworkPolicy!PromptSpec` assumes that `networkTick` runs many times in a tick of
the model (what is due is done before time goes on), that a join that is on air
ends, and that the board stays on. Of the radio it assumes that it does not refuse
one profile for ever (strong fairness of `StartOf(r)`, and of `StartByHand`): a
refused request only defers the same profile by 60 s, so a radio that refuses it
every time keeps the manager there, and `EveryProfileTried` does not hold.

`DeviceLoop!FairSpec` assumes that the loop and the clock go on and that the radio
ends what it sends. `StatusReported` holds for a session that lasts; of the radio it
needs that a status tried again and again is at some time accepted and delivered
(strong fairness of `SendAccepted` and `Delivered`), because a refusal or a missed
confirmation only brings a retry.

`FirmwareUpdate!Spec` assumes that what runs goes on: each bootloader and
application start, each job and resume, and the RAM program. Nothing is assumed of
the user, the PC, the line, the power or the radio manager.

## 5. What is proved

The theorems of the eight proof modules hold for all values of the constants that
satisfy the named assumptions of the modules they are about, and the hypotheses that
four of them state.

* `TypeCorrect`, `CommandIsBounded`, `BusyFollowsJob`, `LinkImplementsCommand`.
  The bound on a command needs a strengthening: `JobBounded` says nothing of which
  deadline is running. The inductive invariant relates the three clocks to the
  phase of the job: before the first send `activated` is at most the first
  deadline, after it at most that plus `delivery`, and once accepted at most the
  sum plus `job`. It also carries that a job past its deadline is only ever seen in
  a pass that has not reached the check. The refinement needs `BusyMatchesJob`:
  the abstract phase is a function of the busy flag and the job.
* `SettingsTypeCorrect`, `SlotsAreOrdered`, `SettingsAreAtomic`,
  `StagedBeforeApplied`, `TuplesStayWhole`. The inductive invariant relates the
  record being programmed to the slot that is not the latest (a write never
  touches the latest record), RAM's staged tuple to the stored one unless a write
  was reported failed, and the place in `ensureLorawanCredentials` to what is
  staged. `SettingsAreAtomic` shows that each step maps to a step of
  `AtomicSettings` or a stutter: only `WriteProgram` and the last setter can change
  what a boot would bring into force.
* `SuccessAlwaysGenuine`, `CommandsRunOnce` (`CompanionLinkProofs`). Both have the
  hypothesis `MaxAllocations <= MaxId`, no identifier handed out twice: both boards
  compare identifiers only, and these wrap at 0x7FFF (`esp_companion.cpp:374`), which no
  property covers. `OnceInv`: from the worker and its cache along the line to the
  STM32's job, identifiers never decrease, and none that was started is newer than the
  worker's. `SuccessAlwaysGenuine` is about a command that has been sent: its "ok" is of
  a completion since its first send, which is where `history.finishedOk` starts anew.
  `GenuineInv` follows an "ok" through the cache, the reply, the manager's frame and the
  line, and by `OnceInv` none of them bears an identifier still to come, so that
  whatever the first send finds on its way is of an older command. Before the first
  send there is no such guarantee (`companion_stale_result`).
* `RevisionIdentifies`, `NoUpdateIsLost` (`SettingsUpdateProofs`), with the hypothesis
  `FewSaves`: fewer saves in all than half the range of generations, which is 2^31 in
  the code and more than the flash survives. A page that is current shows what is
  stored, because every record written takes the next generation and the writes still
  possible do not lead round to an older one: `WrapInv` adds how far a revision is
  behind to what is left to write, the repairs of a boot included.
* `PolicyTypeCorrect`, `ProbesGoUp` (`NetworkPolicyProofs`): for every number and
  choice of profiles and all times. `PolicyOK` adds to the type that a round of
  probes has a usable backup to return to, below the profile it probes; the lemmas
  on `First` need the least element of a set of numbers, from well-foundedness.
  `JoinsWithinBudgets`: the joins of any day are a set of pairs (age, number), and
  `InBudget` splits them at the age of the account, those since it was opened being
  counted by `joinsToday` and the earlier ones being within the budget by
  themselves. Time moves both halves, and a new day turns the first into the second.
* `ManagerTypeCorrect`, `DevNoncesGoUp`, `AcceptsStayFresh`, `ResultsAreOwn`,
  `FaultsAreFinal`, `ManagerImplementsPolicy` (`NetworkManagerProofs`). The inductive
  invariant has four parts besides the types. `JoinInv`: a join in flight belongs to
  the selected profile, from the request to the tick that consumes its result, and
  at most one of "under way", "to be reported" and "to be consumed" holds.
  `PlaceInv`: what a tick has found (approved by the policy, nothing under way)
  still holds when it joins. `NonceInv`: what was sent is at most the MAC's
  DevNonce, that at most the mark in flash, and strictly less than the reservation
  when a join is requested. `LedgerInv`: no ledger entry is ahead of its server.
  Refinement is shown step by step under that invariant.
* `UpdateTypeCorrect`, `BootsWholeAlways`, `LoaderAloneAlways`, `StreamInOrderAlways`
  (`FirmwareUpdateProofs`, with the lemmas on the tunnel's steps in
  `UsbTunnelProofs`). `StreamInOrder` does not say why a repeated block is
  recognised. `PassInv` does: an open tunnel has counted exactly what it passed on,
  an acknowledgement on the line is for a block passed on, and the script never is
  ahead of the socket; `PcInv` bounds the script's counters. `BootsWhole` needs
  `BootInv`: the bootloader's mark is "downloading" from the first erasure until the
  whole image has been read back, and only then may a page differ; and `FileInv`,
  that what a job hands to the RAM program is the name of an image, never of a
  damaged or erased one. `LoaderAlone` needs `AloneInv`: a command the manager
  carries out is one the STM32 holds pending or has given up on a READY, and the RAM
  program started with none pending. Every action of the update is shown to keep the
  tunnel's invariant, being a step of the tunnel, a loss, or no change of it.
* `OneBundleAlways` (`FirmwareUpdateProofs`): `BundleInv` is inductive up to the step
  in which a resume races (`bundle_update.c:244`), and the flag that ends the promise
  stays. `AtMostOne`: of the handler and the two jobs
  one has the journal, and a job asleep is the one the handler will wake. `JournalInv`
  says of each place what the journal, its two marks and the copy the job read from
  it hold there. `ControlInv`: while the RAM program runs, the journal is unmarked and
  its bundle is the image being written, and a bootloader mark other than "valid"
  means that the control side is not yet journalled. What is marked done or triggered
  is a whole image's bundle, and this is what `OneBundle` asks.
* `ClientInvariant`, `SuccessVerified`, `FramesAccepted`, `ContextOutlives`,
  `CompletionsOwn`, `CreditsKept` (`VictronClientProofs`): for all requests, devices,
  windows and limits. `Inv` has a part each for the stage in its plan, the host task,
  the link, the pending procedure (it is the client's, or nothing: an earlier one
  ended with its link), the fields of the result and what was executed. The success of
  a switch is `MetInv` with `AirInv`: a message under way says of the device only what
  holds until the answer is taken, and a reading that confirms the output before the
  switch comes ahead of every reading of the mode, as the link keeps order. The
  account of credits needs that a connection is quiet up to the first CCCD
  (`EarlyInv`), then empty, then the limit of the device on one side (`CreditInv`), and
  from the opening on the window on the other; each exchange moves units from one
  place to the next, by lemmas on the units of a sequence with a message appended or
  taken.
* `LoopTypeCorrect`, `RelayAlwaysAsCommanded`, `DownlinksAlwaysAccounted`,
  `NetworkAlwaysKnows`, `EdgesAreHeld` (`DeviceLoopProofs`): for all times and every
  size of the ring. `RelayInv`: a pulse in progress is the last order, and what is
  left of it and the order's age make up its time. `EdgeInv`: an edge's age and what
  it still waits for cover its minimum time and delay, and a fired edge waits for
  nothing. `QueueInv`: the slots between tail and head hold the commands taken and
  not executed, in order, with the arithmetic of the indices done for every size.
  `UplinkInv` and `KnowsInv`: a part of the status that is not owed was told by the
  last status heard, and one that has not changed since a status went out is told by
  that one, so that the answer to it may settle the debt.

Only model-checked: liveness (`CommandAnswered`, `EveryProfileTried`,
`PreferredRetried`, `StatusReported`, `LoaderReleased`),
which the proof system does not do under fairness. What a recursive definition computes for
every input is out of its reach too; no property here rests on one.

## 6. Where code and words differ

* `companion_stale_result`: `handleVictronResult` compares only the identifier, and
  a new command keeps the previous one until it is first sent. A repeated result of
  the previous command, read first, ends the new command, which is never sent and is
  reported with the old result. `SuccessIsGenuine` holds from the first send on.
* `companion_ready`: the manager reads `hello_seen` and sends READY later; the receive
  task sends HELLO_ACK and sets `hello_seen` later. READY can so follow a completed
  handshake without a restart, and is counted against the command.
* `companion_unfenced`: a command given up for the last of these READYs is not fenced
  by a power cycle, as one given up on a deadline is.
* `network_attempts`: `docs/NETWORKS.md` promises at least 60 seconds between
  attempts. When the time of a backup is up, `tick` selects the preferred profile
  with no wait, also right after the backup's own join has failed.

## 7. Not modelled

Byte codecs (frames, payloads, forms), page rendering, register values and logs are
data to these properties. The host installer, build tools and vendored notices are
outside the running program.

Left out of components that are modelled in part: the portal's own requests on the
UART and its WiFi client policy and HTTP proxy (item 8 of the plan; until then the
portal is started, stopped and occupied, no more); the unchecked transport of the
tunnel (`ATC+USB=1`), which has no sequence numbers to be right about;
`esp_migration.cpp`, which converts an older layout of the ESP8684 once; what a
Bluetooth scan collects; the two pages and eight entries of the JoinNonce ledger.
