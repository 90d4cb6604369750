---------------------------- MODULE NetworkManager ----------------------------
(***************************************************************************)
(* The join procedure of src/stm32/network_manager.cpp on the policy of     *)
(* NetworkPolicy: networkTick, the callbacks of the LoRaMAC that are only  *)
(* noted and consumed by a later tick, the reservation of DevNonces in     *)
(* flash (nonce_reservation.h) and the ledger of JoinNonces                *)
(* (network_nonce_store.cpp).  Power may be lost at every step.             *)
(*                                                                         *)
(* networkTick is cut at each use of the policy, of flash and of the radio;*)
(* callbacks, the portal and time come in only between two ticks, because  *)
(* they all run in the loop (RUI delivers events in delay()).              *)
(* The MAC and the network servers are external.                           *)
(***************************************************************************)
EXTENDS NetworkPolicy

CONSTANTS
    MaxNonce,       \* 65535
    Block           \* DevNonces reserved at a time, 16

ASSUME NonceAssumption == MaxNonce \in Nat /\ Block \in Nat \ {0}

VARIABLES
    pc,             \* in networkTick, or "loop"
    manager,        \* the other variables of network_manager.cpp
    mac,            \* LoRaMAC: what it does, for whom; session; nonces; whether
                    \* its terminal callback is still to come
    flash,          \* DevNonce high-water mark and the JoinNonce ledger
    server,         \* the last JoinNonce each network server handed out
    sent            \* auxiliary: the last DevNonce that went on air

outside == <<mac, flash, server, sent>>
managerVars == <<pc, manager, outside>>
vars == <<policyVars, managerVars>>

-----------------------------------------------------------------------------
Nonces == 0..MaxNonce

(* A result is that of a join of some profile (auxiliary: "owner").         *)
Results == {"ok", "failed"}
Nothing == [code |-> "none", owner |-> None]

IdleManager(nonce) ==
    [result |-> Nothing, activated |-> FALSE, joinInFlight |-> FALSE,
     manualRadio |-> FALSE, reservedEnd |-> nonce]

IdleMac(nonce) ==
    [doing |-> "nothing", owner |-> None, outcome |-> Nothing, session |-> None,
     devNonce |-> nonce, joinNonce |-> 0]

Init ==
    /\ PolicyInit
    /\ pc = "loop"
    /\ flash = [devNonce |-> 0, ledger |-> [r \in Ranks |-> 0]]
    /\ manager = IdleManager(0) /\ mac = IdleMac(0)
    /\ server = [r \in Ranks |-> 0]
    /\ sent = 0

(* networkBegin after a reset: the MAC takes its DevNonce from flash.       *)
PowerLoss ==
    /\ Reboot
    /\ pc' = "loop"
    /\ manager' = IdleManager(flash.devNonce)
    /\ mac' = IdleMac(flash.devNonce)
    /\ UNCHANGED <<flash, server, sent>>

-----------------------------------------------------------------------------
(* Between two ticks.                                                      *)

InLoop == pc = "loop"

Idle == InLoop /\ Pass /\ UNCHANGED managerVars

JoinNow == InLoop /\ Ask /\ UNCHANGED managerVars

(* networkJoined                                                           *)
NetworkJoined ==
    manager.activated /\ policy.state = "ONLINE" /\ mac.session # None

Transmit ==
    /\ InLoop /\ NetworkJoined /\ mac.doing = "nothing"
    /\ mac' = [mac EXCEPT !.doing = "uplink"]
    /\ UNCHANGED <<policyVars, pc, manager, flash, server, sent>>

(* networkTxComplete of a health check, or of an ordinary uplink, and      *)
(* networkDownlinkReceived.                                                *)
Transmitted ==
    /\ InLoop /\ mac.doing = "uplink"
    /\ mac' = [mac EXCEPT !.doing = "nothing"]
    /\ \/ Check /\ UNCHANGED manager
       \/ /\ policy.state = "ONLINE" /\ policy.failures > 0
          /\ policy' = Failed([policy EXCEPT !.failures = 2])
          /\ manager' = [manager EXCEPT !.activated = FALSE]
          /\ UNCHANGED <<manual, recent>>
       \/ UNCHANGED <<policyVars, manager>>
    /\ UNCHANGED <<pc, flash, server, sent>>

(* The MAC loses its session (an AT command, a MAC command).               *)
SessionGone ==
    /\ InLoop /\ mac.session # None /\ mac.doing = "nothing"
    /\ mac' = [mac EXCEPT !.session = None]
    /\ UNCHANGED <<policyVars, pc, manager, flash, server, sent>>

(* The server answers with its next JoinNonce; the MAC takes one that is    *)
(* higher than the last it knows.                                          *)
JoinAccepted ==
    /\ InLoop /\ mac.doing = "join"
    /\ LET r == mac.owner
           nonce == server[r] + 1
       IN  /\ server' = [server EXCEPT ![r] = nonce]
           /\ nonce > mac.joinNonce
           /\ mac' = [mac EXCEPT !.doing = "nothing", !.session = r,
                                 !.joinNonce = nonce,
                                 !.outcome = [code |-> "ok", owner |-> r]]
    /\ UNCHANGED <<policyVars, pc, manager, flash, sent>>

(* Nothing is heard, whether the server answered or not.                   *)
JoinUnheard ==
    /\ InLoop /\ mac.doing = "join"
    /\ server' \in {server, [server EXCEPT ![mac.owner] = @ + 1]}
    /\ mac' = [mac EXCEPT !.doing = "nothing",
                          !.outcome = [code |-> "failed", owner |-> mac.owner]]
    /\ UNCHANGED <<policyVars, pc, manager, flash, sent>>

(* networkJoinResult; a callback may also never come.                      *)
JoinResult ==
    /\ InLoop /\ mac.outcome # Nothing
    /\ manager' \in {[manager EXCEPT !.result = mac.outcome], manager}
    /\ mac' = [mac EXCEPT !.outcome = Nothing]
    /\ UNCHANGED <<policyVars, pc, flash, server, sent>>

-----------------------------------------------------------------------------
(* networkTick: the result of a join.                                      *)

Consumes == manager.result # Nothing /\ manager.joinInFlight /\ policy.state = "JOINING"

Consumed == [manager EXCEPT !.result = Nothing, !.joinInFlight = FALSE,
                            !.manualRadio = FALSE]

TickBegin ==
    /\ InLoop /\ ~Consumes
    /\ pc' = "session"
    /\ manager' = [manager EXCEPT !.result = Nothing]
    /\ UNCHANGED <<policyVars, outside>>

(* The JoinNonce is kept before the profile counts as joined.  A store that *)
(* reports a failure may have kept it.                                     *)
TickJoined ==
    /\ InLoop /\ Consumes /\ manager.result.code = "ok"
    /\ pc' = "session"
    /\ LET kept == [flash EXCEPT !.ledger[policy.rank] = mac.joinNonce]
       IN  \/ /\ policy' = Joined(policy)
              /\ manager' = [Consumed EXCEPT !.activated = TRUE]
              /\ flash' = kept
           \/ /\ policy' = [policy EXCEPT !.state = "FAULT"]
              /\ manager' = [Consumed EXCEPT !.activated = FALSE]
              /\ flash' \in {flash, kept}
    /\ UNCHANGED <<manual, recent, mac, server, sent>>

TickJoinFailed ==
    /\ InLoop /\ Consumes /\ manager.result.code = "failed"
    /\ pc' = "session"
    /\ policy' = Failed(policy)
    /\ NoteFailure
    /\ manager' = [Consumed EXCEPT !.activated = FALSE]
    /\ UNCHANGED <<manual, outside>>

-----------------------------------------------------------------------------
(* networkTick: the session.                                               *)

(* [mutant: a join whose result was not consumed does not count]            *)
RadioBusy == mac.doing # "nothing"
Busy == mac.doing # "nothing" \/ manager.joinInFlight

SessionLost ==
    manager.activated /\ policy.state = "ONLINE" /\ mac.session = None

(* A join that takes too long is given up, once nothing is under way; that  *)
(* is never so while its result may still come.                            *)
JoinOverdue == policy.state = "JOINING" /\ ~Busy /\ policy.wait = 0

(* [mutant: a fault is forgotten when a join is asked for by hand]          *)
ForgivenFault(p) == p.state = "FAULT" /\ manual.rank = None
Faulted(p) == p.state = "FAULT"

TickSession ==
    /\ pc = "session"
    /\ LET p == IF SessionLost \/ JoinOverdue THEN Failed(policy) ELSE policy
       IN  /\ policy' = p
           /\ pc' = IF Faulted(p) \/ Busy THEN "loop" ELSE "choose"
           /\ manual' = IF Faulted(p) THEN NotAsked ELSE manual
    /\ IF JoinOverdue THEN NoteFailure ELSE UNCHANGED recent
    /\ manager' = [manager EXCEPT !.activated = @ /\ ~SessionLost /\ ~JoinOverdue]
    /\ UNCHANGED outside

-----------------------------------------------------------------------------
(* networkTick: the choice of the profile.                                 *)

Forget == manager' = [manager EXCEPT !.activated = FALSE]

ChooseByHand ==
    /\ pc = "choose" /\ manual.rank # None
    /\ pc' = "prepare"
    /\ IF manual.selected
       THEN UNCHANGED <<policy, manual, manager, mac>>
       ELSE /\ policy' = ByHand(policy, manual.rank)
            /\ manual' = [manual EXCEPT !.selected = TRUE]
            /\ mac' = [mac EXCEPT !.session = None]
            /\ Forget
    /\ UNCHANGED <<recent, flash, server, sent>>

(* The MAC does not let go of its session.  If it is busy the request stays.*)
ChooseRefused ==
    /\ pc = "choose" /\ manual.rank # None /\ ~manual.selected
    /\ pc' = "loop"
    /\ Forget
    /\ \/ UNCHANGED <<policy, manual>>
       \/ policy' = Deferred(policy) /\ manual' = NotAsked
    /\ UNCHANGED <<recent, outside>>

ChooseAutomatic ==
    /\ pc = "choose" /\ manual.rank = None
    /\ pc' = "ready"
    /\ IF PreemptDue(policy)
       THEN policy' = Preempted(policy) /\ Forget
       ELSE UNCHANGED <<policy, manager>>
    /\ UNCHANGED <<manual, recent, outside>>

(* [mutant: the policy is not asked]                                       *)
NotAskedReady == Candidate(policy)
Approved == IsReady(policy)

TickReady ==
    /\ pc = "ready"
    /\ policy' = Considered(policy)
    /\ pc' = IF Approved THEN "prepare" ELSE "skip"
    /\ UNCHANGED <<manual, recent, manager, outside>>

TickSkip ==
    /\ pc = "skip"
    /\ pc' = "loop"
    /\ policy' = IF Skippable(policy) THEN Failed(policy) ELSE policy
    /\ UNCHANGED <<manual, recent, manager, outside>>

-----------------------------------------------------------------------------
(* networkTick: prepare.                                                   *)

(* A request by hand that meets a busy radio stays, another is used up.     *)
KeptOrNot == {manual, NotAsked}

(* Only the JoinNonce of this profile's own server counts for it.          *)
(* [mutant: the MAC keeps the last one it knows]                           *)
LastNonce(r) == mac.joinNonce
KnownNonce(r) == flash.ledger[r]

(* DevNonces are reserved in flash before the first of them is used.       *)
(* [mutant: one too late]                                                  *)
ReservationOverrun == mac.devNonce > manager.reservedEnd
ReservationSpent == mac.devNonce >= manager.reservedEnd

(* nextNonceReservation.  [mutant: it does not stop at the last one]        *)
Unlimited(nonce) == nonce + Block
NextReservation(nonce) == IF nonce > MaxNonce - Block THEN MaxNonce ELSE nonce + Block

(* The MAC does not take the profile.                                      *)
PrepareRefused ==
    /\ pc = "prepare"
    /\ pc' = "loop"
    /\ Forget
    /\ policy' = Deferred(policy) /\ manual' \in KeptOrNot
    /\ mac' \in {mac, [mac EXCEPT !.session = None]}
    /\ UNCHANGED <<recent, flash, server, sent>>

(* The ledger cannot be read or has no room, the DevNonces are used up, or  *)
(* the reservation is reported to have failed.                             *)
PrepareFault ==
    /\ pc = "prepare"
    /\ pc' = "loop"
    /\ Forget
    /\ policy' = [policy EXCEPT !.state = "FAULT"] /\ manual' = NotAsked
    /\ mac' \in {[mac EXCEPT !.session = None],
                 [mac EXCEPT !.session = None, !.joinNonce = KnownNonce(policy.rank)]}
    /\ flash' \in {flash} \cup (IF ReservationSpent
                                THEN {[flash EXCEPT !.devNonce = NextReservation(mac.devNonce)]}
                                ELSE {})
    /\ UNCHANGED <<recent, server, sent>>

Prepare ==
    /\ pc = "prepare" /\ mac.devNonce # MaxNonce
    /\ pc' = "request"
    /\ mac' = [mac EXCEPT !.session = None, !.joinNonce = KnownNonce(policy.rank)]
    /\ IF ReservationSpent
       THEN LET end == NextReservation(mac.devNonce)
            IN  /\ flash' = [flash EXCEPT !.devNonce = end]
                /\ manager' = [manager EXCEPT !.activated = FALSE, !.reservedEnd = end]
       ELSE Forget /\ UNCHANGED flash
    /\ UNCHANGED <<policyVars, server, sent>>

-----------------------------------------------------------------------------
(* networkTick: the join request.                                          *)

Request ==
    /\ pc = "request"
    /\ pc' = "loop"
    /\ policy' = Started(policy) /\ manual' = NotAsked
    /\ IF manual.rank = None THEN NoteJoin ELSE UNCHANGED recent
    /\ manager' = [manager EXCEPT !.joinInFlight = TRUE,
                                  !.manualRadio = (manual.rank # None)]
    /\ mac' = [mac EXCEPT !.doing = "join", !.owner = policy.rank, !.devNonce = @ + 1]
    /\ sent' = mac.devNonce + 1
    /\ UNCHANGED <<flash, server>>

(* The transmit power cannot be set, or the MAC refuses; it may have used a *)
(* DevNonce.                                                               *)
RequestRefused ==
    /\ pc = "request"
    /\ pc' = "loop"
    /\ policy' = Deferred(policy) /\ manual' \in KeptOrNot
    /\ mac' \in {mac, [mac EXCEPT !.devNonce = @ + 1]}
    /\ UNCHANGED <<recent, manager, flash, server, sent>>

-----------------------------------------------------------------------------
Between == \/ Idle \/ JoinNow \/ Transmit \/ Transmitted \/ SessionGone
           \/ JoinAccepted \/ JoinUnheard \/ JoinResult

NetworkTick == \/ TickBegin \/ TickJoined \/ TickJoinFailed \/ TickSession
               \/ ChooseByHand \/ ChooseRefused \/ ChooseAutomatic
               \/ TickReady \/ TickSkip
               \/ PrepareRefused \/ PrepareFault \/ Prepare
               \/ Request \/ RequestRefused

Next == PowerLoss \/ Between \/ NetworkTick

Spec == Init /\ [][Next]_vars

-----------------------------------------------------------------------------
(* Properties.                                                             *)

ResultType == [code : Results \cup {"none"}, owner : Usable \cup {None}]

ManagerType ==
    [result : ResultType, activated : BOOLEAN, joinInFlight : BOOLEAN,
     manualRadio : BOOLEAN, reservedEnd : Nonces]

MacType ==
    [doing : {"nothing", "join", "uplink"}, owner : Usable \cup {None},
     outcome : ResultType, session : Usable \cup {None},
     devNonce : Nonces, joinNonce : Nat]

FlashType == [devNonce : Nonces, ledger : [Ranks -> Nat]]

ManagerTypeOK ==
    /\ pc \in {"loop", "session", "choose", "ready", "skip", "prepare", "request"}
    /\ manager \in ManagerType /\ mac \in MacType /\ flash \in FlashType
    /\ server \in [Ranks -> Nat] /\ sent \in Nonces

(* Every variable has its type.                                            *)
TypeOK == PolicyTypeOK /\ ManagerTypeOK

(* Every join request goes on air with a DevNonce higher than all before it,*)
(* however often power is lost and whatever flash or MAC reports.          *)
NonceNeverReused == [][Request => mac'.devNonce > sent]_vars

(* While a profile joins, the MAC will take the next JoinNonce of its       *)
(* server: the counters of the networks never mix, and none runs ahead.    *)
AcceptsAreFresh ==
    mac.doing = "join" => mac.joinNonce <= server[mac.owner]

(* A result is only ever counted for the profile whose join it ended, late  *)
(* as it may come.                                                         *)
ResultIsOwn ==
    [][TickJoined \/ TickJoinFailed => manager.result.owner = policy.rank]_vars

(* After a fault no join goes on air until the board restarts, not even one *)
(* asked for by hand.                                                      *)
FaultIsFinal ==
    [][policy.state = "FAULT" => PowerLoss \/ (policy'.state = "FAULT" /\ sent' = sent)]_vars

(* The manager uses the policy as NetworkPolicy allows: with its budgets,   *)
(* waits and order of profiles.                                            *)
FollowsPolicy == PolicySpec

=============================================================================
