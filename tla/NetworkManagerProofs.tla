------------------------- MODULE NetworkManagerProofs -------------------------
(***************************************************************************)
(* Proofs about NetworkManager, for all profiles, times, sizes of the       *)
(* DevNonce space and reservations.                                        *)
(***************************************************************************)
EXTENDS NetworkManager, NetworkPolicyProofs

-----------------------------------------------------------------------------
(* The inductive invariant.  PolicyInv is that of the policy.               *)

(* A join in flight belongs to the selected profile until its result is     *)
(* consumed: nothing replaces the profile, and nothing else is pending.     *)
JoinInv ==
    /\ policy.state = "JOINING" <=> manager.joinInFlight
    /\ manager.joinInFlight =>
           /\ pc \in {"loop", "session"}
           /\ policy.rank \in Usable /\ mac.owner = policy.rank
           /\ mac.joinNonce <= server[policy.rank]
    /\ mac.doing = "join" =>
           manager.joinInFlight /\ mac.outcome = Nothing /\ manager.result = Nothing
    /\ mac.outcome # Nothing =>
           /\ manager.joinInFlight /\ mac.outcome.owner = policy.rank
           /\ manager.result = Nothing
    /\ manager.result # Nothing =>
           manager.joinInFlight /\ manager.result.owner = policy.rank

(* Where networkTick is, and what it has made sure of.                     *)
PlaceInv ==
    /\ pc \in {"choose", "ready", "skip", "prepare", "request"} =>
           /\ policy.state \notin {"JOINING", "FAULT"} /\ mac.doing = "nothing"
    /\ pc \in {"ready", "skip"} => manual.rank = None
    /\ pc = "ready" => ~PreemptDue(policy)
    /\ pc \in {"prepare", "request"} =>
           /\ policy.rank \in Usable /\ policy.state = "WAITING"
           /\ manual.rank = None => IsReady(policy) /\ ~PreemptDue(policy)
           /\ manual.rank # None => manual.selected
    /\ manual.selected => manual.rank # None /\ policy.state = "WAITING"

(* DevNonces: what was sent lies below the MAC's, that below what is        *)
(* reserved, and that in flash.                                            *)
NonceInv ==
    /\ sent <= mac.devNonce /\ mac.devNonce <= flash.devNonce
    /\ manager.reservedEnd <= flash.devNonce
    /\ pc = "request" => mac.devNonce < manager.reservedEnd

(* JoinNonces: no network's counter is ahead of its server.                 *)
LedgerInv ==
    /\ \A r \in Ranks : flash.ledger[r] <= server[r]
    /\ pc = "request" => mac.joinNonce <= server[policy.rank]

Inv == PolicyInv /\ ManagerTypeOK /\ JoinInv /\ PlaceInv /\ NonceInv /\ LedgerInv

-----------------------------------------------------------------------------
(* Every step of the manager is one the policy allows.                     *)

(* Facts every step may use.                                               *)
LEMMA InvFacts ==
    ASSUME Inv
    PROVE  /\ PolicyOK(policy) /\ policy \in PolicyType
           /\ manual \in ManualType
           /\ policy.state # "DISABLED" => policy.rank # None
           /\ manual.rank # None => manual.rank \in Usable /\ policy.rank # None
           /\ policy.rank # None => policy.rank \in Usable
BY DEF Inv, PolicyInv, PolicyOK, PolicyType, ManualType

LEMMA ManagerFollowsPolicy ==
    ASSUME Inv, [Next]_vars
    PROVE  [PolicyNext]_policyVars
<1> USE DEF PolicyNext, PolicyStep
<1>1. CASE PowerLoss
  BY <1>1 DEF PowerLoss
<1>2. CASE Idle \/ JoinNow
  BY <1>2 DEF Idle, JoinNow
<1>3. CASE Transmit \/ SessionGone \/ JoinAccepted \/ JoinUnheard \/ JoinResult
  BY <1>3 DEF Transmit, SessionGone, JoinAccepted, JoinUnheard, JoinResult, policyVars
<1>4. CASE Transmitted
  <2>1. CASE Check
    BY <2>1
  <2>2. CASE /\ policy.state = "ONLINE" /\ policy.failures > 0
             /\ policy' = Failed([policy EXCEPT !.failures = 2])
             /\ UNCHANGED <<manual, recent>>
    BY <2>2 DEF Lose
  <2>3. CASE UNCHANGED policyVars
    BY <2>3
  <2>4. QED
    BY <1>4, <2>1, <2>2, <2>3 DEF Transmitted, policyVars
<1>5. CASE TickBegin
  BY <1>5 DEF TickBegin, policyVars
<1>6. CASE TickJoined
  BY <1>6 DEF TickJoined, Consumes, JoinSucceeds, Fault
<1>7. CASE TickJoinFailed
  BY <1>7 DEF TickJoinFailed, Consumes, JoinFails
<1>8. CASE TickSession
  <2>1. ~JoinOverdue
    BY DEF Inv, JoinInv, JoinOverdue, Busy
  <2>2. recent' = recent
    BY <1>8, <2>1 DEF TickSession
  <2>3. CASE SessionLost
    <3>1. policy.state = "ONLINE" /\ policy' = Failed(policy)
      BY <1>8, <2>3 DEF TickSession, SessionLost
    <3>2. [policy EXCEPT !.failures = policy.failures] = policy
      BY InvFacts DEF PolicyType
    <3>3. policy'.state # "FAULT"
      BY <3>1, InvFacts, FailedOK
    <3>4. manual' = manual
      BY <1>8, <2>3, <3>1, <3>3 DEF TickSession, Faulted
    <3>5. Lose
      BY <2>2, <3>1, <3>2, <3>4 DEF Lose
    <3>6. QED
      BY <3>5
  <2>4. CASE ~SessionLost
    <3>1. policy' = policy
      BY <1>8, <2>1, <2>4 DEF TickSession
    <3>2. manual' = IF policy.state = "FAULT" THEN NotAsked ELSE manual
      BY <1>8, <2>1, <2>4 DEF TickSession, Faulted
    <3>3. QED
      BY <2>2, <3>1, <3>2 DEF Drop, policyVars
  <2>5. QED
    BY <2>3, <2>4
<1>9. CASE ChooseByHand
  <2>1. policy.state \notin {"JOINING", "FAULT"}
    BY <1>9 DEF Inv, PlaceInv, ChooseByHand
  <2>2. QED
    BY <1>9, <2>1 DEF ChooseByHand, SelectByHand, policyVars
<1>10. CASE ChooseRefused
  <2>1. policy.state \notin {"JOINING", "FAULT"}
    BY <1>10 DEF Inv, PlaceInv, ChooseRefused
  <2>2. QED
    BY <1>10, <2>1 DEF ChooseRefused, DeferByHand, policyVars
<1>11. CASE ChooseAutomatic
  <2>1. policy.state # "JOINING"
    BY <1>11 DEF Inv, PlaceInv, ChooseAutomatic
  <2>2. QED
    BY <1>11, <2>1 DEF ChooseAutomatic, Tick, Automatic, policyVars
<1>12. CASE TickReady
  <2>1. Automatic /\ ~PreemptDue(policy)
    BY <1>12 DEF Inv, PlaceInv, TickReady, Automatic
  <2>2. QED
    BY <1>12, <2>1 DEF TickReady, Consider
<1>13. CASE TickSkip
  <2>1. Automatic
    BY <1>13 DEF Inv, PlaceInv, TickSkip, Automatic
  <2>2. QED
    BY <1>13, <2>1 DEF TickSkip, Skip, policyVars
<1>14. ASSUME pc \in {"prepare", "request"}
       PROVE  /\ policy.state = "WAITING"
              /\ manual.rank = None => Turn
              /\ manual.rank # None => manual.selected
  BY <1>14 DEF Inv, PlaceInv, Turn, Automatic
<1>15. ASSUME pc \in {"prepare", "request"},
              policy' = Deferred(policy), manual' \in KeptOrNot, recent' = recent
       PROVE  Defer \/ DeferByHand
  <2>1. CASE manual.rank = None
    <3>1. manual = NotAsked
      BY <2>1, InvFacts DEF Inv, PolicyInv, ManualType, NotAsked
    <3>2. QED
      BY <1>14, <1>15, <2>1, <3>1 DEF Defer, KeptOrNot
  <2>2. CASE manual.rank # None
    BY <1>14, <1>15, <2>2 DEF DeferByHand, KeptOrNot
  <2>3. QED
    BY <2>1, <2>2
<1>16. CASE PrepareRefused \/ RequestRefused
  BY <1>15, <1>16 DEF PrepareRefused, RequestRefused
<1>17. CASE PrepareFault
  BY <1>14, <1>17 DEF PrepareFault, Fault
<1>18. CASE Prepare
  BY <1>18 DEF Prepare, policyVars
<1>19. CASE Request
  <2>1. CASE manual.rank = None
    <3>1. manual = NotAsked
      BY <2>1, InvFacts DEF Inv, PolicyInv, ManualType, NotAsked
    <3>2. QED
      BY <1>14, <1>19, <2>1, <3>1 DEF Request, Start
  <2>2. CASE manual.rank # None
    BY <1>14, <1>19, <2>2 DEF Request, StartByHand
  <2>3. QED
    BY <2>1, <2>2
<1>20. CASE UNCHANGED vars
  BY <1>20 DEF vars
<1>21. QED
  BY <1>1, <1>2, <1>3, <1>4, <1>5, <1>6, <1>7, <1>8, <1>9, <1>10, <1>11, <1>12, <1>13,
     <1>16, <1>17, <1>18, <1>19, <1>20 DEF Next, Between, NetworkTick

-----------------------------------------------------------------------------
(* The parts of the inductive invariant, one after the other.               *)

(* What the policy's operators do to state and profile.                     *)
LEMMA PolicyMoves ==
    ASSUME Inv
    PROVE  /\ Deferred(policy).state = "WAITING" /\ Deferred(policy).rank = policy.rank
           /\ Considered(policy).state \in {policy.state, "WAITING", "BUDGET_WAIT"}
           /\ Considered(policy).rank = policy.rank
           /\ Aged(policy).state = policy.state /\ Aged(policy).rank = policy.rank
           /\ policy.rank # None =>
                  /\ Failed(policy).state = "WAITING"
                  /\ Started(policy).state = "JOINING"
                  /\ Started(policy).rank = policy.rank
                  /\ Joined(policy).state = "ONLINE"
           /\ PreemptDue(policy) =>
                  /\ Preempted(policy).state = "WAITING"
                  /\ ~PreemptDue(Preempted(policy))
           /\ manual.rank # None =>
                  /\ ByHand(policy, manual.rank).state = "WAITING"
                  /\ ByHand(policy, manual.rank).rank = manual.rank
<1>1. PolicyOK(policy) /\ (manual.rank # None => manual.rank \in Usable)
  BY InvFacts
<1>2. /\ Deferred(policy).state = "WAITING" /\ Deferred(policy).rank = policy.rank
  BY <1>1, WaitingFacts, TimeFacts DEF Deferred, PolicyOK
<1>3. /\ Considered(policy).state \in {policy.state, "WAITING", "BUDGET_WAIT"}
      /\ Considered(policy).rank = policy.rank
  BY <1>1, ConsideredOK
<1>4. /\ Aged(policy).state = policy.state /\ Aged(policy).rank = policy.rank
  BY <1>1, AgedOK
<1>5. QED
  BY <1>1, <1>2, <1>3, <1>4, FailedOK, StartedOK, JoinedOK, PreemptedOK, ByHandOK

(* The second missed check takes the profile out of ONLINE.                 *)
LEMMA SecondMiss ==
    ASSUME Inv, policy.state = "ONLINE"
    PROVE  Failed([policy EXCEPT !.failures = 2]).state = "WAITING"
<1> DEFINE p == [policy EXCEPT !.failures = 2]
<1>1. PolicyOK(policy) /\ policy.rank # None
  BY InvFacts
<1>2. PolicyOK(p) /\ p.rank # None
  BY <1>1 DEF PolicyOK, PolicyType
<1> HIDE DEF p
<1>3. Failed(p).state = "WAITING"
  BY <1>2, FailedOK
<1>4. QED
  BY <1>3 DEF p

(* Nonces are numbers, and a reservation goes up unless all are used.       *)
LEMMA NonceFacts ==
    /\ MaxNonce \in Nat /\ 0 \in Nonces /\ MaxNonce \in Nonces
    /\ \A n \in Nonces : /\ NextReservation(n) \in Nonces /\ n <= NextReservation(n)
                         /\ n # MaxNonce => n < NextReservation(n) /\ n + 1 \in Nonces
BY NonceAssumption DEF Nonces, NextReservation

(* Results are results.                                                    *)
LEMMA ResultFacts ==
    /\ Nothing \in ResultType
    /\ \A r \in Usable : /\ [code |-> "ok", owner |-> r] \in ResultType
                         /\ [code |-> "failed", owner |-> r] \in ResultType
BY DEF Nothing, ResultType, Results

(* What happens to the variables of the manager, ...                        *)
LEMMA ManagerMoves ==
    ASSUME NEW m \in ManagerType
    PROVE  /\ \A r \in ResultType : [m EXCEPT !.result = r] \in ManagerType
           /\ \A b \in BOOLEAN : [m EXCEPT !.activated = b] \in ManagerType
           /\ \A b, c \in BOOLEAN :
                  [m EXCEPT !.joinInFlight = b, !.manualRadio = c] \in ManagerType
           /\ \A b, c \in BOOLEAN : [m EXCEPT !.result = Nothing, !.joinInFlight = b,
                                              !.manualRadio = c] \in ManagerType
           /\ \A b \in BOOLEAN, n \in Nonces :
                  [m EXCEPT !.activated = b, !.reservedEnd = n] \in ManagerType
BY ResultFacts DEF ManagerType

(* ... to those of the MAC, ...                                            *)
LEMMA MacMoves ==
    ASSUME NEW m \in MacType
    PROVE  /\ \A d \in {"nothing", "uplink"} : [m EXCEPT !.doing = d] \in MacType
           /\ [m EXCEPT !.session = None] \in MacType
           /\ [m EXCEPT !.outcome = Nothing] \in MacType
           /\ \A r \in ResultType :
                  [m EXCEPT !.doing = "nothing", !.outcome = r] \in MacType
           /\ \A s \in Usable, n \in Nat, r \in ResultType :
                  [m EXCEPT !.doing = "nothing", !.session = s, !.joinNonce = n,
                            !.outcome = r] \in MacType
           /\ \A n \in Nat :
                  [m EXCEPT !.session = None, !.joinNonce = n] \in MacType
           /\ \A n \in Nonces : [m EXCEPT !.devNonce = n] \in MacType
           /\ \A r \in Usable, n \in Nonces :
                  [m EXCEPT !.doing = "join", !.owner = r, !.devNonce = n] \in MacType
BY ResultFacts DEF MacType

(* ... and to flash.                                                       *)
LEMMA FlashMoves ==
    ASSUME NEW f \in FlashType
    PROVE  /\ \A n \in Nonces : [f EXCEPT !.devNonce = n] \in FlashType
           /\ \A r \in Ranks, n \in Nat : [f EXCEPT !.ledger[r] = n] \in FlashType
<1>1. \A r \in Ranks, n \in Nat : [f.ledger EXCEPT ![r] = n] \in [Ranks -> Nat]
  BY DEF FlashType
<1>2. QED
  BY <1>1 DEF FlashType

LEMMA IdleTypes ==
    ASSUME NEW n \in Nonces
    PROVE  IdleManager(n) \in ManagerType /\ IdleMac(n) \in MacType
BY ResultFacts DEF IdleManager, IdleMac, ManagerType, MacType

(* Types.                                                                  *)
LEMMA ManagerTypes ==
    ASSUME Inv, [Next]_vars
    PROVE  ManagerTypeOK'
<1> USE DEF ManagerTypeOK
<1>1. ManagerTypeOK
  BY DEF Inv
<1>2. CASE PowerLoss
  <2>1. flash.devNonce \in Nonces
    BY <1>1 DEF FlashType
  <2>2. QED
    BY <1>1, <1>2, <2>1, IdleTypes DEF PowerLoss
<1>3. CASE Idle \/ JoinNow
  BY <1>1, <1>3 DEF Idle, JoinNow, managerVars, outside
<1>4. CASE Transmit \/ SessionGone
  BY <1>1, <1>4, MacMoves DEF Transmit, SessionGone
<1>5. CASE Transmitted
  BY <1>1, <1>5, MacMoves, ManagerMoves DEF Transmitted
<1>6. CASE JoinAccepted \/ JoinUnheard
  <2>1. mac.owner \in Usable /\ mac.owner \in Ranks
    BY <1>6, RankFacts DEF Inv, JoinInv, JoinAccepted, JoinUnheard
  <2>2. server[mac.owner] + 1 \in Nat
    BY <1>1, <2>1
  <2>3. [server EXCEPT ![mac.owner] = server[mac.owner] + 1] \in [Ranks -> Nat]
    BY <1>1, <2>1, <2>2
  <2>4. CASE JoinAccepted
    BY <1>1, <2>1, <2>2, <2>3, <2>4, MacMoves, ResultFacts DEF JoinAccepted
  <2>5. CASE JoinUnheard
    BY <1>1, <2>1, <2>3, <2>5, MacMoves, ResultFacts DEF JoinUnheard
  <2>6. QED
    BY <1>6, <2>4, <2>5
<1>7. CASE JoinResult
  <2>1. mac.outcome \in ResultType
    BY <1>1 DEF MacType
  <2>2. QED
    BY <1>1, <1>7, <2>1, MacMoves, ManagerMoves DEF JoinResult
<1>8. CASE TickBegin
  BY <1>1, <1>8, ManagerMoves, ResultFacts DEF TickBegin, outside
<1>9. Consumed \in ManagerType
  BY <1>1, ManagerMoves DEF Consumed
<1>10. CASE TickJoined
  <2>1. policy.rank \in Ranks /\ mac.joinNonce \in Nat
    BY <1>1, <1>10, RankFacts DEF Inv, JoinInv, TickJoined, Consumes, MacType
  <2>2. [flash EXCEPT !.ledger[policy.rank] = mac.joinNonce] \in FlashType
    BY <1>1, <2>1, FlashMoves
  <2>3. manager' \in ManagerType
    BY <1>9, <1>10, ManagerMoves DEF TickJoined
  <2>4. flash' \in FlashType
    BY <1>1, <1>10, <2>2 DEF TickJoined
  <2>5. QED
    BY <1>1, <1>10, <2>3, <2>4 DEF TickJoined
<1>11. CASE TickJoinFailed
  BY <1>1, <1>9, <1>11, ManagerMoves DEF TickJoinFailed, outside
<1>12. CASE TickSession
  <2>1. manager' \in ManagerType
    <3>1. (manager.activated /\ ~SessionLost /\ ~JoinOverdue) \in BOOLEAN
      OBVIOUS
    <3>2. QED
      BY <1>1, <1>12, <3>1, ManagerMoves DEF TickSession
  <2>2. pc' \in {"loop", "choose"}
    BY <1>12 DEF TickSession
  <2>3. QED
    BY <1>1, <1>12, <2>1, <2>2 DEF TickSession, outside
<1>13. CASE ChooseByHand
  <2>1. manager' \in ManagerType /\ mac' \in MacType
    BY <1>1, <1>13, ManagerMoves, MacMoves DEF ChooseByHand, Forget
  <2>2. QED
    BY <1>1, <1>13, <2>1 DEF ChooseByHand
<1>14. CASE ChooseRefused \/ ChooseAutomatic
  <2>1. manager' \in ManagerType
    BY <1>1, <1>14, ManagerMoves DEF ChooseRefused, ChooseAutomatic, Forget
  <2>2. QED
    BY <1>1, <1>14, <2>1 DEF ChooseRefused, ChooseAutomatic, outside
<1>15. CASE TickReady \/ TickSkip
  BY <1>1, <1>15 DEF TickReady, TickSkip, outside
<1>16. CASE PrepareRefused
  BY <1>1, <1>16, ManagerMoves, MacMoves DEF PrepareRefused, Forget
<1>17. ASSUME pc \in {"prepare", "request"} PROVE KnownNonce(policy.rank) \in Nat
  <2>1. policy.rank \in Ranks
    BY <1>17, RankFacts DEF Inv, PlaceInv
  <2>2. flash.ledger \in [Ranks -> Nat]
    BY <1>1 DEF FlashType
  <2>3. QED
    BY <2>1, <2>2 DEF KnownNonce
<1>18. NextReservation(mac.devNonce) \in Nonces
  BY <1>1, NonceFacts DEF MacType
<1>19. [flash EXCEPT !.devNonce = NextReservation(mac.devNonce)] \in FlashType
  BY <1>1, <1>18, FlashMoves
<1>20. ASSUME pc \in {"prepare", "request"}
       PROVE  /\ [mac EXCEPT !.session = None] \in MacType
              /\ [mac EXCEPT !.session = None, !.joinNonce = KnownNonce(policy.rank)]
                     \in MacType
  BY <1>1, <1>17, <1>20, MacMoves
<1>21. CASE PrepareFault
  <2>1. manager' \in ManagerType
    BY <1>1, <1>21, ManagerMoves DEF PrepareFault, Forget
  <2>2. mac' \in MacType /\ flash' \in FlashType
    BY <1>1, <1>19, <1>20, <1>21 DEF PrepareFault
  <2>3. QED
    BY <1>1, <1>21, <2>1, <2>2 DEF PrepareFault
<1>22. CASE Prepare
  <2>1. manager' \in ManagerType
    BY <1>1, <1>18, <1>22, ManagerMoves DEF Prepare, Forget
  <2>2. mac' \in MacType /\ flash' \in FlashType
    BY <1>1, <1>19, <1>20, <1>22 DEF Prepare
  <2>3. QED
    BY <1>1, <1>22, <2>1, <2>2 DEF Prepare
<1>23. ASSUME pc = "request" PROVE mac.devNonce + 1 \in Nonces
  <2>1. /\ mac.devNonce < manager.reservedEnd
        /\ mac.devNonce \in Nonces /\ manager.reservedEnd \in Nonces
    BY <1>1, <1>23 DEF Inv, NonceInv, MacType, ManagerType
  <2>2. QED
    BY <2>1, NonceFacts DEF Nonces
<1>24. CASE Request
  <2>1. policy.rank \in Usable
    BY <1>24 DEF Request, Inv, PlaceInv
  <2>2. manager' \in ManagerType
    BY <1>1, <1>24, ManagerMoves DEF Request
  <2>3. mac' \in MacType
    BY <1>1, <1>23, <1>24, <2>1, MacMoves DEF Request
  <2>4. QED
    BY <1>1, <1>23, <1>24, <2>2, <2>3 DEF Request
<1>25. CASE RequestRefused
  BY <1>1, <1>23, <1>25, MacMoves DEF RequestRefused
<1>26. CASE UNCHANGED vars
  BY <1>1, <1>26 DEF vars, managerVars, outside
<1>27. QED
  BY <1>2, <1>3, <1>4, <1>5, <1>6, <1>7, <1>8, <1>10, <1>11, <1>12, <1>13, <1>14, <1>15,
     <1>16, <1>21, <1>22, <1>24, <1>25, <1>26 DEF Next, Between, NetworkTick

(* The nonces of the MAC, the reservation and flash.                        *)
LEMMA NoncesStayOrdered ==
    ASSUME Inv, [Next]_vars
    PROVE  NonceInv'
<1> USE DEF NonceInv
<1>1. /\ NonceInv /\ manager \in ManagerType /\ mac \in MacType /\ flash \in FlashType
      /\ sent \in Nonces
  BY DEF Inv, ManagerTypeOK
<1>2. /\ sent \in Nat /\ mac.devNonce \in Nat /\ flash.devNonce \in Nat
      /\ manager.reservedEnd \in Nat
  BY <1>1 DEF ManagerType, MacType, FlashType, Nonces
<1>3. CASE PowerLoss
  <2>1. /\ manager'.reservedEnd = flash.devNonce /\ mac'.devNonce = flash.devNonce
        /\ flash' = flash /\ sent' = sent /\ pc' = "loop"
    BY <1>3 DEF PowerLoss, IdleManager, IdleMac
  <2>2. QED
    BY <1>1, <1>2, <2>1
<1>4. ASSUME manager'.reservedEnd = manager.reservedEnd, mac'.devNonce = mac.devNonce,
             flash' = flash, sent' = sent, pc' # "request"
      PROVE  NonceInv'
  BY <1>1, <1>4
<1>5. ASSUME NEW b, NEW m, m = [manager EXCEPT !.activated = b]
      PROVE  m.reservedEnd = manager.reservedEnd
  BY <1>1, <1>5 DEF ManagerType
<1>6. CASE Idle \/ JoinNow
  BY <1>4, <1>6 DEF Idle, JoinNow, managerVars, outside, InLoop
<1>7. CASE Transmit \/ SessionGone \/ JoinAccepted \/ JoinUnheard
  <2>1. mac'.devNonce = mac.devNonce
    BY <1>1, <1>7 DEF Transmit, SessionGone, JoinAccepted, JoinUnheard, MacType
  <2>2. QED
    BY <1>4, <1>7, <2>1 DEF Transmit, SessionGone, JoinAccepted, JoinUnheard, InLoop
<1>8. CASE JoinResult \/ Transmitted
  <2>1. mac'.devNonce = mac.devNonce
    BY <1>1, <1>8 DEF JoinResult, Transmitted, MacType
  <2>2. manager'.reservedEnd = manager.reservedEnd
    BY <1>1, <1>8 DEF JoinResult, Transmitted, ManagerType
  <2>3. QED
    BY <1>4, <1>8, <2>1, <2>2 DEF JoinResult, Transmitted, InLoop
<1>9. CASE TickBegin
  <2>1. manager'.reservedEnd = manager.reservedEnd
    BY <1>1, <1>9 DEF TickBegin, ManagerType
  <2>2. QED
    BY <1>4, <1>9, <2>1 DEF TickBegin, outside
<1>10. CASE TickJoined \/ TickJoinFailed
  <2>1. manager'.reservedEnd = manager.reservedEnd
    BY <1>1, <1>10 DEF TickJoined, TickJoinFailed, Consumed, ManagerType
  <2>2. flash'.devNonce = flash.devNonce
    BY <1>1, <1>10 DEF TickJoined, TickJoinFailed, outside, FlashType
  <2>3. mac' = mac /\ sent' = sent /\ pc' = "session"
    BY <1>10 DEF TickJoined, TickJoinFailed, outside
  <2>4. QED
    BY <1>1, <2>1, <2>2, <2>3
<1>11. CASE TickSession \/ ChooseRefused \/ ChooseAutomatic \/ TickReady \/ TickSkip
  <2>1. manager'.reservedEnd = manager.reservedEnd
    BY <1>5, <1>11
       DEF TickSession, ChooseRefused, ChooseAutomatic, TickReady, TickSkip, Forget
  <2>2. QED
    BY <1>4, <1>11, <2>1
       DEF TickSession, ChooseRefused, ChooseAutomatic, TickReady, TickSkip, outside
<1>12. CASE ChooseByHand \/ PrepareRefused
  <2>1. manager'.reservedEnd = manager.reservedEnd
    BY <1>5, <1>12 DEF ChooseByHand, PrepareRefused, Forget
  <2>2. mac'.devNonce = mac.devNonce
    BY <1>1, <1>12 DEF ChooseByHand, PrepareRefused, MacType
  <2>3. QED
    BY <1>4, <1>12, <2>1, <2>2 DEF ChooseByHand, PrepareRefused
<1>13. /\ NextReservation(mac.devNonce) \in Nat
       /\ mac.devNonce <= NextReservation(mac.devNonce)
       /\ mac.devNonce # MaxNonce => mac.devNonce < NextReservation(mac.devNonce)
  BY <1>1, NonceFacts DEF MacType, Nonces
<1>14. CASE PrepareFault
  <2>1. manager'.reservedEnd = manager.reservedEnd
    BY <1>5, <1>14 DEF PrepareFault, Forget
  <2>2. mac'.devNonce = mac.devNonce
    BY <1>1, <1>14 DEF PrepareFault, MacType
  <2>3. \/ flash' = flash
        \/ ReservationSpent /\ flash'.devNonce = NextReservation(mac.devNonce)
    BY <1>1, <1>14 DEF PrepareFault, FlashType
  <2>4. sent' = sent /\ pc' = "loop"
    BY <1>14 DEF PrepareFault
  <2>5. ReservationSpent <=> mac.devNonce >= manager.reservedEnd
    BY DEF ReservationSpent
  <2>6. QED
    BY <1>1, <1>2, <1>13, <2>1, <2>2, <2>3, <2>4, <2>5
<1>15. CASE Prepare
  <2>1. mac'.devNonce = mac.devNonce
    BY <1>1, <1>15 DEF Prepare, MacType
  <2>2. sent' = sent /\ mac.devNonce # MaxNonce
    BY <1>15 DEF Prepare
  <2>3. CASE ReservationSpent
    <3>1. /\ manager'.reservedEnd = NextReservation(mac.devNonce)
          /\ flash'.devNonce = NextReservation(mac.devNonce)
      BY <1>1, <1>15, <2>3 DEF Prepare, ManagerType, FlashType
    <3>2. QED
      BY <1>1, <1>2, <1>13, <2>1, <2>2, <3>1
  <2>4. CASE ~ReservationSpent
    <3>1. flash' = flash /\ manager'.reservedEnd = manager.reservedEnd
      BY <1>5, <1>15, <2>4 DEF Prepare, Forget
    <3>2. mac.devNonce < manager.reservedEnd
      BY <1>2, <2>4 DEF ReservationSpent
    <3>3. QED
      BY <1>1, <1>2, <2>1, <2>2, <3>1, <3>2
  <2>5. QED
    BY <2>3, <2>4
<1>16. CASE Request
  <2>1. manager'.reservedEnd = manager.reservedEnd
    BY <1>1, <1>16 DEF Request, ManagerType
  <2>2. mac'.devNonce = mac.devNonce + 1
    BY <1>1, <1>16 DEF Request, MacType
  <2>3. /\ flash' = flash /\ sent' = mac.devNonce + 1 /\ pc' = "loop"
        /\ mac.devNonce < manager.reservedEnd
    BY <1>1, <1>16 DEF Request
  <2>4. QED
    BY <1>1, <1>2, <2>1, <2>2, <2>3
<1>17. CASE RequestRefused
  <2>1. mac'.devNonce \in {mac.devNonce, mac.devNonce + 1}
    BY <1>1, <1>17 DEF RequestRefused, MacType
  <2>2. /\ manager' = manager /\ flash' = flash /\ sent' = sent /\ pc' = "loop"
        /\ mac.devNonce < manager.reservedEnd
    BY <1>1, <1>17 DEF RequestRefused
  <2>3. QED
    BY <1>1, <1>2, <2>1, <2>2
<1>18. CASE UNCHANGED vars
  BY <1>1, <1>18 DEF vars, managerVars, outside
<1>19. QED
  BY <1>3, <1>6, <1>7, <1>8, <1>9, <1>10, <1>11, <1>12, <1>14, <1>15, <1>16, <1>17, <1>18
     DEF Next, Between, NetworkTick

(* A join belongs to its profile until its result is consumed.              *)
LEMMA JoinStaysWithProfile ==
    ASSUME Inv, [Next]_vars
    PROVE  JoinInv'
<1>1. /\ JoinInv /\ manager \in ManagerType /\ mac \in MacType /\ PlaceInv
      /\ server \in [Ranks -> Nat]
  BY DEF Inv, ManagerTypeOK
<1>2. manager.joinInFlight \in BOOLEAN
  BY <1>1 DEF ManagerType
<1>3. CASE PowerLoss
  <2>1. /\ ~manager'.joinInFlight /\ manager'.result = Nothing
        /\ mac'.doing = "nothing" /\ mac'.outcome = Nothing
    BY <1>3 DEF PowerLoss, IdleManager, IdleMac
  <2>2. policy'.state # "JOINING"
    BY <1>3, BegunOK DEF PowerLoss, Reboot
  <2>3. QED
    BY <2>1, <2>2 DEF JoinInv
<1>4. CASE Idle
  <2>1. policy'.state = policy.state /\ policy'.rank = policy.rank
    BY <1>4, PolicyMoves DEF Idle, Pass
  <2>2. QED
    BY <1>1, <1>4, <2>1 DEF JoinInv, Idle, managerVars, outside, InLoop
<1>5. CASE JoinNow
  BY <1>1, <1>5 DEF JoinInv, JoinNow, Ask, managerVars, outside, InLoop
<1>6. CASE Transmit \/ SessionGone
  <2>1. /\ mac'.owner = mac.owner /\ mac'.outcome = mac.outcome
        /\ mac'.joinNonce = mac.joinNonce /\ (mac'.doing = "join" => mac.doing = "join")
    BY <1>1, <1>6 DEF Transmit, SessionGone, MacType
  <2>2. QED
    BY <1>1, <1>6, <2>1 DEF JoinInv, Transmit, SessionGone, policyVars
<1>7. CASE Transmitted
  <2>1. /\ mac'.owner = mac.owner /\ mac'.outcome = mac.outcome
        /\ mac'.joinNonce = mac.joinNonce /\ mac'.doing = "nothing"
    BY <1>1, <1>7 DEF Transmitted, MacType
  <2>2. /\ manager'.joinInFlight = manager.joinInFlight
        /\ manager'.result = manager.result
    BY <1>1, <1>7 DEF Transmitted, ManagerType
  <2>3. \/ policy.state = "ONLINE" /\ policy'.state # "JOINING"
        \/ policy' = policy
    <3>1. CASE Check
      BY <3>1, InvFacts DEF Check, PolicyType
    <3>2. CASE /\ policy.state = "ONLINE"
               /\ policy' = Failed([policy EXCEPT !.failures = 2])
      BY <3>2, SecondMiss
    <3>3. CASE UNCHANGED policyVars
      BY <3>3 DEF policyVars
    <3>4. QED
      BY <1>7, <3>1, <3>2, <3>3 DEF Transmitted, policyVars
  <2>4. pc' = pc /\ server' = server
    BY <1>7 DEF Transmitted
  <2>5. QED
    BY <1>1, <2>1, <2>2, <2>3, <2>4 DEF JoinInv
<1>8. CASE JoinAccepted \/ JoinUnheard
  <2>1. /\ manager.joinInFlight /\ mac.owner = policy.rank
        /\ policy.rank \in Usable /\ policy.rank \in Ranks
    BY <1>1, <1>8, RankFacts DEF JoinInv, JoinAccepted, JoinUnheard
  <2>2. /\ mac'.owner = mac.owner /\ mac'.doing = "nothing"
        /\ mac'.outcome.owner = mac.owner /\ manager.result = Nothing
    <3>1. CASE JoinAccepted
      BY <1>1, <3>1 DEF JoinAccepted, MacType, JoinInv
    <3>2. CASE JoinUnheard
      BY <1>1, <3>2 DEF JoinUnheard, MacType, JoinInv
    <3>3. QED
      BY <1>8, <3>1, <3>2
  <2>3. mac'.joinNonce <= server'[policy.rank]
    <3>1. server[policy.rank] \in Nat /\ mac.joinNonce \in Nat
          /\ mac.joinNonce <= server[policy.rank]
      BY <1>1, <2>1 DEF JoinInv, MacType
    <3>2. CASE JoinAccepted
      <4>1. /\ server'[policy.rank] = server[policy.rank] + 1
            /\ mac'.joinNonce = server[policy.rank] + 1
        BY <1>1, <2>1, <3>2 DEF JoinAccepted, MacType
      <4>2. QED
        BY <3>1, <4>1
    <3>3. CASE JoinUnheard
      <4>1. /\ server'[policy.rank] \in {server[policy.rank], server[policy.rank] + 1}
            /\ mac'.joinNonce = mac.joinNonce
        BY <1>1, <2>1, <3>3 DEF JoinUnheard, MacType
      <4>2. QED
        BY <3>1, <4>1
    <3>4. QED
      BY <1>8, <3>2, <3>3
  <2>4. UNCHANGED <<policyVars, pc, manager>>
    BY <1>8 DEF JoinAccepted, JoinUnheard
  <2>5. QED
    BY <1>1, <2>1, <2>2, <2>3, <2>4 DEF JoinInv, policyVars
<1>9. CASE JoinResult
  <2>1. /\ manager'.joinInFlight = manager.joinInFlight
        /\ manager'.result \in {manager.result, mac.outcome}
    BY <1>1, <1>9 DEF JoinResult, ManagerType
  <2>2. /\ mac'.owner = mac.owner /\ mac'.outcome = Nothing
        /\ mac'.joinNonce = mac.joinNonce /\ mac'.doing = mac.doing
    BY <1>1, <1>9 DEF JoinResult, MacType
  <2>3. QED
    BY <1>1, <1>9, <2>1, <2>2 DEF JoinInv, JoinResult, policyVars
<1>10. CASE TickBegin
  <2>1. /\ manager'.joinInFlight = manager.joinInFlight
        /\ manager'.result = Nothing
    BY <1>1, <1>10 DEF TickBegin, ManagerType
  <2>2. QED
    BY <1>1, <1>10, <2>1 DEF JoinInv, TickBegin, policyVars, outside
<1>11. CASE TickJoined \/ TickJoinFailed
  <2>1. manager.joinInFlight /\ policy.rank # None /\ manager.result # Nothing
    BY <1>1, <1>11, InvFacts DEF JoinInv, TickJoined, TickJoinFailed, Consumes
  <2>2. ~manager'.joinInFlight /\ manager'.result = Nothing
    BY <1>1, <1>11 DEF TickJoined, TickJoinFailed, Consumed, ManagerType
  <2>3. policy'.state # "JOINING"
    BY <1>11, <2>1, PolicyMoves, InvFacts DEF TickJoined, TickJoinFailed, PolicyType
  <2>4. mac' = mac
    BY <1>11 DEF TickJoined, TickJoinFailed, outside
  <2>5. mac.doing # "join" /\ mac.outcome = Nothing
    BY <1>1, <2>1 DEF JoinInv
  <2>6. QED
    BY <2>2, <2>3, <2>4, <2>5 DEF JoinInv
<1>12. CASE TickSession
  <2>1. ~JoinOverdue
    BY <1>1 DEF JoinInv, JoinOverdue, Busy
  <2>2. /\ manager'.joinInFlight = manager.joinInFlight
        /\ manager'.result = manager.result
    BY <1>1, <1>12 DEF TickSession, ManagerType
  <2>3. /\ policy'.state = "JOINING" <=> policy.state = "JOINING"
        /\ policy.state = "JOINING" => policy'.rank = policy.rank
    <3>1. CASE SessionLost
      BY <1>12, <3>1, PolicyMoves, InvFacts DEF TickSession, SessionLost
    <3>2. CASE ~SessionLost
      BY <1>12, <2>1, <3>2 DEF TickSession
    <3>3. QED
      BY <3>1, <3>2
  <2>4. manager.joinInFlight => pc' = "loop"
    BY <1>12 DEF TickSession, Busy
  <2>5. mac' = mac /\ server' = server
    BY <1>12 DEF TickSession, outside
  <2>6. QED
    BY <1>1, <2>2, <2>3, <2>4, <2>5 DEF JoinInv
<1>13. ASSUME ~manager.joinInFlight, mac.doing = "nothing",
              ~manager'.joinInFlight, manager'.result = manager.result,
              mac'.doing = mac.doing, mac'.outcome = mac.outcome,
              policy'.state # "JOINING"
       PROVE  JoinInv'
  BY <1>1, <1>13 DEF JoinInv
<1>14. ASSUME pc \in {"choose", "ready", "skip", "prepare", "request"}
       PROVE  /\ ~manager.joinInFlight /\ mac.doing = "nothing"
              /\ policy.state # "JOINING"
  BY <1>1, <1>14 DEF JoinInv, PlaceInv
<1>15. /\ Forget => /\ manager'.joinInFlight = manager.joinInFlight
                    /\ manager'.result = manager.result
  BY <1>1 DEF Forget, ManagerType
<1>16. CASE ChooseByHand
  <2>1. mac'.doing = mac.doing /\ mac'.outcome = mac.outcome
    BY <1>1, <1>16 DEF ChooseByHand, MacType
  <2>2. policy'.state # "JOINING"
    BY <1>14, <1>16, PolicyMoves DEF ChooseByHand
  <2>3. /\ manager'.joinInFlight = manager.joinInFlight
        /\ manager'.result = manager.result
    BY <1>15, <1>16 DEF ChooseByHand
  <2>4. QED
    BY <1>13, <1>14, <1>16, <2>1, <2>2, <2>3 DEF ChooseByHand
<1>17. CASE ChooseRefused
  <2>1. policy'.state # "JOINING"
    BY <1>14, <1>17, PolicyMoves DEF ChooseRefused
  <2>2. QED
    BY <1>13, <1>14, <1>15, <1>17, <2>1 DEF ChooseRefused, outside
<1>18. CASE ChooseAutomatic
  <2>1. policy'.state # "JOINING"
    BY <1>14, <1>18, PolicyMoves DEF ChooseAutomatic
  <2>2. QED
    BY <1>13, <1>14, <1>15, <1>18, <2>1 DEF ChooseAutomatic, outside
<1>19. CASE TickReady
  <2>1. policy'.state # "JOINING"
    BY <1>14, <1>19, PolicyMoves DEF TickReady
  <2>2. QED
    BY <1>13, <1>14, <1>19, <2>1 DEF TickReady, outside
<1>20. CASE TickSkip
  <2>1. policy'.state # "JOINING"
    BY <1>14, <1>20, PolicyMoves, InvFacts DEF TickSkip, Skippable
  <2>2. QED
    BY <1>13, <1>14, <1>20, <2>1 DEF TickSkip, outside
<1>21. CASE PrepareRefused
  <2>1. mac'.doing = mac.doing /\ mac'.outcome = mac.outcome
    BY <1>1, <1>21 DEF PrepareRefused, MacType
  <2>2. policy'.state # "JOINING"
    BY <1>21, PolicyMoves DEF PrepareRefused
  <2>3. QED
    BY <1>13, <1>14, <1>15, <1>21, <2>1, <2>2 DEF PrepareRefused
<1>22. CASE PrepareFault
  <2>1. mac'.doing = mac.doing /\ mac'.outcome = mac.outcome
    BY <1>1, <1>22 DEF PrepareFault, MacType
  <2>2. policy'.state # "JOINING"
    BY <1>22, InvFacts DEF PrepareFault, PolicyType
  <2>3. QED
    BY <1>13, <1>14, <1>15, <1>22, <2>1, <2>2 DEF PrepareFault
<1>23. CASE Prepare
  <2>1. mac'.doing = mac.doing /\ mac'.outcome = mac.outcome
    BY <1>1, <1>23 DEF Prepare, MacType
  <2>2. /\ manager'.joinInFlight = manager.joinInFlight
        /\ manager'.result = manager.result
    BY <1>1, <1>15, <1>23 DEF Prepare, ManagerType
  <2>3. policy' = policy
    BY <1>23 DEF Prepare, policyVars
  <2>4. QED
    BY <1>13, <1>14, <1>23, <2>1, <2>2, <2>3 DEF Prepare
<1>24. CASE Request
  <2>1. /\ policy.rank \in Usable /\ policy.rank # None
        /\ mac.joinNonce <= server[policy.rank]
    BY <1>24, UsableFacts DEF Inv, PlaceInv, LedgerInv, Request
  <2>2. manager.result = Nothing /\ mac.outcome = Nothing
    BY <1>1, <1>14, <1>24 DEF JoinInv, Request
  <2>3. /\ mac'.owner = policy.rank /\ mac'.joinNonce = mac.joinNonce
        /\ mac'.outcome = mac.outcome
    BY <1>1, <1>24 DEF Request, MacType
  <2>4. manager'.joinInFlight /\ manager'.result = manager.result
    BY <1>1, <1>24 DEF Request, ManagerType
  <2>5. policy'.state = "JOINING" /\ policy'.rank = policy.rank
    BY <1>24, <2>1, PolicyMoves DEF Request
  <2>6. pc' = "loop" /\ server' = server
    BY <1>24 DEF Request
  <2>7. QED
    BY <2>1, <2>2, <2>3, <2>4, <2>5, <2>6 DEF JoinInv
<1>25. CASE RequestRefused
  <2>1. mac'.doing = mac.doing /\ mac'.outcome = mac.outcome
    BY <1>1, <1>25 DEF RequestRefused, MacType
  <2>2. policy'.state # "JOINING"
    BY <1>25, PolicyMoves DEF RequestRefused
  <2>3. QED
    BY <1>13, <1>14, <1>25, <2>1, <2>2 DEF RequestRefused
<1>26. CASE UNCHANGED vars
  BY <1>1, <1>26 DEF JoinInv, vars, policyVars, managerVars, outside
<1>27. QED
  BY <1>3, <1>4, <1>5, <1>6, <1>7, <1>8, <1>9, <1>10, <1>11, <1>12, <1>16, <1>17, <1>18,
     <1>19, <1>20, <1>21, <1>22, <1>23, <1>24, <1>25, <1>26 DEF Next, Between, NetworkTick

(* Where networkTick is: what it has found holds until it has joined.       *)
LEMMA PlacesStay ==
    ASSUME Inv, [Next]_vars
    PROVE  PlaceInv'
<1>1. /\ PlaceInv /\ JoinInv /\ manager \in ManagerType /\ mac \in MacType
      /\ manual \in ManualType /\ PolicyOK(policy)
  BY InvFacts DEF Inv, ManagerTypeOK
<1>2. /\ NotAsked.rank = None /\ ~NotAsked.selected
  BY DEF NotAsked
<1>3. ASSUME pc' \in {"loop", "session"},
             manual'.selected => manual'.rank # None /\ policy'.state = "WAITING"
      PROVE  PlaceInv'
  BY <1>3 DEF PlaceInv
<1>4. ASSUME pc' \in {"loop", "session"}, manual' \in {manual, NotAsked},
             policy.state # "WAITING" \/ policy'.state = "WAITING"
      PROVE  PlaceInv'
  BY <1>1, <1>2, <1>3, <1>4 DEF PlaceInv
<1>5. CASE PowerLoss
  BY <1>2, <1>3, <1>5 DEF PowerLoss, Reboot
<1>6. CASE Idle
  BY <1>4, <1>6, PolicyMoves DEF Idle, Pass, InLoop, managerVars
<1>7. CASE JoinNow
  <2>1. PICK r \in Usable : manual' = IF manual.rank = r THEN manual
                                      ELSE [rank |-> r, selected |-> FALSE]
    BY <1>7 DEF JoinNow, Ask
  <2>2. pc' = "loop" /\ policy' = policy
    BY <1>7 DEF JoinNow, Ask, InLoop, managerVars
  <2>3. manual' = manual \/ ~manual'.selected
    BY <2>1
  <2>4. QED
    BY <1>1, <1>3, <2>2, <2>3 DEF PlaceInv
<1>8. CASE Transmit \/ SessionGone \/ JoinAccepted \/ JoinUnheard \/ JoinResult
  BY <1>4, <1>8
     DEF Transmit, SessionGone, JoinAccepted, JoinUnheard, JoinResult, InLoop, policyVars
<1>9. CASE Transmitted
  <2>1. policy.state # "WAITING" \/ policy' = policy
    BY <1>9 DEF Transmitted, Check, policyVars
  <2>2. pc' = "loop" /\ manual' = manual
    BY <1>9 DEF Transmitted, Check, InLoop, policyVars
  <2>3. QED
    BY <1>4, <2>1, <2>2
<1>10. CASE TickBegin
  BY <1>4, <1>10 DEF TickBegin, policyVars
<1>11. CASE TickJoined \/ TickJoinFailed
  BY <1>4, <1>11 DEF TickJoined, TickJoinFailed, Consumes
<1>12. CASE TickSession
  <2>1. ~JoinOverdue
    BY <1>1 DEF JoinInv, JoinOverdue, Busy
  <2>2. policy' = IF SessionLost THEN Failed(policy) ELSE policy
    BY <1>12, <2>1 DEF TickSession
  <2>3. policy'.state # "FAULT" => manual' = manual
    BY <1>12, <2>1, <2>2 DEF TickSession, Faulted
  <2>4. policy'.state = "FAULT" => manual' = NotAsked
    BY <1>12, <2>1, <2>2 DEF TickSession, Faulted
  <2>5. policy.state # "WAITING" \/ policy'.state = "WAITING"
    BY <2>2 DEF SessionLost
  <2>6. CASE pc' = "loop"
    BY <1>4, <2>3, <2>4, <2>5, <2>6
  <2>7. CASE pc' # "loop"
    <3>1. pc' = "choose" /\ policy'.state # "FAULT" /\ ~Busy
      BY <1>12, <2>1, <2>2, <2>7 DEF TickSession, Faulted
    <3>2. mac' = mac /\ mac.doing = "nothing" /\ policy.state # "JOINING"
      BY <1>1, <1>12, <3>1 DEF TickSession, Busy, outside, JoinInv
    <3>3. policy'.state # "JOINING"
      BY <2>2, <3>2, PolicyMoves, InvFacts DEF SessionLost
    <3>4. QED
      BY <1>1, <2>3, <2>5, <3>1, <3>2, <3>3 DEF PlaceInv
  <2>8. QED
    BY <2>6, <2>7
<1>13. ASSUME pc \in {"choose", "ready", "skip", "prepare", "request"}
       PROVE  policy.state \notin {"JOINING", "FAULT"} /\ mac.doing = "nothing"
  BY <1>1, <1>13 DEF PlaceInv
<1>14. CASE ChooseByHand
  <2>1. pc' = "prepare" /\ manual.rank # None /\ mac'.doing = mac.doing
    BY <1>1, <1>14 DEF ChooseByHand, MacType
  <2>2. /\ policy'.state = "WAITING" /\ policy'.rank \in Usable
        /\ manual'.selected /\ manual'.rank # None
    <3>1. CASE manual.selected
      BY <1>1, <1>14, <3>1, InvFacts DEF ChooseByHand, PlaceInv
    <3>2. CASE ~manual.selected
      BY <1>1, <1>14, <3>2, InvFacts, PolicyMoves DEF ChooseByHand, ManualType
    <3>3. QED
      BY <3>1, <3>2
  <2>3. QED
    BY <1>13, <1>14, <2>1, <2>2 DEF PlaceInv, ChooseByHand
<1>15. CASE ChooseRefused
  <2>1. pc' = "loop" /\ (policy' = policy \/ policy'.state = "WAITING")
    BY <1>15, PolicyMoves DEF ChooseRefused
  <2>2. QED
    BY <1>4, <1>15, <2>1 DEF ChooseRefused
<1>16. CASE ChooseAutomatic
  <2>1. /\ pc' = "ready" /\ manual' = manual /\ manual.rank = None /\ mac' = mac
        /\ ~manual.selected /\ mac.doing = "nothing"
    BY <1>1, <1>13, <1>16 DEF ChooseAutomatic, outside, PlaceInv
  <2>2. ~PreemptDue(policy') /\ policy'.state \notin {"JOINING", "FAULT"}
    BY <1>13, <1>16, PolicyMoves DEF ChooseAutomatic
  <2>3. QED
    BY <1>13, <1>16, <2>1, <2>2 DEF PlaceInv
<1>17. CASE TickReady
  <2>1. /\ pc = "ready" /\ manual.rank = None /\ ~PreemptDue(policy) /\ ~manual.selected
        /\ manual' = manual /\ mac' = mac /\ policy' = Considered(policy)
    BY <1>1, <1>17 DEF PlaceInv, TickReady, outside
  <2>2. policy'.state \notin {"JOINING", "FAULT"} /\ policy'.rank = policy.rank
    BY <1>13, <2>1, PolicyMoves
  <2>3. CASE IsReady(policy)
    <3>1. pc' = "prepare"
      BY <1>17, <2>3 DEF TickReady, Approved
    <3>2. IsReady(policy') /\ ~PreemptDue(policy') /\ policy'.state = "WAITING"
      BY <1>1, <2>1, <2>3, ReadyStays, ConsideredOK
    <3>3. policy'.rank \in Usable
      BY <2>2, <2>3, InvFacts DEF IsReady, Candidate
    <3>4. QED
      BY <1>13, <2>1, <2>2, <3>1, <3>2, <3>3 DEF PlaceInv
  <2>4. CASE ~IsReady(policy)
    <3>1. pc' = "skip"
      BY <1>17, <2>4 DEF TickReady, Approved
    <3>2. QED
      BY <1>13, <2>1, <2>2, <3>1 DEF PlaceInv
  <2>5. QED
    BY <2>3, <2>4
<1>18. CASE TickSkip
  <2>1. pc' = "loop" /\ manual' = manual /\ ~manual.selected
    BY <1>1, <1>18 DEF PlaceInv, TickSkip
  <2>2. QED
    BY <1>3, <2>1
<1>19. CASE PrepareRefused \/ RequestRefused
  BY <1>4, <1>19, PolicyMoves DEF PrepareRefused, RequestRefused, KeptOrNot
<1>20. CASE PrepareFault
  BY <1>2, <1>3, <1>20 DEF PrepareFault
<1>21. CASE Prepare
  <2>1. pc = "prepare" /\ pc' = "request" /\ policy' = policy /\ manual' = manual
        /\ mac'.doing = mac.doing
    BY <1>1, <1>21 DEF Prepare, policyVars, MacType
  <2>2. QED
    BY <1>1, <1>13, <2>1 DEF PlaceInv
<1>22. CASE Request
  BY <1>2, <1>3, <1>22 DEF Request
<1>23. CASE UNCHANGED vars
  BY <1>1, <1>23 DEF PlaceInv, vars, policyVars, managerVars, outside
<1>24. QED
  BY <1>5, <1>6, <1>7, <1>8, <1>9, <1>10, <1>11, <1>12, <1>14, <1>15, <1>16, <1>17, <1>18,
     <1>19, <1>20, <1>21, <1>22, <1>23 DEF Next, Between, NetworkTick

(* JoinNonces: flash keeps none that the server has not handed out.         *)
LEMMA LedgerStaysBehind ==
    ASSUME Inv, [Next]_vars
    PROVE  LedgerInv'
<1>1. /\ LedgerInv /\ flash \in FlashType /\ flash.ledger \in [Ranks -> Nat]
      /\ server \in [Ranks -> Nat] /\ mac \in MacType
  BY DEF Inv, ManagerTypeOK, FlashType
<1>2. ASSUME flash'.ledger = flash.ledger, server' = server, pc' # "request"
      PROVE  LedgerInv'
  BY <1>1, <1>2 DEF LedgerInv
<1>3. CASE PowerLoss \/ Idle \/ JoinNow
  BY <1>2, <1>3 DEF PowerLoss, Idle, JoinNow, InLoop, managerVars, outside
<1>4. CASE Transmit \/ Transmitted \/ SessionGone \/ JoinResult
  BY <1>2, <1>4 DEF Transmit, Transmitted, SessionGone, JoinResult, InLoop
<1>5. CASE JoinAccepted \/ JoinUnheard
  <2>1. mac.owner \in Ranks
    BY <1>5, RankFacts DEF Inv, JoinInv, JoinAccepted, JoinUnheard
  <2>2. /\ flash' = flash /\ pc' = "loop"
        /\ server' \in {server, [server EXCEPT ![mac.owner] = server[mac.owner] + 1]}
    BY <1>5 DEF JoinAccepted, JoinUnheard, InLoop
  <2>3. ASSUME NEW r \in Ranks
        PROVE  flash.ledger[r] <= server'[r]
    <3>1. server[r] \in Nat /\ flash.ledger[r] \in Nat /\ flash.ledger[r] <= server[r]
      BY <1>1 DEF LedgerInv
    <3>2. server'[r] \in {server[r], server[r] + 1}
      BY <1>1, <2>1, <2>2
    <3>3. QED
      BY <3>1, <3>2
  <2>4. QED
    BY <2>2, <2>3 DEF LedgerInv
<1>6. CASE TickBegin \/ TickJoinFailed \/ TickSession
  BY <1>2, <1>6 DEF TickBegin, TickJoinFailed, TickSession, outside
<1>7. CASE TickJoined
  <2>1. mac.joinNonce <= server[policy.rank] /\ policy.rank \in Ranks
    BY <1>7, RankFacts DEF Inv, JoinInv, TickJoined, Consumes
  <2>2. /\ server' = server /\ pc' = "session"
        /\ flash' \in {flash, [flash EXCEPT !.ledger[policy.rank] = mac.joinNonce]}
    BY <1>7 DEF TickJoined
  <2>3. ASSUME NEW r \in Ranks
        PROVE  flash'.ledger[r] <= server[r]
    <3>1. \/ flash'.ledger[r] = flash.ledger[r]
          \/ r = policy.rank /\ flash'.ledger[r] = mac.joinNonce
      BY <1>1, <2>1, <2>2 DEF FlashType
    <3>2. QED
      BY <1>1, <2>1, <3>1 DEF LedgerInv
  <2>4. QED
    BY <2>2, <2>3 DEF LedgerInv
<1>8. CASE ChooseByHand \/ ChooseRefused \/ ChooseAutomatic \/ TickReady \/ TickSkip
  BY <1>2, <1>8
     DEF ChooseByHand, ChooseRefused, ChooseAutomatic, TickReady, TickSkip, outside
<1>9. CASE PrepareRefused
  BY <1>2, <1>9 DEF PrepareRefused
<1>10. CASE PrepareFault
  <2>1. flash'.ledger = flash.ledger
    BY <1>1, <1>10 DEF PrepareFault, FlashType
  <2>2. QED
    BY <1>2, <1>10, <2>1 DEF PrepareFault
<1>11. CASE Prepare
  <2>1. flash'.ledger = flash.ledger
    BY <1>1, <1>11 DEF Prepare, FlashType
  <2>2. mac'.joinNonce = flash.ledger[policy.rank]
    BY <1>1, <1>11 DEF Prepare, MacType, KnownNonce
  <2>3. policy.rank \in Ranks
    BY <1>11, RankFacts DEF Inv, PlaceInv, Prepare
  <2>4. policy' = policy /\ server' = server
    BY <1>11 DEF Prepare, policyVars
  <2>5. QED
    BY <1>1, <2>1, <2>2, <2>3, <2>4 DEF LedgerInv
<1>12. CASE Request \/ RequestRefused
  BY <1>2, <1>12 DEF Request, RequestRefused
<1>13. CASE UNCHANGED vars
  BY <1>1, <1>13 DEF LedgerInv, vars, policyVars, managerVars, outside
<1>14. QED
  BY <1>3, <1>4, <1>5, <1>6, <1>7, <1>8, <1>9, <1>10, <1>11, <1>12, <1>13
     DEF Next, Between, NetworkTick

-----------------------------------------------------------------------------
(* The invariant holds, and the theorems follow from it.                    *)

LEMMA InvHolds ==
    /\ Init => Inv
    /\ Inv /\ [Next]_vars => Inv'
<1>1. ASSUME Init PROVE Inv
  <2>1. PolicyInv
    BY <1>1, PolicyInvHolds DEF Init
  <2>2. /\ pc = "loop" /\ manager = IdleManager(0) /\ mac = IdleMac(0) /\ sent = 0
        /\ flash = [devNonce |-> 0, ledger |-> [r \in Ranks |-> 0]]
        /\ server = [r \in Ranks |-> 0]
    BY <1>1 DEF Init
  <2>3. 0 \in Nonces /\ 0 \in Nat /\ [r \in Ranks |-> 0] \in [Ranks -> Nat]
    BY NonceFacts
  <2>4. ManagerTypeOK
    BY <2>2, <2>3, IdleTypes DEF ManagerTypeOK, FlashType
  <2>5. JoinInv
    BY <1>1, <2>2, BegunOK DEF JoinInv, Init, PolicyInit, IdleManager, IdleMac
  <2>6. PlaceInv
    BY <1>1, <2>2 DEF PlaceInv, Init, PolicyInit, NotAsked
  <2>7. NonceInv
    BY <2>2, <2>3 DEF NonceInv, IdleManager, IdleMac
  <2>8. LedgerInv
    BY <2>2, <2>3 DEF LedgerInv
  <2>9. QED
    BY <2>1, <2>4, <2>5, <2>6, <2>7, <2>8 DEF Inv
<1>2. ASSUME Inv, [Next]_vars PROVE Inv'
  <2>1. PolicyInv'
    BY <1>2, ManagerFollowsPolicy, PolicyInvHolds DEF Inv
  <2>2. QED
    BY <1>2, <2>1, ManagerTypes, JoinStaysWithProfile, PlacesStay, NoncesStayOrdered,
       LedgerStaysBehind DEF Inv
<1>3. QED
  BY <1>1, <1>2

(* Theorem: the variables of the manager and of its policy always have      *)
(* their types; above all, no DevNonce leaves 0..65535, so that the 16 bits *)
(* of nonce_reservation.h never wrap.                                      *)
THEOREM ManagerTypeCorrect == Spec => []TypeOK
<1>1. Inv => TypeOK
  BY DEF Inv, TypeOK, PolicyInv, PolicyOK, PolicyTypeOK
<1>2. QED
  BY <1>1, InvHolds, PTL DEF Spec

(* Theorem: every join request goes on air with a DevNonce higher than all  *)
(* before it, whenever power is lost (network_manager.cpp, the reservation  *)
(* before lmh_join; nonce_reservation.h).                                  *)
THEOREM DevNoncesGoUp == Spec => NonceNeverReused
<1>1. Inv /\ [Next]_vars => [Request => mac'.devNonce > sent]_vars
  <2>1. SUFFICES ASSUME Inv, Request PROVE mac'.devNonce > sent
    OBVIOUS
  <2>2. mac'.devNonce = mac.devNonce + 1
    BY <2>1 DEF Inv, ManagerTypeOK, MacType, Request
  <2>3. sent \in Nat /\ mac.devNonce \in Nat /\ sent <= mac.devNonce
    BY <2>1 DEF Inv, ManagerTypeOK, MacType, Nonces, NonceInv
  <2>4. QED
    BY <2>2, <2>3
<1>2. QED
  BY <1>1, InvHolds, PTL DEF Spec, NonceNeverReused

(* Theorem: while a profile joins, the MAC knows no JoinNonce its server    *)
(* has not handed out, so it takes the next one (network_nonce_store.cpp;   *)
(* networkTick, where the nonce of the profile is put into the MAC).       *)
THEOREM AcceptsStayFresh == Spec => []AcceptsAreFresh
<1>1. Inv => AcceptsAreFresh
  BY DEF Inv, JoinInv, AcceptsAreFresh
<1>2. QED
  BY <1>1, InvHolds, PTL DEF Spec

(* Theorem: the result of a join is only counted for the profile that       *)
(* joined (networkJoinResult, and networkTick, which consumes it later).    *)
THEOREM ResultsAreOwn == Spec => ResultIsOwn
<1>1. Inv /\ [Next]_vars
      => [TickJoined \/ TickJoinFailed => manager.result.owner = policy.rank]_vars
  BY DEF Inv, JoinInv, TickJoined, TickJoinFailed, Consumes
<1>2. QED
  BY <1>1, InvHolds, PTL DEF Spec, ResultIsOwn

(* Theorem: after a fault nothing goes on air until the board restarts      *)
(* (network_policy.h, fault; networkTick, which returns before it chooses). *)
THEOREM FaultsAreFinal == Spec => FaultIsFinal
<1>1. Inv /\ [Next]_vars
      => [policy.state = "FAULT" =>
              PowerLoss \/ (policy'.state = "FAULT" /\ sent' = sent)]_vars
  <2>1. SUFFICES ASSUME Inv, Next, policy.state = "FAULT", ~PowerLoss
                 PROVE  policy'.state = "FAULT" /\ sent' = sent
    OBVIOUS
  <2>2. pc \in {"loop", "session"} /\ ~manager.joinInFlight
    BY <2>1 DEF Inv, PlaceInv, JoinInv, ManagerTypeOK
  <2>3. CASE Idle
    BY <2>1, <2>3, PolicyMoves DEF Idle, Pass, managerVars, outside
  <2>4. CASE JoinNow \/ TickBegin
    BY <2>1, <2>4 DEF JoinNow, Ask, TickBegin, policyVars, managerVars, outside
  <2>5. CASE Transmit \/ SessionGone \/ JoinAccepted \/ JoinUnheard \/ JoinResult
    BY <2>1, <2>5
       DEF Transmit, SessionGone, JoinAccepted, JoinUnheard, JoinResult, policyVars
  <2>6. CASE Transmitted
    BY <2>1, <2>6 DEF Transmitted, Check, policyVars
  <2>7. CASE TickSession
    BY <2>1, <2>7 DEF TickSession, SessionLost, JoinOverdue, outside
  <2>8. QED
    BY <2>1, <2>2, <2>3, <2>4, <2>5, <2>6, <2>7
       DEF Next, Between, NetworkTick, TickJoined, TickJoinFailed, Consumes, ChooseByHand,
           ChooseRefused, ChooseAutomatic, TickReady, TickSkip, PrepareRefused,
           PrepareFault, Prepare, Request, RequestRefused
<1>2. QED
  BY <1>1, InvHolds, PTL DEF Spec, FaultIsFinal

(* Theorem: the join procedure implements the policy: every tick of         *)
(* network_manager.cpp is a step NetworkPolicy allows, or changes nothing   *)
(* of it.                                                                  *)
THEOREM ManagerImplementsPolicy == Spec => FollowsPolicy
<1>1. Init => PolicyInit
  BY DEF Init
<1>2. Inv /\ [Next]_vars => [PolicyNext]_policyVars
  BY ManagerFollowsPolicy
<1>3. QED
  BY <1>1, <1>2, InvHolds, PTL DEF Spec, FollowsPolicy, PolicySpec

=============================================================================
