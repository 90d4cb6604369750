------------------------- MODULE CompanionLinkProofs -------------------------
(***************************************************************************)
(* Proofs about CompanionLink, for every value of its constants.           *)
(***************************************************************************)
EXTENDS CompanionLink, TLAPS

-----------------------------------------------------------------------------
(* Frames.                                                                 *)

(* The frames the STM32 sends are frames the ESP knows, and carry an        *)
(* identifier that was handed out.                                         *)
LEMMA EspFrameFacts ==
    /\ \A id \in Ids : Hello(id) \in EspFrames /\ LoadSet(id) \in EspFrames
    /\ \A f \in EspFrames : f.id \in Ids
BY DEF EspFrames, Hello, LoadSet, Frame

(* The frames the ESP sends are frames the STM32 knows, and their fields    *)
(* are those of their kind.                                                *)
LEMMA StmFrameFacts ==
    /\ \A id \in Ids, s \in Sessions : HelloAck(id, s) \in Replies
    /\ \A id \in Ids : Accepted(id) \in Replies
    /\ \A id \in Ids, c \in ResultCodes : Result(id, c) \in Replies
    /\ \A s \in Sessions : Ready(s) \in StmFrames
    /\ \A on \in BOOLEAN : OtaState(on) \in StmFrames
    /\ Replies \subseteq StmFrames
    /\ \A f \in StmFrames : /\ f.session \in Sessions
                            /\ f.type = "VICTRON_RESULT" => f.code \in ResultCodes /\ f.id \in Ids
<1>1. 0 \in Sessions
  BY BoundsAssumption DEF Sessions
<1>2. \A on \in BOOLEAN : OtaState(on) \in StmFrames
  BY DEF StmFrames, OtaState, Frame
<1>3. \A s \in Sessions : Ready(s) \in StmFrames
  BY DEF StmFrames
<1>4. /\ \A id \in Ids, s \in Sessions : HelloAck(id, s) \in Replies
      /\ \A id \in Ids : Accepted(id) \in Replies
  BY DEF Replies
<1>a. \A id \in Ids, c \in ResultCodes : Result(id, c) \in Replies
  BY DEF Replies
<1>b. Replies \subseteq StmFrames
  BY DEF StmFrames
<1>5. ASSUME NEW f \in StmFrames
      PROVE  /\ f.session \in Sessions
             /\ f.type = "VICTRON_RESULT" => f.code \in ResultCodes /\ f.id \in Ids
  <2>1. CASE \E i \in Ids, s \in Sessions : f = HelloAck(i, s)
    BY <2>1 DEF HelloAck, Frame
  <2>2. CASE \E i \in Ids : f = Accepted(i)
    BY <2>2, <1>1 DEF Accepted, Frame
  <2>3. CASE \E i \in Ids, c \in ResultCodes : f = Result(i, c)
    BY <2>3, <1>1 DEF Result, Frame
  <2>4. CASE \E s \in Sessions : f = Ready(s)
    BY <2>4 DEF Ready, Frame
  <2>5. CASE f \in {OtaState(TRUE), OtaState(FALSE)}
    BY <2>5, <1>1 DEF OtaState, Frame
  <2>6. QED
    <3>1. CASE f \in Replies
      <4>1. CASE f \in {HelloAck(i, s) : i \in Ids, s \in Sessions}
        BY <2>1, <4>1
      <4>2. CASE f \in {Accepted(i) : i \in Ids}
        BY <2>2, <4>2
      <4>3. CASE f \in {Result(i, c) : i \in Ids, c \in ResultCodes}
        BY <2>3, <4>3
      <4>4. QED
        BY <3>1, <4>1, <4>2, <4>3 DEF Replies
    <3>2. CASE f \in {Ready(s) : s \in Sessions}
      BY <2>4, <3>2
    <3>3. QED
      BY <2>5, <3>1, <3>2 DEF StmFrames
<1>6. QED
  BY <1>2, <1>3, <1>4, <1>5, <1>a, <1>b

(* Sending a frame leaves a line of frames.                                *)
LEMMA PutType ==
    ASSUME NEW S, NEW line \in Seq(S), NEW f \in S, NEW sent \in Put(line, f)
    PROVE  sent \in Seq(S)
BY DEF Put

(* allocateRequestId hands out identifiers of the range it keeps to.        *)
LEMMA AllocatedType ==
    ASSUME NEW n \in 1..MaxId + 1
    PROVE  Allocated(n) \in Ids /\ Allocated(n) + 1 \in 1..MaxId + 1
BY BoundsAssumption DEF Allocated, Ids

-----------------------------------------------------------------------------
(* Type correctness.  The identifiers and codes that a board puts into a     *)
(* frame come from its own state, so the invariant says when that state      *)
(* holds an identifier and not the 0 it starts with.                         *)

EspIds ==
    /\ esp.requestActive => esp.requestId \in Ids
    /\ esp.workPending \/ esp.manager = "run" => esp.requestActive
    /\ esp.manager = "run" => ~esp.workPending
    /\ esp.cacheId \in Ids => esp.cacheCode \in ResultCodes
    /\ esp.manager = "send" => esp.outgoing \in Replies

JobIds == job.deliveryStarted => job.requestId \in Ids

TypeInv == TypeOK /\ EspIds /\ JobIds

(* The program starts in a state of the right type.                        *)
LEMMA InitTypes == Init => TypeInv
<1>1. 0 \in 0..MaxId /\ 1 \in 1..MaxId + 1 /\ 0 \notin Ids
      /\ 0 \in Sessions /\ 0 \in 0..MaxJobs /\ 0 \in 0..MaxUploads
      /\ 0 \in 0..MaxAllocations /\ 0 \in 0..OtaHold /\ 0 \in 0..ClockMax
      /\ 0 \in 0..HelloMaxAttempts /\ 0 \in 0..MaxLinkFailures
  BY LimitsAssumption, BoundsAssumption DEF Sessions, Ids, ClockMax
<1>2. SUFFICES ASSUME Init PROVE TypeInv
  OBVIOUS
<1>3. job \in JobType /\ clock \in ClockType /\ link \in LinkType
  BY <1>1, <1>2 DEF Init, IdleJob, ZeroClock, JobType, ClockType, LinkType
<1>4. history \in HistoryType
  BY <1>1, <1>2 DEF Init, HistoryType
<1>6. esp \in EspType
  BY <1>1, <1>2 DEF Init, FreshEsp, EspType
<1>7. toEsp \in Seq(EspFrames) /\ toStm \in Seq(StmFrames)
  BY <1>2 DEF Init
<1>8. EspIds /\ JobIds
  BY <1>1, <1>2 DEF Init, EspIds, JobIds, FreshEsp, IdleJob
<1>9. QED
  BY <1>1, <1>2, <1>3, <1>4, <1>6, <1>7, <1>8 DEF Init, TypeInv, TypeOK

(* finishVictron keeps the types of the job, and its identifier.           *)
LEMMA FinishTypes ==
    ASSUME NEW j \in JobType, NEW code \in Outcomes, Finish(j, code)
    PROVE  /\ job' \in JobType /\ clock' \in ClockType
           /\ victronResult' \in Outcomes \cup {NoResult}
           /\ job'.requestId = j.requestId
           /\ job'.deliveryStarted = j.deliveryStarted
<1>1. 0 \in 0..ClockMax
  BY LimitsAssumption DEF ClockMax
<1>2. QED
  BY <1>1 DEF Finish, JobType, ClockType, ZeroClock

(* A session of the ESP that is lost starts again from its initial state.   *)
LEMMA EspLostTypes ==
    ASSUME TypeInv, EspLost
    PROVE  /\ esp' \in EspType /\ EspIds' /\ toEsp' \in Seq(EspFrames)
           /\ history' \in HistoryType
<1>1. 0 \in 0..MaxId /\ 0 \notin Ids
  BY BoundsAssumption DEF Ids
<1>2. esp' \in EspType /\ EspIds'
  BY <1>1 DEF EspLost, FreshEsp, EspType, EspIds
<1>3. history' \in HistoryType
  BY DEF TypeInv, TypeOK, EspLost, HistoryType
<1>4. QED
  BY <1>2, <1>3 DEF EspLost

(* The first send counts the identifier it hands out, and forgets what was  *)
(* completed before.                                                       *)
LEMMA FirstSendTypes ==
    ASSUME history \in HistoryType, NEW fresh \in BOOLEAN, FirstSend(fresh)
    PROVE  /\ history'.allocations = IF fresh THEN history.allocations + 1
                                     ELSE history.allocations
           /\ history'.finishedOk = IF fresh THEN {} ELSE history.finishedOk
           /\ history'.held = history.held /\ history'.started = history.started
           /\ (fresh => history.allocations + 1 \in 0..MaxAllocations)
                  => history' \in HistoryType
<1>1. CASE ~fresh
  BY <1>1 DEF FirstSend
<1>2. CASE fresh
  <2> DEFINE counted == [history EXCEPT !.allocations = @ + 1]
  <2>1. /\ DOMAIN counted = DOMAIN history
        /\ counted.allocations = history.allocations + 1 /\ counted.held = history.held
        /\ counted.started = history.started
        /\ history.allocations + 1 \in 0..MaxAllocations => counted \in HistoryType
    BY DEF HistoryType
  <2>2. history' = [counted EXCEPT !.finishedOk = {}]
    BY <1>2 DEF FirstSend
  <2> HIDE DEF counted
  <2>3. QED
    BY <1>2, <2>1, <2>2 DEF HistoryType
<1>3. QED
  BY <1>1, <1>2

(* Giving up on a link keeps the types, the ended job's included.          *)
LEMMA LinkFailureTypes ==
    ASSUME TypeInv, LinkFailure
    PROVE  /\ link' \in LinkType /\ job' \in JobType /\ clock' \in ClockType
           /\ victronResult' \in Outcomes \cup {NoResult}
           /\ esp' \in EspType /\ EspIds' /\ JobIds'
           /\ toEsp' \in Seq(EspFrames) /\ history' \in HistoryType
<1>1. link' \in LinkType
  BY DEF TypeInv, TypeOK, LinkFailure, PowerOff, LinkType
<1>2. /\ esp' \in EspType /\ EspIds' /\ toEsp' \in Seq(EspFrames)
      /\ history' \in HistoryType
  BY EspLostTypes DEF LinkFailure
<1>3. /\ job' \in JobType /\ clock' \in ClockType /\ JobIds'
      /\ victronResult' \in Outcomes \cup {NoResult}
  <2> DEFINE failed == [job EXCEPT !.linkFailures =
                           IF @ < MaxLinkFailures THEN @ + 1 ELSE @,
                                   !.requestPending = FALSE]
  <2>1. /\ failed \in JobType /\ failed.requestId = job.requestId
        /\ failed.deliveryStarted = job.deliveryStarted
    <3>1. /\ job \in JobType
          /\ job.linkFailures \in 0..MaxLinkFailures
      BY DEF TypeInv, TypeOK, JobType
    <3>2. (IF job.linkFailures < MaxLinkFailures
           THEN job.linkFailures + 1 ELSE job.linkFailures) \in 0..MaxLinkFailures
      BY <3>1, LimitsAssumption
    <3>3. QED
      BY <3>1, <3>2 DEF JobType
  <2>2. CASE ~job.pending
    BY <2>2 DEF LinkFailure, TypeInv, TypeOK, JobType, JobIds
  <2>3. CASE job.pending /\ failed.linkFailures >= MaxLinkFailures
    <3>1. Finish(failed, Timeout)
      BY <2>3 DEF LinkFailure
    <3>2. QED
      BY <2>1, <3>1, FinishTypes DEF TypeInv, JobIds, Outcomes
  <2>4. CASE job.pending /\ ~(failed.linkFailures >= MaxLinkFailures)
    <3>1. job' = failed /\ UNCHANGED <<clock, victronResult>>
      BY <2>4 DEF LinkFailure
    <3>2. QED
      BY <2>1, <3>1 DEF TypeInv, TypeOK, JobIds
  <2>5. QED
    BY <2>2, <2>3, <2>4
<1>4. QED
  BY <1>1, <1>2, <1>3
(* Whatever frame the STM32 reads, its variables keep their types.         *)
LEMMA HandlerTypes ==
    ASSUME TypeInv, NEW f \in StmFrames,
           \/ HandleReady(f) \/ HandleHelloAck(f) \/ HandleAccepted(f)
           \/ HandleResult(f) \/ HandleOtaState(f)
    PROVE  /\ link' \in LinkType /\ job' \in JobType /\ clock' \in ClockType
           /\ otaHold' \in 0..OtaHold
           /\ victronResult' \in Outcomes \cup {NoResult} /\ JobIds'
<1> USE DEF TypeInv, TypeOK
<1>1. 0 \in 0..OtaHold /\ OtaHold \in 0..OtaHold /\ 0 \in 0..ClockMax
      /\ 0 \in 0..MaxId /\ 0 \in 0..HelloMaxAttempts
  BY LimitsAssumption, BoundsAssumption DEF ClockMax
<1>2. CASE HandleReady(f)
  <2> DEFINE again == [job EXCEPT !.requestPending = FALSE, !.accepted = FALSE]
             failed == [again EXCEPT !.linkFailures =
                           IF @ < MaxLinkFailures THEN @ + 1 ELSE @]
  <2>1. /\ again \in JobType /\ again.requestId = job.requestId
        /\ again.deliveryStarted = job.deliveryStarted
        /\ again.linkFailures = job.linkFailures
        /\ again.linkFailures \in 0..MaxLinkFailures
    BY DEF JobType
  <2>2. (IF again.linkFailures < MaxLinkFailures
         THEN again.linkFailures + 1 ELSE again.linkFailures) \in 0..MaxLinkFailures
    BY <2>1, LimitsAssumption
  <2>3. /\ failed \in JobType /\ failed.requestId = job.requestId
        /\ failed.deliveryStarted = job.deliveryStarted
    <3> HIDE DEF again
    <3>1. QED
      BY <2>1, <2>2 DEF JobType
  <2>4. link' \in LinkType /\ otaHold' \in 0..OtaHold
    BY <1>1, <1>2 DEF HandleReady, LinkType
  <2>5. /\ job' \in JobType /\ clock' \in ClockType /\ JobIds'
        /\ victronResult' \in Outcomes \cup {NoResult}
    <3>1. \/ job' = again /\ UNCHANGED <<clock, victronResult>>
          \/ Finish(failed, Timeout)
          \/ job' = failed /\ UNCHANGED <<clock, victronResult>>
      BY <1>2 DEF HandleReady
    <3> HIDE DEF again, failed
    <3>2. CASE Finish(failed, Timeout)
      BY <2>3, <3>2, FinishTypes DEF JobIds, Outcomes
    <3>3. QED
      BY <2>1, <2>3, <3>1, <3>2 DEF JobIds
  <2>6. QED
    BY <2>4, <2>5
<1>3. CASE HandleHelloAck(f)
  BY <1>3 DEF HandleHelloAck, LinkType, JobIds
<1>4. CASE HandleAccepted(f)
  BY <1>1, <1>4 DEF HandleAccepted, AcceptedClock, JobType, ClockType, JobIds
<1>5. CASE HandleResult(f)
  <2>1. CASE ForThisJob(f)
    <3>1. PICK code \in {f.code, Timeout} : Finish(job, code)
      BY <1>5, <2>1 DEF HandleResult
    <3>2. code \in Outcomes
      BY <1>5, StmFrameFacts DEF HandleResult, Outcomes
    <3>3. QED
      BY <1>5, <3>1, <3>2, FinishTypes DEF HandleResult, JobIds
  <2>2. CASE ~ForThisJob(f)
    BY <1>5, <2>2 DEF HandleResult, JobIds
  <2>3. QED
    BY <2>1, <2>2
<1>6. CASE HandleOtaState(f)
  BY <1>1, <1>6 DEF HandleOtaState, JobIds
<1>7. QED
  BY <1>2, <1>3, <1>4, <1>5, <1>6

(* Every action of the loop keeps the types.                               *)
LEMMA LoopTypes == TypeInv /\ LoopStep => TypeInv'
<1> SUFFICES ASSUME TypeInv, LoopStep PROVE TypeInv'
  OBVIOUS
<1> USE DEF TypeInv, TypeOK
<1>1. 0 \in 0..ClockMax /\ 0 \in 0..MaxId /\ 0 \in 0..HelloMaxAttempts
      /\ 0 \in 0..MaxLinkFailures /\ 0 \in 0..OtaHold /\ 0 \notin Ids
      /\ Ids \subseteq 0..MaxId
  BY LimitsAssumption, BoundsAssumption DEF ClockMax, Ids
<1>2. CASE LoopPass \/ LoopDemand \/ TakeResult
  BY <1>2 DEF LoopPass, LoopDemand, TakeResult, StartPass, EspIds, JobIds
<1>3. CASE LoopTick
  <2>1. \A n \in 0..ClockMax : Later(n) \in 0..ClockMax
    BY LimitsAssumption DEF Later, ClockMax
  <2>2. clock' \in ClockType
    BY <1>1, <1>3, <2>1 DEF LoopTick, ClockType, ZeroClock
  <2>3. otaHold' \in 0..OtaHold
    BY <1>3, LimitsAssumption DEF LoopTick
  <2>4. history' \in HistoryType
    <3>1. job.pending \in BOOLEAN /\ history.held \in BOOLEAN
      BY DEF JobType, HistoryType
    <3>2. (history.held \/ (job.pending /\ otaHold > 0)) \in BOOLEAN
      OBVIOUS
    <3>3. QED
      BY <1>3, <3>2 DEF LoopTick, HistoryType
  <2>5. QED
    BY <1>3, <2>2, <2>3, <2>4 DEF LoopTick, StartPass, EspIds, JobIds
<1>4. CASE LoopRequest
  <2>1. /\ job' \in JobType /\ ~job'.deliveryStarted
        /\ clock' \in ClockType
    BY <1>1, <1>4 DEF LoopRequest, IdleJob, JobType, ZeroClock, ClockType
  <2>2. history' \in HistoryType
    <3>1. history.jobs + 1 \in 0..MaxJobs
      BY <1>4, BoundsAssumption DEF LoopRequest, HistoryType
    <3>2. QED
      BY <1>4, <3>1 DEF LoopRequest, HistoryType
  <2>3. QED
    BY <1>4, <2>1, <2>2 DEF LoopRequest, StartPass, EspIds, JobIds
<1>5. CASE ReadFrame
  <2> DEFINE f == Head(toStm)
  <2>1. f \in StmFrames /\ toStm' \in Seq(StmFrames)
    BY <1>5 DEF ReadFrame, Drained
  <2>2. \/ HandleReady(f) \/ HandleHelloAck(f) \/ HandleAccepted(f)
        \/ HandleResult(f) \/ HandleOtaState(f)
    BY <1>5 DEF ReadFrame
  <2>3. f.session \in Sessions
    BY <2>1, StmFrameFacts
  <2>4. history' \in HistoryType
    BY <1>5, <2>3 DEF ReadFrame, HistoryType
  <2> HIDE DEF f, TypeInv, TypeOK
  <2>5. /\ link' \in LinkType /\ job' \in JobType /\ clock' \in ClockType
        /\ otaHold' \in 0..OtaHold
        /\ victronResult' \in Outcomes \cup {NoResult} /\ JobIds'
    BY <2>1, <2>2, HandlerTypes
  <2>6. UNCHANGED <<pc, desiredPortal, bleBusy, toEsp, esp>>
    BY <1>5 DEF ReadFrame
  <2>7. QED
    BY <2>1, <2>4, <2>5, <2>6 DEF EspIds, TypeInv, TypeOK
<1>6. CASE ServiceHeld \/ ServicePowerWait \/ ServicePowered \/ LinkWait
  BY <1>6 DEF ServiceHeld, ServicePowerWait, ServicePowered, LinkWait, EspIds, JobIds
<1>7. CASE ServiceUnwanted
  <2>1. CASE link.powered
    <3>1. link' \in LinkType
      BY <1>7, <2>1 DEF ServiceUnwanted, PowerOff, LinkType
    <3>2. EspLost
      BY <1>7, <2>1 DEF ServiceUnwanted
    <3> HIDE DEF TypeInv
    <3>3. /\ esp' \in EspType /\ EspIds' /\ toEsp' \in Seq(EspFrames)
          /\ history' \in HistoryType
      BY <3>2, EspLostTypes
    <3>4. QED
      BY <1>7, <3>1, <3>3 DEF ServiceUnwanted, JobIds, TypeInv
  <2>2. CASE ~link.powered
    BY <1>7, <2>2 DEF ServiceUnwanted, EspIds, JobIds
  <2>3. QED
    BY <2>1, <2>2
<1>8. CASE ServiceOverdue
  <2>1. link' \in LinkType
    BY <1>8 DEF ServiceOverdue, PowerOff, LinkType
  <2>2. EspLost /\ Finish(job, Timeout)
    BY <1>8 DEF ServiceOverdue
  <2>3. /\ job' \in JobType /\ clock' \in ClockType /\ JobIds'
        /\ victronResult' \in Outcomes \cup {NoResult}
    BY <2>2, FinishTypes DEF JobIds, Outcomes
  <2> HIDE DEF TypeInv
  <2>4. /\ esp' \in EspType /\ EspIds' /\ toEsp' \in Seq(EspFrames)
        /\ history' \in HistoryType
    BY <2>2, EspLostTypes
  <2>5. QED
    BY <1>8, <2>1, <2>3, <2>4 DEF ServiceOverdue, TypeInv
<1>9. CASE ServicePowerOn
  <2>1. link' \in LinkType
    BY <1>1, <1>9 DEF ServicePowerOn, LinkType
  <2>2. QED
    BY <1>9, <2>1 DEF ServicePowerOn, EspIds, JobIds
<1>10. CASE LinkHello
  <2> DEFINE fresh == link.helloId = 0
             id == IF fresh THEN Allocated(link.nextRequestId) ELSE link.helloId
  <2>1. /\ Allocated(link.nextRequestId) \in Ids
        /\ Allocated(link.nextRequestId) + 1 \in 1..MaxId + 1
    BY AllocatedType DEF LinkType
  <2>2. id \in Ids /\ (fresh => id + 1 \in 1..MaxId + 1)
    BY <2>1 DEF LinkType, Ids
  <2>3. link.helloAttempts + 1 \in 0..HelloMaxAttempts
    BY <1>10, LimitsAssumption DEF LinkHello, HelloLeft, LinkType
  <2>4. /\ fresh => IdLeft
        /\ link' = [link EXCEPT !.helloId = id, !.helloAttempts = @ + 1,
                               !.nextRequestId = IF fresh THEN id + 1 ELSE @]
        /\ toEsp' \in Put(toEsp, Hello(id))
        /\ CountAllocation(fresh)
    BY <1>10 DEF LinkHello
  <2>5. toEsp' \in Seq(EspFrames)
    BY <2>2, <2>4, EspFrameFacts, PutType
  <2>6. history' \in HistoryType
    <3>1. fresh => history.allocations + 1 \in 0..MaxAllocations
      BY <2>4, BoundsAssumption DEF IdLeft, HistoryType
    <3>2. QED
      BY <2>4, <3>1 DEF CountAllocation, HistoryType
  <2>7. link' \in LinkType
    <3> HIDE DEF id
    <3>1. QED
      BY <1>1, <2>2, <2>3, <2>4 DEF LinkType
  <2>8. QED
    BY <1>10, <2>5, <2>6, <2>7 DEF LinkHello, EspIds, JobIds
<1>11. CASE LinkHelloExhausted \/ LinkPortalExhausted
  <2>1. LinkFailure /\ pc' = "app" /\ UNCHANGED <<desiredPortal, bleBusy, otaHold, toStm>>
    BY <1>11 DEF LinkHelloExhausted, LinkPortalExhausted
  <2> HIDE DEF TypeInv
  <2>2. QED
    BY <2>1, LinkFailureTypes DEF TypeInv
<1>12. CASE LinkRequest
  <2> DEFINE fresh == ~job.deliveryStarted
             id == IF fresh THEN Allocated(link.nextRequestId) ELSE job.requestId
  <2>1. /\ Allocated(link.nextRequestId) \in Ids
        /\ Allocated(link.nextRequestId) + 1 \in 1..MaxId + 1
    BY AllocatedType DEF LinkType
  <2>2. id \in Ids /\ (fresh => id + 1 \in 1..MaxId + 1)
    BY <2>1 DEF JobIds
  <2>3. /\ fresh => IdLeft
        /\ link' = [link EXCEPT !.nextRequestId = IF fresh THEN id + 1 ELSE @]
        /\ job' = [job EXCEPT !.requestId = id, !.deliveryStarted = TRUE,
                             !.accepted = IF fresh THEN FALSE ELSE @,
                             !.requestPending = TRUE]
        /\ clock' = IF fresh THEN [clock EXCEPT !.delivery = 0] ELSE clock
        /\ toEsp' \in Put(toEsp, LoadSet(id))
        /\ FirstSend(fresh)
    BY <1>12 DEF LinkRequest
  <2>4. toEsp' \in Seq(EspFrames)
    BY <2>2, <2>3, EspFrameFacts, PutType
  <2>5. history' \in HistoryType
    <3>1. fresh => history.allocations + 1 \in 0..MaxAllocations
      BY <2>3, BoundsAssumption DEF IdLeft, HistoryType
    <3>2. QED
      BY <2>3, <3>1, FirstSendTypes
  <2>6. link' \in LinkType /\ job' \in JobType /\ JobIds'
    <3> HIDE DEF id
    <3>1. QED
      BY <1>1, <2>2, <2>3 DEF LinkType, JobType, JobIds
  <2>7. clock' \in ClockType
    BY <1>1, <2>3 DEF ClockType
  <2>8. QED
    BY <1>12, <2>4, <2>5, <2>6, <2>7 DEF LinkRequest, EspIds
<1>13. QED
  BY <1>2, <1>3, <1>4, <1>5, <1>6, <1>7, <1>8, <1>9, <1>10, <1>11, <1>12
     DEF LoopStep, Service, Link

(* Every action of the ESP keeps the types.                                *)
LEMMA EspTypes == TypeInv /\ EspStep => TypeInv'
<1> SUFFICES ASSUME TypeInv, EspStep PROVE TypeInv'
  OBVIOUS
<1> USE DEF TypeInv, TypeOK
<1>1. 0 \notin Ids /\ 0 \in 0..MaxId /\ Ids \subseteq 0..MaxId
  BY BoundsAssumption DEF Ids
<1>2. Session \in Sessions
  BY DEF Session, HistoryType
<1>3. \A i \in 0..MaxId : i \in Ids \/ i = 0
  BY BoundsAssumption DEF Ids
<1>4. CASE ReceiveHello
  <2>1. Head(toEsp) \in EspFrames /\ toEsp' \in Seq(EspFrames)
    BY <1>4 DEF ReceiveHello
  <2>2. HelloAck(Head(toEsp).id, Session) \in Replies
    BY <1>2, <2>1, EspFrameFacts, StmFrameFacts
  <2>3. esp' \in EspType /\ EspIds'
    BY <1>4, <2>2 DEF ReceiveHello, EspType, EspIds
  <2>4. QED
    BY <1>4, <2>1, <2>3 DEF ReceiveHello, stmVars, JobIds
<1>5. CASE ReceiveLoadSet
  <2> DEFINE id == Head(toEsp).id
  <2>1. Head(toEsp) \in EspFrames /\ toEsp' \in Seq(EspFrames)
    BY <1>5 DEF ReceiveLoadSet
  <2>2. id \in Ids
    BY <2>1, EspFrameFacts
  <2>3. /\ Accepted(id) \in Replies
        /\ \A c \in ResultCodes : Result(id, c) \in Replies
        /\ "busy" \in ResultCodes /\ "bad_settings" \in ResultCodes
    BY <2>2, StmFrameFacts DEF ResultCodes
  <2>4. esp' \in EspType /\ EspIds'
    <3>1. CASE Answered(id)
      <4>1. esp' = [esp EXCEPT !.reply = Result(id, esp.cacheCode)]
        BY <1>5, <3>1 DEF ReceiveLoadSet
      <4>2. esp.cacheCode \in ResultCodes
        BY <2>2, <3>1 DEF Answered, EspIds
      <4>3. QED
        BY <2>3, <4>1, <4>2 DEF EspType, EspIds
    <3>2. CASE ~Answered(id) /\ esp.requestActive
      <4>1. \/ esp' = [esp EXCEPT !.reply = Accepted(id)]
            \/ esp' = [esp EXCEPT !.reply = Result(id, "busy")]
        BY <1>5, <3>2 DEF ReceiveLoadSet
      <4>2. QED
        BY <2>3, <4>1 DEF EspType, EspIds
    <3>3. CASE ~Answered(id) /\ ~esp.requestActive
      <4>1. \/ esp' = [esp EXCEPT !.reply = Accepted(id), !.requestActive = TRUE,
                                 !.workPending = TRUE, !.requestId = id]
            \/ esp' = [esp EXCEPT !.reply = Result(id, "bad_settings"),
                                 !.cacheId = id, !.cacheCode = "bad_settings"]
        BY <1>5, <3>3 DEF ReceiveLoadSet
      <4> HIDE DEF id
      <4>2. id \in 0..MaxId
        BY <1>1, <2>2
      <4>3. CASE esp' = [esp EXCEPT !.reply = Accepted(id), !.requestActive = TRUE,
                                    !.workPending = TRUE, !.requestId = id]
        <5>1. esp' \in EspType
          BY <2>3, <4>2, <4>3 DEF EspType
        <5>2. EspIds'
          BY <2>2, <3>3, <4>3 DEF EspType, EspIds
        <5>3. QED
          BY <5>1, <5>2
      <4>4. CASE esp' = [esp EXCEPT !.reply = Result(id, "bad_settings"),
                                    !.cacheId = id, !.cacheCode = "bad_settings"]
        BY <2>2, <2>3, <4>2, <4>4 DEF EspType, EspIds
      <4>5. QED
        BY <4>1, <4>3, <4>4
    <3>4. QED
      BY <3>1, <3>2, <3>3
  <2>5. QED
    BY <1>5, <2>1, <2>4 DEF ReceiveLoadSet, stmVars, JobIds
<1>6. CASE SendReply
  <2>1. esp.reply \in StmFrames
    BY <1>6, StmFrameFacts DEF SendReply, EspType
  <2>2. toStm' \in Seq(StmFrames)
    BY <1>6, <2>1, PutType DEF SendReply
  <2>3. esp' \in EspType /\ EspIds'
    <3>1. (esp.helloSeen \/ esp.reply.type = "HELLO_ACK") \in BOOLEAN
      OBVIOUS
    <3>2. QED
      BY <1>6, <3>1 DEF SendReply, EspType, EspIds
  <2>4. QED
    BY <1>6, <2>2, <2>3 DEF SendReply, stmVars, JobIds
<1>7. CASE ManagerCheck
  BY <1>7 DEF ManagerCheck, EspType, EspIds, stmVars, JobIds
<1>8. CASE ManagerAnnounce
  <2>1. toStm' \in Seq(StmFrames)
    BY <1>2, <1>8, StmFrameFacts, PutType DEF ManagerAnnounce
  <2>2. QED
    BY <1>8, <2>1 DEF ManagerAnnounce, EspType, EspIds, stmVars, JobIds
<1>9. CASE ManagerStart
  <2>1. esp.requestId \in Ids
    BY <1>9 DEF ManagerStart, EspIds
  <2>2. history' \in HistoryType
    BY <1>9, <2>1 DEF ManagerStart, HistoryType
  <2>3. esp' \in EspType /\ EspIds'
    BY <1>9 DEF ManagerStart, EspType, EspIds
  <2>4. QED
    BY <1>9, <2>2, <2>3 DEF ManagerStart, stmVars, JobIds
<1>10. CASE \E code \in {"ok", "fail"}, restart \in BOOLEAN : ManagerFinish(code, restart)
  <2>1. PICK code \in {"ok", "fail"}, restart \in BOOLEAN : ManagerFinish(code, restart)
    BY <1>10
  <2>2. esp.requestId \in Ids /\ code \in ResultCodes
    BY <2>1 DEF ManagerFinish, EspIds, ResultCodes
  <2>3. Result(esp.requestId, code) \in Replies
    BY <2>2, StmFrameFacts
  <2>4. history' \in HistoryType
    BY <2>1, <2>2 DEF ManagerFinish, HistoryType
  <2>5. esp' \in EspType
    BY <1>1, <2>1, <2>2, <2>3 DEF ManagerFinish, EspType
  <2>6. EspIds'
    BY <2>1, <2>2, <2>3 DEF ManagerFinish, EspType, EspIds
  <2>7. QED
    BY <2>1, <2>4, <2>5, <2>6 DEF ManagerFinish, stmVars, JobIds
<1>11. CASE ManagerSend
  <2>1. esp.outgoing \in StmFrames
    BY <1>11, StmFrameFacts DEF ManagerSend, EspIds
  <2>2. toStm' \in Seq(StmFrames)
    BY <1>11, <2>1, PutType DEF ManagerSend
  <2>3. esp' \in EspType
    BY <1>11 DEF ManagerSend, EspType
  <2>4. EspIds'
    BY <1>11 DEF ManagerSend, EspType, EspIds
  <2>5. QED
    BY <1>11, <2>2, <2>3, <2>4 DEF ManagerSend, stmVars, JobIds
<1>12. CASE EspRestart
  <2>1. esp' \in EspType /\ EspIds'
    BY <1>1, <1>12 DEF EspRestart, FreshEsp, EspType, EspIds
  <2>2. history' \in HistoryType
    <3>1. history.restarts + 1 \in Sessions /\ {} \in SUBSET Ids
      BY <1>12, BoundsAssumption DEF EspRestart, HistoryType, Sessions
    <3>2. QED
      BY <1>12, <3>1 DEF EspRestart, HistoryType
  <2>3. QED
    BY <1>12, <2>1, <2>2 DEF EspRestart, stmVars, JobIds
<1>13. CASE UploadBegin
  <2>1. toStm' \in Seq(StmFrames)
    BY <1>13, StmFrameFacts, PutType DEF UploadBegin
  <2>2. history' \in HistoryType
    <3>1. history.uploads + 1 \in 0..MaxUploads
      BY <1>13, BoundsAssumption DEF UploadBegin, HistoryType
    <3>2. QED
      BY <1>13, <3>1 DEF UploadBegin, HistoryType
  <2>3. QED
    BY <1>13, <2>1, <2>2 DEF UploadBegin, EspType, EspIds, stmVars, JobIds
<1>14. CASE UploadEnd
  <2>1. toStm' \in Seq(StmFrames)
    BY <1>14, StmFrameFacts, PutType DEF UploadEnd
  <2>2. QED
    BY <1>14, <2>1 DEF UploadEnd, EspType, EspIds, stmVars, JobIds
<1>15. QED
  BY <1>4, <1>5, <1>6, <1>7, <1>8, <1>9, <1>10, <1>11, <1>12, <1>13, <1>14
     DEF EspStep

(* A step of either board keeps the types.                                 *)
LEMMA StepTypes == TypeInv /\ [Next]_vars => TypeInv'
<1>1. TypeInv /\ UNCHANGED vars => TypeInv'
  BY DEF TypeInv, TypeOK, EspIds, JobIds, vars, stmVars
<1>2. QED
  BY <1>1, LoopTypes, EspTypes DEF Next

(* Every reachable state is type-correct, whatever the ESP and the UART do  *)
(* and for every limit, deadline and bound.                                *)
THEOREM TypeCorrect == Spec => []TypeOK
<1>1. TypeInv => TypeOK
  BY DEF TypeInv
<1>2. QED
  BY InitTypes, StepTypes, <1>1, PTL DEF Spec

(* The inductive invariant behind TypeCorrect holds in every reachable     *)
(* state: identifiers are only ever sent once they were handed out.        *)
THEOREM TypeInvariant == Spec => []TypeInv
  BY InitTypes, StepTypes, PTL DEF Spec
-----------------------------------------------------------------------------
(* The deadlines of a command.  JobBounded alone is not inductive: what is   *)
(* left of a command's time depends on how far it has come, and a deadline   *)
(* is strict except between a tick and the check that follows it.            *)

(* Within the deadline of its phase, by `margin' ticks.                    *)
WithinDeadline(margin) ==
    /\ ~job.everAccepted /\ ~job.deliveryStarted =>
           clock.activated + margin <= PreDelivery
    /\ ~job.everAccepted /\ job.deliveryStarted =>
           /\ clock.delivery + margin <= DeliveryTimeout
           /\ clock.activated <= PreDelivery + clock.delivery
    /\ job.everAccepted =>
           /\ clock.job + margin <= JobTimeout
           /\ clock.activated <= PreDelivery + DeliveryTimeout + clock.job

(* The check has been made since the last tick.                            *)
Checked == pc = "link" \/ (pc = "app" /\ otaHold = 0)

DeadlineInv ==
    job.pending /\ ~history.held =>
        /\ WithinDeadline(0)
        /\ Checked => WithinDeadline(1)

(* The deadlines of the three phases add up to the bound on the command.   *)
LEMMA DeadlineBounds == TypeInv /\ DeadlineInv => JobBounded
  BY LimitsAssumption
     DEF TypeInv, TypeOK, DeadlineInv, WithinDeadline, JobBounded, ClockType, JobType
(* The ESP cannot move a deadline: it touches nothing the deadlines depend   *)
(* on but the frames it sends.                                             *)
LEMMA EspDeadline == TypeInv /\ EspStep => UNCHANGED stmVars /\ history'.held = history.held
<1> SUFFICES ASSUME TypeInv, EspStep
             PROVE  UNCHANGED stmVars /\ history'.held = history.held
  OBVIOUS
<1>1. history \in HistoryType
  BY DEF TypeInv, TypeOK
<1>2. CASE ReceiveHello \/ ReceiveLoadSet \/ SendReply \/ ManagerCheck
           \/ ManagerAnnounce \/ ManagerSend \/ UploadEnd
  BY <1>2 DEF ReceiveHello, ReceiveLoadSet, SendReply, ManagerCheck, ManagerAnnounce,
              ManagerSend, UploadEnd
<1>3. CASE ManagerStart \/ EspRestart \/ UploadBegin
  BY <1>1, <1>3 DEF ManagerStart, EspRestart, UploadBegin, HistoryType
<1>4. CASE \E code \in {"ok", "fail"}, restart \in BOOLEAN : ManagerFinish(code, restart)
  BY <1>1, <1>4 DEF ManagerFinish, HistoryType
<1>5. QED
  BY <1>2, <1>3, <1>4 DEF EspStep

(* A job that is over has no deadline.                                     *)
LEMMA FinishDeadline ==
    ASSUME NEW j \in JobType, NEW code, Finish(j, code)
    PROVE  DeadlineInv'
BY DEF Finish, JobType, DeadlineInv

(* Nothing the STM32 reads moves a deadline, but for the first ACCEPTED.    *)
LEMMA HandlerDeadline ==
    ASSUME TypeInv, DeadlineInv, NEW f \in StmFrames,
           \/ HandleReady(f) \/ HandleHelloAck(f) \/ HandleAccepted(f)
           \/ HandleResult(f) \/ HandleOtaState(f),
           pc' = pc, pc \in {"read", "link"}, history'.held = history.held
    PROVE  DeadlineInv'
<1>1. job \in JobType /\ clock \in ClockType
  BY DEF TypeInv, TypeOK
<1>2. Checked' => Checked
  BY DEF Checked
<1>3. ASSUME UNCHANGED clock, UNCHANGED <<job.pending, job.everAccepted, job.deliveryStarted>>
      PROVE  DeadlineInv'
  BY <1>2, <1>3 DEF DeadlineInv, WithinDeadline
<1>4. CASE HandleReady(f)
  <2> DEFINE again == [job EXCEPT !.requestPending = FALSE, !.accepted = FALSE]
             failed == [again EXCEPT !.linkFailures =
                           IF @ < MaxLinkFailures THEN @ + 1 ELSE @]
  <2>1. /\ again.pending = job.pending /\ again.everAccepted = job.everAccepted
        /\ again.deliveryStarted = job.deliveryStarted
        /\ failed.pending = job.pending /\ failed.everAccepted = job.everAccepted
        /\ failed.deliveryStarted = job.deliveryStarted
    BY <1>1 DEF JobType
  <2>2. \/ job' = again /\ UNCHANGED <<clock, victronResult>>
        \/ Finish(failed, Timeout)
        \/ job' = failed /\ UNCHANGED <<clock, victronResult>>
    BY <1>4 DEF HandleReady
  <2> HIDE DEF again, failed
  <2>3. CASE Finish(failed, Timeout)
    <3>1. job'.pending = FALSE
      <4>1. DOMAIN failed = DOMAIN job
        BY DEF failed, again
      <4>2. QED
        BY <1>1, <2>3, <4>1 DEF Finish, JobType
    <3>2. QED
      BY <3>1 DEF DeadlineInv
  <2>4. QED
    BY <1>3, <2>1, <2>2, <2>3
<1>5. CASE HandleAccepted(f)
  <2>1. CASE ForThisJob(f) /\ ~job.everAccepted
    <3>1. /\ job' = [job EXCEPT !.accepted = TRUE, !.everAccepted = TRUE]
          /\ clock' = [clock EXCEPT !.job = 0]
      BY <1>5, <2>1 DEF HandleAccepted, AcceptedClock
    <3>2. /\ job'.pending = job.pending /\ job'.everAccepted
          /\ clock'.job = 0 /\ clock'.activated = clock.activated
      BY <1>1, <3>1 DEF JobType, ClockType
    <3>3. job.pending /\ ~history.held => clock.activated <= PreDelivery + DeliveryTimeout
      BY <1>1, <2>1, LimitsAssumption DEF DeadlineInv, WithinDeadline, ClockType, ClockMax
    <3>4. QED
      BY <3>2, <3>3, LimitsAssumption DEF DeadlineInv, WithinDeadline
  <2>2. CASE ~(ForThisJob(f) /\ ~job.everAccepted)
    <3>1. UNCHANGED clock /\ UNCHANGED <<job.pending, job.everAccepted, job.deliveryStarted>>
      BY <1>1, <1>5, <2>2 DEF HandleAccepted, AcceptedClock, JobType
    <3>2. QED
      BY <1>3, <3>1
  <2>3. QED
    BY <2>1, <2>2
<1>6. CASE HandleResult(f)
  BY <1>1, <1>3, <1>6, FinishDeadline DEF HandleResult
<1>7. CASE HandleHelloAck(f) \/ HandleOtaState(f)
  BY <1>3, <1>7 DEF HandleHelloAck, HandleOtaState
<1>8. QED
  BY <1>4, <1>5, <1>6, <1>7

(* The loop checks a deadline before it can pass it.                       *)
LEMMA LoopDeadline == TypeInv /\ DeadlineInv /\ LoopStep => DeadlineInv'
<1> SUFFICES ASSUME TypeInv, DeadlineInv, LoopStep PROVE DeadlineInv'
  OBVIOUS
<1>1. /\ job \in JobType /\ clock \in ClockType /\ history \in HistoryType
      /\ otaHold \in 0..OtaHold /\ toStm \in Seq(StmFrames)
  BY DEF TypeInv, TypeOK
(* Steps that start a pass owe no check; steps that end one have made it.   *)
<1>2. ASSUME UNCHANGED <<job, clock>>, history'.held = history.held,
             Checked' => Checked \/ ~job.pending \/ ~JobOverdue
      PROVE  DeadlineInv'
  <2>1. job.pending /\ ~JobOverdue /\ WithinDeadline(0) => WithinDeadline(1)
    BY <1>1, LimitsAssumption DEF JobOverdue, WithinDeadline, ClockType, JobType, ClockMax
  <2>2. QED
    BY <1>2, <2>1 DEF DeadlineInv, WithinDeadline
<1>3. CASE LoopPass \/ LoopDemand
  BY <1>2, <1>3 DEF LoopPass, LoopDemand, StartPass, Checked
<1>4. CASE TakeResult
  BY <1>2, <1>4 DEF TakeResult, Checked
<1>5. CASE LoopTick
  <2>1. SUFFICES ASSUME job.pending, ~history'.held PROVE WithinDeadline(0)' /\ ~Checked'
    BY <1>5 DEF LoopTick, DeadlineInv
  <2>2. ~history.held /\ otaHold = 0
    <3>1. history'.held = (history.held \/ (job.pending /\ otaHold > 0))
      BY <1>1, <1>5 DEF LoopTick, HistoryType
    <3>2. ~history.held /\ ~(otaHold > 0)
      BY <2>1, <3>1
    <3>3. QED
      BY <1>1, <3>2, LimitsAssumption
  <2>3. WithinDeadline(1)
    BY <1>5, <2>1, <2>2 DEF DeadlineInv, Checked, LoopTick, StartPass
  <2>4. /\ clock'.activated = Later(clock.activated)
        /\ clock'.delivery = IF job.deliveryStarted THEN Later(clock.delivery) ELSE 0
        /\ clock'.job = IF job.everAccepted THEN Later(clock.job) ELSE 0
        /\ UNCHANGED job
    BY <1>5, <2>1 DEF LoopTick
  <2>5. WithinDeadline(0)'
    <3>1. /\ clock.activated \in Nat /\ clock.delivery \in Nat /\ clock.job \in Nat
          /\ PreDelivery \in Nat /\ DeliveryTimeout \in Nat /\ JobTimeout \in Nat
      BY <1>1, LimitsAssumption DEF ClockType, ClockMax
    <3>2. /\ Later(clock.activated) \in Nat /\ Later(clock.activated) <= clock.activated + 1
          /\ clock.delivery + 1 <= DeliveryTimeout => Later(clock.delivery) = clock.delivery + 1
          /\ clock.job + 1 <= JobTimeout => Later(clock.job) = clock.job + 1
      BY <3>1 DEF Later, ClockMax
    <3>3. CASE job.everAccepted
      <4>1. /\ clock.job + 1 <= JobTimeout
            /\ clock.activated <= PreDelivery + DeliveryTimeout + clock.job
        BY <2>3, <3>3 DEF WithinDeadline
      <4>2. clock'.activated = Later(clock.activated) /\ clock'.job = clock.job + 1
        BY <2>4, <3>2, <3>3, <4>1
      <4>3. /\ clock'.job + 0 <= JobTimeout
            /\ clock'.activated <= PreDelivery + DeliveryTimeout + clock'.job
        BY <3>1, <3>2, <4>1, <4>2
      <4>4. QED
        BY <2>4, <3>3, <4>3 DEF WithinDeadline
    <3>4. CASE ~job.everAccepted /\ job.deliveryStarted
      <4>1. /\ clock.delivery + 1 <= DeliveryTimeout
            /\ clock.activated <= PreDelivery + clock.delivery
        BY <2>3, <3>4 DEF WithinDeadline
      <4>2. clock'.activated = Later(clock.activated) /\ clock'.delivery = clock.delivery + 1
        BY <2>4, <3>2, <3>4, <4>1
      <4>3. /\ clock'.delivery + 0 <= DeliveryTimeout
            /\ clock'.activated <= PreDelivery + clock'.delivery
        BY <3>1, <3>2, <4>1, <4>2
      <4>4. QED
        BY <2>4, <3>4, <4>3 DEF WithinDeadline
    <3>5. CASE ~job.everAccepted /\ ~job.deliveryStarted
      <4>1. clock.activated + 1 <= PreDelivery
        BY <2>3, <3>5 DEF WithinDeadline
      <4>2. clock'.activated + 0 <= PreDelivery
        BY <2>4, <3>1, <3>2, <4>1
      <4>3. QED
        BY <2>4, <3>5, <4>2 DEF WithinDeadline
    <3>6. QED
      BY <3>3, <3>4, <3>5
  <2>6. QED
    BY <1>5, <2>5 DEF LoopTick, StartPass, Checked
<1>6. CASE LoopRequest
  <2>1. /\ job'.deliveryStarted = FALSE /\ job'.everAccepted = FALSE
        /\ clock'.activated = 0
    BY <1>6 DEF LoopRequest, IdleJob, ZeroClock
  <2>2. QED
    BY <1>6, <2>1, LimitsAssumption
       DEF LoopRequest, StartPass, Checked, DeadlineInv, WithinDeadline
<1>7. CASE ReadFrame
  <2>1. Head(toStm) \in StmFrames
    BY <1>1, <1>7 DEF ReadFrame, Drained
  <2>2. /\ pc' = pc /\ pc \in {"read", "link"} /\ history'.held = history.held
        /\ \/ HandleReady(Head(toStm)) \/ HandleHelloAck(Head(toStm))
           \/ HandleAccepted(Head(toStm)) \/ HandleResult(Head(toStm))
           \/ HandleOtaState(Head(toStm))
    BY <1>1, <1>7 DEF ReadFrame, HistoryType
  <2>3. QED
    BY <2>1, <2>2, HandlerDeadline
<1>8. CASE ServiceHeld
  BY <1>1, <1>2, <1>8 DEF ServiceHeld, Checked
<1>9. CASE ServiceUnwanted
  <2>1. ~job.pending /\ UNCHANGED <<job, clock>>
    BY <1>9 DEF ServiceUnwanted, PowerWanted
  <2>2. QED
    BY <2>1 DEF DeadlineInv
<1>10. CASE ServiceOverdue
  BY <1>1, <1>10, FinishDeadline DEF ServiceOverdue
<1>11. CASE ServicePowerOn \/ ServicePowerWait \/ ServicePowered
  BY <1>2, <1>11 DEF ServicePowerOn, ServicePowerWait, ServicePowered
<1>12. CASE LinkWait
  BY <1>2, <1>12 DEF LinkWait, LinkTurn, Checked
<1>13. CASE LinkHello
  <2>1. history'.held = history.held
    BY <1>1, <1>13 DEF LinkHello, CountAllocation, HistoryType
  <2>2. QED
    BY <1>2, <1>13, <2>1 DEF LinkHello, LinkTurn, Checked
<1>14. CASE LinkHelloExhausted \/ LinkPortalExhausted
  <2>1. pc = "link" /\ LinkFailure
    BY <1>14 DEF LinkHelloExhausted, LinkPortalExhausted, LinkTurn
  <2>2. history'.held = history.held
    BY <1>1, <2>1 DEF LinkFailure, EspLost, HistoryType
  <2> DEFINE failed == [job EXCEPT !.linkFailures =
                           IF @ < MaxLinkFailures THEN @ + 1 ELSE @,
                                   !.requestPending = FALSE]
  <2>3. /\ failed.pending = job.pending /\ failed.everAccepted = job.everAccepted
        /\ failed.deliveryStarted = job.deliveryStarted
        /\ DOMAIN failed = DOMAIN job
    BY <1>1 DEF JobType
  <2>4. \/ ~job.pending /\ ~job'.pending
        \/ Finish(failed, Timeout)
        \/ job' = failed /\ UNCHANGED clock
    BY <1>1, <2>1 DEF LinkFailure, JobType
  <2> HIDE DEF failed
  <2>5. CASE Finish(failed, Timeout)
    <3>1. job'.pending = FALSE
      BY <1>1, <2>3, <2>5 DEF Finish, JobType
    <3>2. QED
      BY <3>1 DEF DeadlineInv
  <2>6. CASE job' = failed /\ UNCHANGED clock
    BY <2>1, <2>2, <2>3, <2>6 DEF DeadlineInv, WithinDeadline, Checked
  <2>7. QED
    BY <2>4, <2>5, <2>6 DEF DeadlineInv
<1>15. CASE LinkRequest
  <2>1. history'.held = history.held
    BY <1>1, <1>15, FirstSendTypes DEF LinkRequest
  <2>2. /\ job'.pending = job.pending /\ job'.everAccepted = job.everAccepted
        /\ job'.deliveryStarted = TRUE
        /\ clock'.activated = clock.activated /\ clock'.job = clock.job
        /\ clock'.delivery = IF job.deliveryStarted THEN clock.delivery ELSE 0
    BY <1>1, <1>15 DEF LinkRequest, JobType, ClockType
  <2>3. pc = "link"
    BY <1>15 DEF LinkRequest, LinkTurn
  <2>4. QED
    BY <1>1, <2>1, <2>2, <2>3, LimitsAssumption
       DEF DeadlineInv, WithinDeadline, Checked, ClockType, ClockMax, JobType
<1>16. QED
  BY <1>3, <1>4, <1>5, <1>6, <1>7, <1>8, <1>9, <1>10, <1>11, <1>12, <1>13, <1>14, <1>15
     DEF LoopStep, Service, Link

(* A step of either board keeps the command within its deadlines.          *)
LEMMA StepDeadline == TypeInv /\ DeadlineInv /\ [Next]_vars => DeadlineInv'
<1>1. DeadlineInv /\ UNCHANGED stmVars /\ history'.held = history.held => DeadlineInv'
  BY DEF DeadlineInv, WithinDeadline, Checked, stmVars
<1>2. UNCHANGED vars => UNCHANGED stmVars /\ history'.held = history.held
  BY DEF vars
<1>3. QED
  BY <1>1, <1>2, LoopDeadline, EspDeadline DEF Next

(* A command in progress ends within the sum of its deadlines, unless a     *)
(* firmware update holds the companion: for every choice of the deadlines,  *)
(* of the retry limits and of what the ESP and the UART do.                *)
THEOREM CommandIsBounded == Spec => []JobBounded
<1>1. Init => DeadlineInv
  BY DEF Init, DeadlineInv, IdleJob
<1>2. QED
  BY <1>1, InitTypes, StepTypes, StepDeadline, DeadlineBounds, PTL DEF Spec
-----------------------------------------------------------------------------
(* The busy flag of the application and the job of the companion.           *)

(* finishVictron: the busy flag waits for a result, and now there is one.   *)
LEMMA FinishBusy ==
    ASSUME BusyMatchesJob, job.pending, NEW j \in JobType, NEW code \in Outcomes,
           Finish(j, code), bleBusy' = bleBusy
    PROVE  /\ BusyMatchesJob' /\ bleBusy' /\ ~job'.pending
           /\ victronResult' \in Outcomes
<1>1. code # NoResult
  BY DEF Outcomes, ResultCodes, Timeout, NoResult
<1>2. QED
  BY <1>1 DEF BusyMatchesJob, Finish, JobType

(* What a step can do to a command: ask for it, conclude it, hand its       *)
(* result over, or leave it as it is.                                      *)
CommandRequested ==
    /\ ~bleBusy /\ ~job.pending /\ victronResult = NoResult
    /\ bleBusy' /\ job'.pending /\ UNCHANGED victronResult
CommandConcluded ==
    /\ bleBusy /\ job.pending /\ bleBusy' /\ ~job'.pending
    /\ victronResult' \in Outcomes
CommandCollected ==
    /\ bleBusy /\ ~job.pending /\ ~bleBusy' /\ ~job'.pending
    /\ victronResult' = NoResult
CommandUnchanged == UNCHANGED <<bleBusy, job.pending, victronResult>>

CommandStep == CommandRequested \/ CommandConcluded \/ CommandCollected \/ CommandUnchanged

(* A step of the abstract command keeps the flag and the job together.     *)
LEMMA CommandStepBusy ==
    ASSUME TypeInv, BusyMatchesJob, CommandStep PROVE BusyMatchesJob'
<1>1. NoResult \notin Outcomes
  BY DEF Outcomes, ResultCodes, Timeout, NoResult
<1>2. QED
  BY <1>1 DEF CommandStep, CommandRequested, CommandConcluded, CommandCollected,
              CommandUnchanged, BusyMatchesJob

(* Every step of the two boards is one step of the abstract command, or    *)
(* leaves it alone.                                                        *)
LEMMA NextIsCommandStep ==
    ASSUME TypeInv, BusyMatchesJob, [Next]_vars PROVE CommandStep
<1>1. /\ job \in JobType /\ toStm \in Seq(StmFrames)
      /\ victronResult \in Outcomes \cup {NoResult}
  BY DEF TypeInv, TypeOK
<1>2. ASSUME NEW j \in JobType, NEW code \in Outcomes, Finish(j, code),
             job.pending, bleBusy' = bleBusy
      PROVE  CommandConcluded
  BY <1>2, FinishBusy DEF CommandConcluded, BusyMatchesJob
<1>3. CASE UNCHANGED stmVars
  BY <1>3 DEF stmVars, CommandStep, CommandUnchanged
<1>4. CASE EspStep
  BY <1>3, <1>4, EspDeadline
<1>5. CASE TakeResult
  BY <1>5 DEF TakeResult, BusyMatchesJob, CommandStep, CommandCollected
<1>6. CASE LoopRequest
  BY <1>6 DEF LoopRequest, StartPass, IdleJob, CommandStep, CommandRequested
<1>7. CASE LoopPass \/ LoopDemand \/ LoopTick \/ ServiceHeld \/ ServiceUnwanted
           \/ ServicePowerOn \/ ServicePowerWait \/ ServicePowered \/ LinkWait \/ LinkHello
  BY <1>7 DEF LoopPass, LoopDemand, LoopTick, ServiceHeld, ServiceUnwanted, ServicePowerOn,
              ServicePowerWait, ServicePowered, LinkWait, LinkHello, CommandStep,
              CommandUnchanged
<1>8. CASE LinkRequest
  BY <1>1, <1>8 DEF LinkRequest, JobType, CommandStep, CommandUnchanged
<1>9. CASE ServiceOverdue
  BY <1>1, <1>2, <1>9 DEF ServiceOverdue, JobOverdue, Outcomes, CommandStep
<1>10. CASE LinkHelloExhausted \/ LinkPortalExhausted
  <2> DEFINE failed == [job EXCEPT !.linkFailures =
                           IF @ < MaxLinkFailures THEN @ + 1 ELSE @,
                                   !.requestPending = FALSE]
  <2>1. LinkFailure /\ bleBusy' = bleBusy
    BY <1>10 DEF LinkHelloExhausted, LinkPortalExhausted
  <2>2. failed.pending = job.pending /\ failed \in JobType
    <3>1. (IF job.linkFailures < MaxLinkFailures
           THEN job.linkFailures + 1 ELSE job.linkFailures) \in 0..MaxLinkFailures
      BY <1>1, LimitsAssumption DEF JobType
    <3>2. QED
      BY <1>1, <3>1 DEF JobType
  <2>3. \/ job'.pending = job.pending /\ UNCHANGED victronResult
        \/ job.pending /\ Finish(failed, Timeout)
    BY <1>1, <2>1, <2>2 DEF LinkFailure, JobType
  <2> HIDE DEF failed
  <2>4. QED
    BY <1>2, <2>1, <2>2, <2>3 DEF CommandStep, CommandUnchanged, Outcomes
<1>11. CASE ReadFrame
  <2> DEFINE f == Head(toStm)
  <2>1. /\ bleBusy' = bleBusy /\ f \in StmFrames
        /\ \/ HandleReady(f) \/ HandleHelloAck(f) \/ HandleAccepted(f)
           \/ HandleResult(f) \/ HandleOtaState(f)
    BY <1>1, <1>11 DEF ReadFrame, Drained
  <2> HIDE DEF f
  <2>2. CASE HandleReady(f)
    <3> DEFINE again == [job EXCEPT !.requestPending = FALSE, !.accepted = FALSE]
               failed == [again EXCEPT !.linkFailures =
                             IF @ < MaxLinkFailures THEN @ + 1 ELSE @]
    <3>1. again \in JobType /\ again.pending = job.pending
      BY <1>1 DEF JobType
    <3>2. failed \in JobType /\ failed.pending = job.pending
      <4> HIDE DEF again
      <4>1. (IF again.linkFailures < MaxLinkFailures
             THEN again.linkFailures + 1 ELSE again.linkFailures) \in 0..MaxLinkFailures
        BY <3>1, LimitsAssumption DEF JobType
      <4>2. QED
        BY <3>1, <4>1 DEF JobType
    <3>3. \/ job' = again /\ UNCHANGED victronResult
          \/ job.pending /\ Finish(failed, Timeout)
          \/ job' = failed /\ UNCHANGED victronResult
      BY <2>2 DEF HandleReady
    <3> HIDE DEF again, failed
    <3>4. QED
      BY <1>2, <2>1, <3>1, <3>2, <3>3 DEF CommandStep, CommandUnchanged, Outcomes
  <2>3. CASE HandleAccepted(f)
    BY <1>1, <2>1, <2>3 DEF HandleAccepted, JobType, CommandStep, CommandUnchanged
  <2>4. CASE HandleResult(f)
    <3>1. f.code \in ResultCodes
      BY <2>1, <2>4, StmFrameFacts DEF HandleResult
    <3>2. CASE ForThisJob(f)
      <4>1. PICK code \in {f.code, Timeout} : Finish(job, code)
        BY <2>4, <3>2 DEF HandleResult
      <4>2. code \in Outcomes /\ job.pending
        BY <3>1, <3>2 DEF Outcomes, ForThisJob
      <4>3. QED
        BY <1>1, <1>2, <2>1, <4>1, <4>2 DEF CommandStep
    <3>3. CASE ~ForThisJob(f)
      BY <2>1, <2>4, <3>3 DEF HandleResult, CommandStep, CommandUnchanged
    <3>4. QED
      BY <3>2, <3>3
  <2>5. CASE HandleHelloAck(f) \/ HandleOtaState(f)
    BY <2>1, <2>5 DEF HandleHelloAck, HandleOtaState, CommandStep, CommandUnchanged
  <2>6. QED
    BY <2>1, <2>2, <2>3, <2>4, <2>5
<1>12. QED
  BY <1>3, <1>4, <1>5, <1>6, <1>7, <1>8, <1>9, <1>10, <1>11
     DEF Next, LoopStep, Service, Link, vars

(* The busy flag of the application and the companion's job never part      *)
(* ways: no command is forgotten while the application waits for it, and no *)
(* result is left for a command nobody asked for.                          *)
THEOREM BusyFollowsJob == Spec => []BusyMatchesJob
<1>1. Init => BusyMatchesJob
  BY DEF Init, BusyMatchesJob, IdleJob
<1>2. TypeInv /\ BusyMatchesJob /\ [Next]_vars => BusyMatchesJob'
  BY NextIsCommandStep, CommandStepBusy
<1>3. QED
  BY <1>1, <1>2, InitTypes, StepTypes, PTL DEF Spec

(* The companion link implements the command the application sees: every    *)
(* request is answered once and collected before the next.                 *)
THEOREM LinkImplementsCommand == Spec => ImplementsCommand
<1>1. Init => Command!Init
  BY DEF Init, Command!Init, IdleJob
<1>2. TypeInv /\ BusyMatchesJob /\ [Next]_vars =>
          [Command!Next]_<<IF ~bleBusy THEN "idle"
                           ELSE IF job.pending THEN "running" ELSE "done", victronResult>>
  <2> SUFFICES ASSUME TypeInv, BusyMatchesJob, [Next]_vars
               PROVE  [Command!Next]_<<IF ~bleBusy THEN "idle"
                           ELSE IF job.pending THEN "running" ELSE "done", victronResult>>
    OBVIOUS
  <2>1. CommandStep
    BY NextIsCommandStep
  <2>2. CommandRequested => Command!Request
    BY DEF CommandRequested, Command!Request
  <2>3. CommandConcluded => Command!Conclude
    BY DEF CommandConcluded, Command!Conclude
  <2>4. CommandCollected => Command!Collect
    BY DEF CommandCollected, Command!Collect
  <2>5. QED
    BY <2>1, <2>2, <2>3, <2>4 DEF CommandStep, CommandUnchanged, Command!Next
<1>3. QED
  BY <1>1, <1>2, InitTypes, StepTypes, BusyFollowsJob, PTL DEF Spec, Command!Spec, ImplementsCommand

-----------------------------------------------------------------------------
(* Identifiers.  While none is handed out twice, the commands on the line    *)
(* are in order, none older than what the ESP works on or has answered; all  *)
(* it started is as old as what it works on; and what waits to start is not   *)
(* among it.                                                               *)

IsLoadSet(f) == f.type = "VICTRON_LOAD_SET"

LineInv ==
    /\ \A k \in 1..Len(toEsp) : IsLoadSet(toEsp[k]) =>
           /\ esp.requestId <= toEsp[k].id /\ esp.cacheId <= toEsp[k].id
           /\ toEsp[k].id <= job.requestId
    /\ \A j, k \in 1..Len(toEsp) :
           j < k /\ IsLoadSet(toEsp[j]) /\ IsLoadSet(toEsp[k]) => toEsp[j].id <= toEsp[k].id

CounterInv ==
    /\ job.requestId < link.nextRequestId /\ link.nextRequestId <= history.allocations + 1
    /\ esp.requestId <= job.requestId /\ esp.cacheId <= job.requestId

StartedInv ==
    /\ \A id \in history.started : id <= esp.requestId
    /\ esp.workPending => esp.requestId \notin history.started
    /\ ~esp.requestActive => esp.requestId <= esp.cacheId

OnceInv == LineInv /\ CounterInv /\ StartedInv

(* Sending a frame adds that frame at the end of the line, or nothing.      *)
LEMMA PutFrames ==
    ASSUME NEW S, NEW line \in Seq(S), NEW f \in S, NEW after \in Put(line, f)
    PROVE  /\ Len(after) \in {Len(line), Len(line) + 1}
           /\ \A k \in 1..Len(after) : \/ k \in 1..Len(line) /\ after[k] = line[k]
                                       \/ k = Len(line) + 1 /\ after[k] = f
BY DEF Put

(* Reading one takes it from the front.                                    *)
LEMMA TailFrames ==
    ASSUME NEW S, NEW line \in Seq(S), line # <<>>
    PROVE  /\ Len(line) \in Nat \ {0} /\ Len(Tail(line)) = Len(line) - 1
           /\ \A k \in 1..Len(Tail(line)) : k + 1 \in 1..Len(line) /\ Tail(line)[k] = line[k + 1]
           /\ 1 \in 1..Len(line) /\ Head(line) = line[1]
  OBVIOUS

(* What a step of the STM32 does to the line and to the identifiers, as long *)
(* as the counter has not wrapped: a new command has the newest of all.      *)
IdsAdvance ==
    /\ job.requestId <= job'.requestId /\ job'.requestId < link'.nextRequestId
    /\ link'.nextRequestId <= history'.allocations + 1
LineAdvances ==
    \/ esp' = FreshEsp /\ toEsp' = <<>> /\ history'.started = {}
    \/ /\ esp' = esp /\ history'.started = history.started
       /\ \/ toEsp' = toEsp
          \/ \E f \in EspFrames : /\ toEsp' \in Put(toEsp, f)
                                  /\ IsLoadSet(f) => f.id = job'.requestId

LEMMA LoopIds ==
    ASSUME MaxAllocations <= MaxId, TypeInv, CounterInv, LoopStep
    PROVE  IdsAdvance /\ LineAdvances
<1>1. /\ history \in HistoryType /\ job \in JobType /\ link \in LinkType
      /\ MaxAllocations \in Nat /\ MaxId \in Nat \ {0} /\ JobIds
  BY BoundsAssumption DEF TypeInv, TypeOK
<1> DEFINE Same == /\ job'.requestId = job.requestId
                   /\ link'.nextRequestId = link.nextRequestId
                   /\ history'.allocations = history.allocations
           Kept == esp' = esp /\ history'.started = history.started /\ toEsp' = toEsp
           Lost == esp' = FreshEsp /\ toEsp' = <<>> /\ history'.started = {}
<1> SUFFICES ASSUME ~(Same /\ (Kept \/ Lost)) PROVE IdsAdvance /\ LineAdvances
  BY <1>1 DEF IdsAdvance, LineAdvances, CounterInv, JobType, LinkType, HistoryType
<1>2. ~(LoopPass \/ LoopDemand \/ LoopTick \/ LoopRequest \/ TakeResult)
  BY <1>1 DEF LoopPass, LoopDemand, LoopTick, LoopRequest, TakeResult, IdleJob, HistoryType
<1>3. ~ReadFrame
  <2>1. SUFFICES ASSUME ReadFrame PROVE Same /\ Kept
    OBVIOUS
  <2>2. Kept /\ history'.allocations = history.allocations
    BY <1>1, <2>1 DEF ReadFrame, HistoryType
  <2> DEFINE f == Head(toStm)
  <2>3. \/ HandleReady(f) \/ HandleHelloAck(f) \/ HandleAccepted(f)
        \/ HandleResult(f) \/ HandleOtaState(f)
    BY <2>1 DEF ReadFrame
  <2> HIDE DEF f
  <2>4. link'.nextRequestId = link.nextRequestId
    BY <1>1, <2>3 DEF HandleReady, HandleHelloAck, HandleAccepted, HandleResult,
       HandleOtaState, LinkType
  <2>5. job'.requestId = job.requestId
    <3>1. CASE HandleReady(f)
      BY <1>1, <3>1 DEF HandleReady, Finish, JobType
    <3>2. CASE HandleResult(f)
      BY <1>1, <3>2 DEF HandleResult, Finish, JobType
    <3>3. CASE HandleHelloAck(f) \/ HandleAccepted(f) \/ HandleOtaState(f)
      BY <1>1, <3>3 DEF HandleHelloAck, HandleAccepted, HandleOtaState, JobType
    <3>4. QED
      BY <2>3, <3>1, <3>2, <3>3
  <2>6. QED
    BY <2>2, <2>4, <2>5
<1>4. ~Service
  BY <1>1 DEF Service, ServiceHeld, ServiceUnwanted, ServiceOverdue, ServicePowerOn,
     ServicePowerWait, ServicePowered, EspLost, PowerOff, Finish, HistoryType, LinkType, JobType
<1>5. ~(LinkWait \/ LinkHelloExhausted \/ LinkPortalExhausted)
  <2>1. ~LinkWait
    BY DEF LinkWait
  <2>2. ASSUME LinkFailure PROVE Same /\ Lost
    <3>1. link'.nextRequestId = link.nextRequestId
      BY <1>1, <2>2 DEF LinkFailure, PowerOff, LinkType
    <3>2. Lost /\ history'.allocations = history.allocations
      BY <1>1, <2>2 DEF LinkFailure, EspLost, HistoryType
    <3>3. job'.requestId = job.requestId
      BY <1>1, <2>2 DEF LinkFailure, Finish, JobType
    <3>4. QED
      BY <3>1, <3>2, <3>3
  <2>3. QED
    BY <2>1, <2>2 DEF LinkHelloExhausted, LinkPortalExhausted
<1>6. ASSUME history.allocations < MaxAllocations
      PROVE  /\ Allocated(link.nextRequestId) = link.nextRequestId
             /\ link.nextRequestId \in Ids
  BY <1>1, <1>6 DEF Allocated, CounterInv, LinkType, HistoryType, Ids
<1>7. CASE LinkHello
  <2> DEFINE fresh == link.helloId = 0
             id == IF fresh THEN Allocated(link.nextRequestId) ELSE link.helloId
  <2>1. /\ fresh => history.allocations < MaxAllocations
        /\ link'.nextRequestId = IF fresh THEN id + 1 ELSE link.nextRequestId
        /\ history'.allocations = IF fresh THEN history.allocations + 1
                                  ELSE history.allocations
        /\ toEsp' \in Put(toEsp, Hello(id)) /\ UNCHANGED <<job, esp>>
        /\ history'.started = history.started
    BY <1>1, <1>7 DEF LinkHello, IdLeft, CountAllocation, LinkType, HistoryType
  <2>2. id \in Ids
    BY <1>1, <1>6, <2>1 DEF LinkType, Ids
  <2>3. Hello(id) \in EspFrames /\ ~IsLoadSet(Hello(id))
    BY <2>2, EspFrameFacts DEF Hello, Frame, IsLoadSet
  <2>4. /\ job.requestId < link'.nextRequestId
        /\ link'.nextRequestId <= history'.allocations + 1
    BY <1>1, <1>6, <2>1 DEF CounterInv, LinkType, HistoryType, JobType
  <2> HIDE DEF id, fresh
  <2>5. QED
    BY <1>1, <2>1, <2>3, <2>4 DEF JobType, IdsAdvance, LineAdvances
<1>8. CASE LinkRequest
  <2> DEFINE fresh == ~job.deliveryStarted
             id == IF fresh THEN Allocated(link.nextRequestId) ELSE job.requestId
  <2>1. /\ fresh => history.allocations < MaxAllocations
        /\ link'.nextRequestId = IF fresh THEN id + 1 ELSE link.nextRequestId
        /\ history'.allocations = IF fresh THEN history.allocations + 1
                                  ELSE history.allocations
        /\ toEsp' \in Put(toEsp, LoadSet(id)) /\ job'.requestId = id /\ UNCHANGED esp
        /\ history'.started = history.started
    BY <1>1, <1>8, FirstSendTypes DEF LinkRequest, IdLeft, LinkType, JobType
  <2>2. id \in Ids
    BY <1>1, <1>6, <2>1 DEF JobIds
  <2>3. LoadSet(id) \in EspFrames /\ LoadSet(id).id = id
    BY <2>2, EspFrameFacts DEF LoadSet, Frame
  <2>4. /\ job.requestId <= id /\ id < link'.nextRequestId
        /\ link'.nextRequestId <= history'.allocations + 1
    BY <1>1, <1>6, <2>1 DEF CounterInv, LinkType, HistoryType, JobType
  <2> HIDE DEF id, fresh
  <2>5. QED
    BY <1>1, <2>1, <2>3, <2>4 DEF IdsAdvance, LineAdvances
<1>9. QED
  BY <1>2, <1>3, <1>4, <1>5, <1>7, <1>8 DEF LoopStep, Link

(* A step of the STM32 keeps the commands in order.                         *)
LEMMA LoopOnce == MaxAllocations <= MaxId /\ TypeInv /\ OnceInv /\ LoopStep => OnceInv'
<1> SUFFICES ASSUME MaxAllocations <= MaxId, TypeInv, OnceInv, LoopStep PROVE OnceInv'
  OBVIOUS
<1>1. /\ toEsp \in Seq(EspFrames) /\ job.requestId \in Nat /\ job'.requestId \in Nat
      /\ esp.requestId \in Nat /\ esp.cacheId \in Nat
  <2>1. TypeOK /\ TypeOK'
    BY LoopTypes DEF TypeInv
  <2>2. QED
    BY <2>1 DEF TypeOK, JobType, EspType
<1>2. IdsAdvance /\ LineAdvances
  BY LoopIds DEF OnceInv
<1>3. CASE esp' = FreshEsp /\ toEsp' = <<>> /\ history'.started = {}
  BY <1>1, <1>2, <1>3 DEF IdsAdvance, OnceInv, LineInv, CounterInv, StartedInv, FreshEsp
<1>4. CASE esp' = esp /\ history'.started = history.started
  <2>1. CounterInv' /\ StartedInv'
    BY <1>1, <1>2, <1>4 DEF IdsAdvance, OnceInv, CounterInv, StartedInv
  <2>2. ASSUME toEsp' = toEsp PROVE LineInv'
    <3>1. \A f \in EspFrames : f.id \in Nat
      BY EspFrameFacts DEF Ids
    <3>2. LineInv'
      BY <1>1, <1>2, <1>4, <2>2, <3>1 DEF IdsAdvance, OnceInv, LineInv
    <3>3. QED
      BY <3>2
  <2>3. ASSUME NEW f \in EspFrames, toEsp' \in Put(toEsp, f), IsLoadSet(f) => f.id = job'.requestId
        PROVE  LineInv'
    <3>1. \A k \in 1..Len(toEsp') : \/ k \in 1..Len(toEsp) /\ toEsp'[k] = toEsp[k]
                                    \/ k = Len(toEsp) + 1 /\ toEsp'[k] = f
      BY <1>1, <2>3, PutFrames
    <3>2. \A k \in 1..Len(toEsp) : toEsp[k].id \in Nat
      BY <1>1, EspFrameFacts DEF Ids
    <3>3. ASSUME NEW k \in 1..Len(toEsp'), IsLoadSet(toEsp'[k])
          PROVE  /\ esp.requestId <= toEsp'[k].id /\ esp.cacheId <= toEsp'[k].id
                 /\ toEsp'[k].id <= job'.requestId
      <4>1. CASE k \in 1..Len(toEsp) /\ toEsp'[k] = toEsp[k]
        BY <1>1, <1>2, <3>2, <3>3, <4>1 DEF IdsAdvance, OnceInv, LineInv
      <4>2. CASE toEsp'[k] = f
        BY <1>1, <1>2, <2>3, <3>3, <4>2 DEF IdsAdvance, OnceInv, CounterInv
      <4>3. QED
        BY <3>1, <4>1, <4>2
    <3>4. ASSUME NEW j \in 1..Len(toEsp'), NEW k \in 1..Len(toEsp'), j < k,
                 IsLoadSet(toEsp'[j]), IsLoadSet(toEsp'[k])
          PROVE  toEsp'[j].id <= toEsp'[k].id
      <4>1. j \in 1..Len(toEsp) /\ toEsp'[j] = toEsp[j]
        BY <1>1, <3>1, <3>4
      <4>2. CASE k \in 1..Len(toEsp) /\ toEsp'[k] = toEsp[k]
        BY <3>4, <4>1, <4>2 DEF OnceInv, LineInv
      <4>3. CASE toEsp'[k] = f
        BY <1>1, <1>2, <2>3, <3>2, <3>4, <4>1, <4>3 DEF IdsAdvance, OnceInv, LineInv
      <4>4. QED
        BY <3>1, <4>2, <4>3
    <3>5. QED
      BY <1>4, <3>3, <3>4 DEF LineInv, IsLoadSet
  <2>4. QED
    <3>1. CASE esp' = FreshEsp /\ toEsp' = <<>> /\ history'.started = {}
      BY <1>3, <3>1
    <3>2. CASE LineInv'
      BY <2>1, <3>2 DEF OnceInv
    <3>3. QED
      BY <1>2, <2>2, <2>3, <3>1, <3>2 DEF LineAdvances
<1>5. QED
  BY <1>2, <1>3, <1>4 DEF LineAdvances

(* A step of the ESP: a command it takes is the oldest on the line, and as   *)
(* new as any it has seen; it starts one only if it has not started it.      *)
LEMMA EspOnce == TypeInv /\ OnceInv /\ EspStep => OnceInv'
<1> SUFFICES ASSUME TypeInv, OnceInv, EspStep PROVE OnceInv'
  OBVIOUS
<1>1. /\ history \in HistoryType /\ esp \in EspType /\ toEsp \in Seq(EspFrames)
      /\ UNCHANGED stmVars /\ EspIds /\ job.requestId \in Nat
      /\ esp.requestId \in Nat /\ esp.cacheId \in Nat
  BY EspDeadline DEF TypeInv, TypeOK, EspType, JobType
<1>2. history'.allocations = history.allocations
  <2>1. CASE \E code \in {"ok", "fail"}, restart \in BOOLEAN : ManagerFinish(code, restart)
    BY <1>1, <2>1 DEF ManagerFinish, HistoryType
  <2>2. CASE ManagerStart \/ EspRestart \/ UploadBegin
    BY <1>1, <2>2 DEF ManagerStart, EspRestart, UploadBegin, HistoryType
  <2>3. CASE ReceiveHello \/ ReceiveLoadSet \/ SendReply \/ ManagerCheck \/ ManagerAnnounce
             \/ ManagerSend \/ UploadEnd
    BY <2>3 DEF ReceiveHello, ReceiveLoadSet, SendReply, ManagerCheck, ManagerAnnounce,
       ManagerSend, UploadEnd
  <2>4. QED
    BY <2>1, <2>2, <2>3 DEF EspStep
<1>3. link' = link /\ job' = job
  BY <1>1 DEF stmVars
(* Most steps touch neither the identifiers nor the line.                    *)
<1>4. ASSUME UNCHANGED toEsp, history'.started = history.started,
             esp'.requestId = esp.requestId, esp'.cacheId = esp.cacheId,
             esp'.workPending = esp.workPending, esp'.requestActive = esp.requestActive
      PROVE  OnceInv'
  BY <1>2, <1>3, <1>4 DEF OnceInv, LineInv, CounterInv, StartedInv
<1>5. CASE SendReply \/ ManagerCheck \/ ManagerAnnounce \/ ManagerSend \/ UploadBegin \/ UploadEnd
  BY <1>1, <1>4, <1>5 DEF SendReply, ManagerCheck, ManagerAnnounce, ManagerSend, UploadBegin,
     UploadEnd, EspType, HistoryType
<1>6. ASSUME toEsp # <<>>, toEsp' = Tail(toEsp),
             esp'.requestId \in {esp.requestId, toEsp[1].id},
             esp'.cacheId \in {esp.cacheId, toEsp[1].id},
             \/ esp'.requestId = esp.requestId /\ esp'.cacheId = esp.cacheId
             \/ IsLoadSet(toEsp[1])
      PROVE  LineInv'
  <2>1. /\ \A k \in 1..Len(toEsp') : k + 1 \in 1..Len(toEsp) /\ toEsp'[k] = toEsp[k + 1]
        /\ 1 \in 1..Len(toEsp) /\ Len(toEsp) \in Nat /\ Len(toEsp') = Len(toEsp) - 1
    BY <1>1, <1>6, TailFrames
  <2>2. \A k \in 1..Len(toEsp') : 1 < k + 1
    BY <2>1
  <2>3. \A k \in 1..Len(toEsp') : IsLoadSet(toEsp'[k]) =>
            /\ esp'.requestId <= toEsp'[k].id /\ esp'.cacheId <= toEsp'[k].id
            /\ toEsp'[k].id <= job.requestId
    BY <1>6, <2>1, <2>2 DEF OnceInv, LineInv
  <2>4. ASSUME NEW j \in 1..Len(toEsp'), NEW k \in 1..Len(toEsp'), j < k,
               IsLoadSet(toEsp'[j]), IsLoadSet(toEsp'[k])
        PROVE  toEsp'[j].id <= toEsp'[k].id
    <3>1. j + 1 < k + 1
      BY <2>1, <2>4
    <3>2. QED
      BY <2>1, <2>4, <3>1 DEF OnceInv, LineInv
  <2>5. QED
    BY <1>3, <2>3, <2>4 DEF LineInv, IsLoadSet
<1>7. CASE ReceiveHello
  <2>1. /\ toEsp # <<>> /\ toEsp' = Tail(toEsp) /\ history' = history
        /\ esp'.requestId = esp.requestId /\ esp'.cacheId = esp.cacheId
        /\ esp'.workPending = esp.workPending /\ esp'.requestActive = esp.requestActive
    BY <1>1, <1>7 DEF ReceiveHello, EspType
  <2>2. QED
    BY <1>3, <1>6, <2>1 DEF OnceInv, CounterInv, StartedInv
<1>8. CASE ReceiveLoadSet
  <2> DEFINE id == toEsp[1].id
  <2>1. /\ toEsp # <<>> /\ toEsp' = Tail(toEsp) /\ history' = history
        /\ Head(toEsp) = toEsp[1] /\ IsLoadSet(toEsp[1]) /\ 1 \in 1..Len(toEsp)
    BY <1>1, <1>8, TailFrames DEF ReceiveLoadSet, IsLoadSet
  <2>2. /\ id \in Nat /\ esp.requestId <= id /\ esp.cacheId <= id /\ id <= job.requestId
    BY <1>1, <2>1, EspFrameFacts DEF OnceInv, LineInv, Ids
  <2>3. \/ /\ esp'.requestId = esp.requestId /\ esp'.cacheId = esp.cacheId
           /\ esp'.workPending = esp.workPending /\ esp'.requestActive = esp.requestActive
        \/ /\ esp.cacheId # id /\ ~esp.requestActive
           /\ esp'.requestId = id /\ esp'.cacheId = esp.cacheId
           /\ esp'.workPending /\ esp'.requestActive
        \/ /\ ~esp.requestActive
           /\ esp'.requestId = esp.requestId /\ esp'.cacheId = id
           /\ esp'.workPending = esp.workPending /\ esp'.requestActive = esp.requestActive
    <3>1. \/ esp' = [esp EXCEPT !.reply = Result(id, esp.cacheCode)]
          \/ \E r \in {Accepted(id), Result(id, "busy")} : esp' = [esp EXCEPT !.reply = r]
          \/ /\ esp.cacheId # id /\ ~esp.requestActive
             /\ esp' = [esp EXCEPT !.reply = Accepted(id), !.requestActive = TRUE,
                                   !.workPending = TRUE, !.requestId = id]
          \/ /\ ~esp.requestActive
             /\ esp' = [esp EXCEPT !.reply = Result(id, "bad_settings"), !.cacheId = id,
                                   !.cacheCode = "bad_settings"]
      BY <1>8, <2>1 DEF ReceiveLoadSet, Answered
    <3>2. QED
      BY <1>1, <3>1 DEF EspType
  <2> HIDE DEF id
  <2>4. LineInv'
    BY <1>6, <2>1, <2>3 DEF id
  <2>5. CounterInv'
    BY <1>3, <2>1, <2>2, <2>3 DEF OnceInv, CounterInv
  <2>6. \A n \in history.started : n \in Nat
    BY <1>1 DEF HistoryType, Ids
  <2>7. StartedInv'
    BY <1>1, <2>1, <2>2, <2>3, <2>6 DEF OnceInv, StartedInv
  <2>8. QED
    BY <2>4, <2>5, <2>7 DEF OnceInv
<1>9. CASE ManagerStart
  <2>1. /\ esp'.requestId = esp.requestId /\ esp'.cacheId = esp.cacheId
        /\ ~esp'.workPending /\ esp'.requestActive = esp.requestActive /\ UNCHANGED toEsp
        /\ history'.started = history.started \cup {esp.requestId}
    <3> DEFINE taken == [esp EXCEPT !.workPending = FALSE]
    <3>1. /\ DOMAIN taken = DOMAIN esp /\ ~taken.workPending
          /\ taken.requestId = esp.requestId /\ taken.cacheId = esp.cacheId
          /\ taken.requestActive = esp.requestActive
      BY <1>1 DEF EspType
    <3>2. esp' = [taken EXCEPT !.manager = "run"] /\ UNCHANGED toEsp
      BY <1>9 DEF ManagerStart
    <3>3. history'.started = history.started \cup {esp.requestId}
      BY <1>1, <1>9 DEF ManagerStart, HistoryType
    <3> HIDE DEF taken
    <3>4. QED
      BY <3>1, <3>2, <3>3
  <2>2. QED
    BY <1>1, <1>2, <1>3, <2>1 DEF OnceInv, LineInv, CounterInv, StartedInv
<1>10. CASE \E code \in {"ok", "fail"}, restart \in BOOLEAN : ManagerFinish(code, restart)
  <2>1. /\ esp'.requestId = esp.requestId /\ esp'.cacheId = esp.requestId
        /\ esp'.workPending = esp.workPending /\ ~esp'.requestActive /\ UNCHANGED toEsp
        /\ history'.started = history.started
    BY <1>1, <1>10 DEF ManagerFinish, EspType, HistoryType
  <2>2. QED
    BY <1>1, <1>2, <1>3, <2>1 DEF OnceInv, LineInv, CounterInv, StartedInv
<1>11. CASE EspRestart
  <2>1. esp' = FreshEsp /\ toEsp' = <<>> /\ history'.started = {}
    BY <1>1, <1>11 DEF EspRestart, HistoryType
  <2>2. QED
    BY <1>1, <1>2, <1>3, <2>1 DEF OnceInv, LineInv, CounterInv, StartedInv, FreshEsp
<1>12. QED
  BY <1>5, <1>7, <1>8, <1>9, <1>10, <1>11 DEF EspStep

(* At first there is no command at all.                                    *)
LEMMA InitOnce == Init => OnceInv
<1> SUFFICES ASSUME Init PROVE OnceInv
  OBVIOUS
<1>2. toEsp = <<>> /\ Len(toEsp) = 0
  BY DEF Init
<1>3. LineInv
  BY <1>2 DEF LineInv
<1>4. QED
  BY <1>3, BoundsAssumption DEF Init, OnceInv, CounterInv, StartedInv, IdleJob, FreshEsp

(* No step disturbs the order of the identifiers.                           *)
LEMMA StepOnce ==
    ASSUME MaxAllocations <= MaxId PROVE TypeInv /\ OnceInv /\ [Next]_vars => OnceInv'
<1>1. OnceInv /\ UNCHANGED vars => OnceInv'
  BY DEF OnceInv, LineInv, CounterInv, StartedInv, IsLoadSet, vars, stmVars
<1>2. QED
  BY <1>1, LoopOnce, EspOnce DEF Next

(* In one session of the ESP no command is run twice, however often the      *)
(* STM32 repeats it and whatever was cached, refused or lost in between, as  *)
(* long as the counter of identifiers has not wrapped: then an identifier    *)
(* may come again for another command.                                     *)
THEOREM CommandsRunOnce == ASSUME MaxAllocations <= MaxId PROVE Spec => RunsOnce
<1>1. TypeInv /\ OnceInv /\ [Next]_vars => OnceInv'
  BY StepOnce
<1>2. OnceInv /\ [Next]_vars => [ManagerStart => esp.requestId \notin history.started]_vars
  BY DEF OnceInv, StartedInv, ManagerStart
<1>3. QED
  BY <1>1, <1>2, InitOnce, InitTypes, StepTypes, PTL DEF Spec, RunsOnce

-----------------------------------------------------------------------------
(* Success.  A result travels through the cache, the reply or the manager's  *)
(* own frame, and the line.  None of them has an identifier that is still to *)
(* come; and what says "ok" there to the command that was sent is of a       *)
(* worker that ended well since, whichever the STM32 hears, and when.        *)

Genuine(f) ==
    f.type = "VICTRON_RESULT" =>
        /\ f.id <= job.requestId
        /\ f.code = "ok" /\ f.id = job.requestId /\ job.deliveryStarted
               => job.requestId \in history.finishedOk

CacheGenuine ==
    esp.cacheCode = "ok" /\ esp.cacheId = job.requestId /\ job.deliveryStarted
        => job.requestId \in history.finishedOk

GenuineInv ==
    /\ SuccessIsGenuine /\ CacheGenuine
    /\ Genuine(esp.reply) /\ Genuine(esp.outgoing)
    /\ \A k \in 1..Len(toStm) : Genuine(toStm[k])

(* What a step of the STM32 leaves of the ESP and of what the ESP sent: the  *)
(* command keeps its identifier, or gets one that is newer.                 *)
JobSame ==
    /\ job'.requestId = job.requestId /\ (job'.deliveryStarted => job.deliveryStarted)
    /\ history'.finishedOk = history.finishedOk
JobSent == LinkRequest /\ job.requestId < job'.requestId /\ UNCHANGED <<esp, toStm>>

LEMMA LoopFrames ==
    ASSUME MaxAllocations <= MaxId, TypeInv, CounterInv, LoopStep
    PROVE  /\ JobSame \/ JobSent
           /\ esp' \in {esp, FreshEsp}
           /\ \/ toStm' \in {toStm, <<>>}
              \/ toStm # <<>> /\ toStm' = Tail(toStm)
<1>1. history \in HistoryType /\ job \in JobType /\ link \in LinkType
  BY DEF TypeInv, TypeOK
<1>2. CASE LoopPass \/ LoopDemand \/ LoopTick \/ LoopRequest \/ TakeResult
  BY <1>1, <1>2 DEF LoopPass, LoopDemand, LoopTick, LoopRequest, IdleJob, TakeResult,
     HistoryType, JobSame
<1>3. CASE ReadFrame
  <2>1. /\ history'.finishedOk = history.finishedOk /\ esp' = esp
        /\ toStm # <<>> /\ toStm' = Tail(toStm)
    BY <1>1, <1>3 DEF ReadFrame, Drained, HistoryType
  <2> DEFINE f == Head(toStm)
  <2>2. \/ HandleReady(f) \/ HandleHelloAck(f) \/ HandleAccepted(f)
        \/ HandleResult(f) \/ HandleOtaState(f)
    BY <1>3 DEF ReadFrame
  <2> HIDE DEF f
  <2>3. job'.requestId = job.requestId /\ job'.deliveryStarted = job.deliveryStarted
    <3>1. CASE HandleReady(f)
      BY <1>1, <3>1 DEF HandleReady, Finish, JobType
    <3>2. CASE HandleResult(f)
      BY <1>1, <3>2 DEF HandleResult, Finish, JobType
    <3>3. CASE HandleHelloAck(f) \/ HandleAccepted(f) \/ HandleOtaState(f)
      BY <1>1, <3>3 DEF HandleHelloAck, HandleAccepted, HandleOtaState, JobType
    <3>4. QED
      BY <2>2, <3>1, <3>2, <3>3
  <2>4. QED
    BY <2>1, <2>3 DEF JobSame
<1>4. CASE Service
  BY <1>1, <1>4 DEF Service, ServiceHeld, ServiceUnwanted, ServiceOverdue, ServicePowerOn,
     ServicePowerWait, ServicePowered, EspLost, Finish, HistoryType, JobType, JobSame
<1>5. CASE LinkWait \/ LinkHello
  BY <1>1, <1>5 DEF LinkWait, LinkHello, CountAllocation, HistoryType, JobSame
<1>6. CASE LinkHelloExhausted \/ LinkPortalExhausted
  <2>1. LinkFailure /\ UNCHANGED toStm
    BY <1>6 DEF LinkHelloExhausted, LinkPortalExhausted
  <2>2. job'.requestId = job.requestId /\ job'.deliveryStarted = job.deliveryStarted
    BY <1>1, <2>1 DEF LinkFailure, Finish, JobType
  <2>3. history'.finishedOk = history.finishedOk /\ esp' = FreshEsp
    BY <1>1, <2>1 DEF LinkFailure, EspLost, HistoryType
  <2>4. QED
    BY <2>1, <2>2, <2>3 DEF JobSame
<1>7. CASE LinkRequest
  <2>1. UNCHANGED <<esp, toStm>>
    BY <1>7 DEF LinkRequest
  <2>2. CASE job.deliveryStarted
    <3>1. job'.requestId = job.requestId /\ history' = history
      BY <1>1, <1>7, <2>2 DEF LinkRequest, FirstSend, JobType
    <3>2. QED
      BY <2>1, <2>2, <3>1 DEF JobSame
  <2>3. CASE ~job.deliveryStarted
    <3>1. job'.requestId = Allocated(link.nextRequestId) /\ IdLeft
      BY <1>1, <1>7, <2>3 DEF LinkRequest, JobType
    <3>2. job.requestId < Allocated(link.nextRequestId)
      BY <1>1, <3>1, BoundsAssumption
        DEF Allocated, IdLeft, CounterInv, LinkType, HistoryType, JobType
    <3>3. QED
      BY <1>7, <2>1, <3>1, <3>2 DEF JobSent
  <2>4. QED
    BY <2>2, <2>3
<1>8. QED
  BY <1>2, <1>3, <1>4, <1>5, <1>6, <1>7 DEF LoopStep, Link

(* A frame that was genuine stays so.                                      *)
LEMMA GenuineStays ==
    ASSUME TypeInv, JobSame \/ JobSent, job'.requestId \in Nat,
           NEW f \in StmFrames \cup {NoReply}, Genuine(f)
    PROVE  /\ f.type = "VICTRON_RESULT" =>
                  /\ f.id <= job'.requestId
                  /\ f.code = "ok" /\ f.id = job'.requestId /\ job'.deliveryStarted
                         => job'.requestId \in history'.finishedOk
<1>1. f.type = "VICTRON_RESULT" => f.id \in Nat
  BY StmFrameFacts DEF NoReply, Frame, Ids
<1>2. job.requestId \in Nat
  BY DEF TypeInv, TypeOK, JobType
<1>3. CASE JobSame
  BY <1>3 DEF JobSame, Genuine
<1>4. CASE JobSent
  <2>1. \A n \in Nat : n <= job.requestId => n <= job'.requestId /\ n # job'.requestId
    BY <1>2, <1>4 DEF JobSent
  <2>2. QED
    BY <1>1, <2>1 DEF Genuine
<1>5. QED
  BY <1>3, <1>4

(* The STM32 reports success only on a frame that tells of it.              *)
LEMMA LoopSuccess ==
    ASSUME MaxAllocations <= MaxId, TypeInv, CounterInv, BusyMatchesJob, GenuineInv, LoopStep
    PROVE  SuccessIsGenuine'
<1>1. job \in JobType /\ toStm \in Seq(StmFrames) /\ (JobSame \/ JobSent)
  BY LoopFrames DEF TypeInv, TypeOK
<1>2. ASSUME victronResult' \in {Timeout, NoResult}
      PROVE  SuccessIsGenuine'
  BY <1>2 DEF SuccessIsGenuine, Timeout, NoResult
<1>3. CASE LinkRequest
  BY <1>2, <1>3 DEF LinkRequest, BusyMatchesJob
<1>4. CASE JobSent
  BY <1>3, <1>4 DEF JobSent
<1>5. ASSUME UNCHANGED victronResult
      PROVE  SuccessIsGenuine'
  <2>1. CASE JobSame
    BY <1>5, <2>1 DEF GenuineInv, SuccessIsGenuine, JobSame
  <2>2. QED
    BY <1>1, <1>4, <2>1
<1>6. CASE LoopPass \/ LoopDemand \/ LoopTick \/ LoopRequest \/ ServiceHeld \/ ServiceUnwanted
           \/ ServicePowerOn \/ ServicePowerWait \/ ServicePowered \/ LinkWait \/ LinkHello
  BY <1>5, <1>6 DEF LoopPass, LoopDemand, LoopTick, LoopRequest, ServiceHeld, ServiceUnwanted,
     ServicePowerOn, ServicePowerWait, ServicePowered, LinkWait, LinkHello
<1>7. CASE TakeResult
  BY <1>2, <1>7 DEF TakeResult
<1>8. CASE ServiceOverdue
  BY <1>2, <1>8 DEF ServiceOverdue, Finish
<1>9. CASE LinkHelloExhausted \/ LinkPortalExhausted
  <2>1. LinkFailure
    BY <1>9 DEF LinkHelloExhausted, LinkPortalExhausted
  <2>2. victronResult' = Timeout \/ UNCHANGED victronResult
    BY <2>1 DEF LinkFailure, Finish
  <2>3. QED
    BY <1>2, <1>5, <2>2
<1>10. CASE ReadFrame
  <2> DEFINE f == Head(toStm)
  <2>1. /\ Genuine(f)
        /\ \/ HandleReady(f) \/ HandleHelloAck(f) \/ HandleAccepted(f)
           \/ HandleResult(f) \/ HandleOtaState(f)
    BY <1>1, <1>10, TailFrames DEF ReadFrame, Drained, GenuineInv
  <2> HIDE DEF f
  <2>2. CASE HandleReady(f)
    <3>1. victronResult' = Timeout \/ UNCHANGED victronResult
      BY <2>2 DEF HandleReady, Finish
    <3>2. QED
      BY <1>2, <1>5, <3>1
  <2>3. CASE HandleResult(f) /\ ForThisJob(f)
    <3>1. /\ f.type = "VICTRON_RESULT" /\ f.id = job.requestId
          /\ victronResult' \in {f.code, Timeout}
      BY <2>3 DEF HandleResult, ForThisJob, Finish
    <3>2. CASE JobSame
      BY <2>1, <3>1, <3>2 DEF Genuine, SuccessIsGenuine, JobSame, Timeout
    <3>3. QED
      BY <1>1, <1>4, <3>2
  <2>4. CASE HandleResult(f) /\ ~ForThisJob(f)
    BY <1>5, <2>4 DEF HandleResult
  <2>5. CASE HandleHelloAck(f) \/ HandleAccepted(f) \/ HandleOtaState(f)
    BY <1>5, <2>5 DEF HandleHelloAck, HandleAccepted, HandleOtaState
  <2>6. QED
    BY <2>1, <2>2, <2>3, <2>4, <2>5
<1>11. QED
  BY <1>3, <1>6, <1>7, <1>8, <1>9, <1>10 DEF LoopStep, Service, Link

(* A step of the STM32 keeps what is on its way from the ESP genuine.        *)
LEMMA LoopGenuine ==
    MaxAllocations <= MaxId /\ TypeInv /\ CounterInv /\ BusyMatchesJob /\ GenuineInv /\ LoopStep
        => GenuineInv'
<1> SUFFICES ASSUME MaxAllocations <= MaxId, TypeInv, CounterInv, BusyMatchesJob, GenuineInv,
                    LoopStep
             PROVE  GenuineInv'
  OBVIOUS
<1>1. /\ JobSame \/ JobSent
      /\ esp' \in {esp, FreshEsp}
      /\ \/ toStm' \in {toStm, <<>>}
         \/ toStm # <<>> /\ toStm' = Tail(toStm)
  BY LoopFrames
<1>2. /\ toStm \in Seq(StmFrames) /\ esp \in EspType
      /\ job.requestId \in Nat /\ job'.requestId \in Nat
  <2>1. TypeOK /\ TypeOK'
    BY LoopTypes DEF TypeInv
  <2>2. QED
    BY <2>1 DEF TypeOK, JobType
<1>3. ASSUME NEW f \in StmFrames \cup {NoReply}, Genuine(f)
      PROVE  /\ f.type = "VICTRON_RESULT" =>
                    /\ f.id <= job'.requestId
                    /\ f.code = "ok" /\ f.id = job'.requestId /\ job'.deliveryStarted
                           => job'.requestId \in history'.finishedOk
  BY <1>1, <1>2, <1>3, GenuineStays
<1>4. Genuine(esp.reply)' /\ Genuine(esp.outgoing)'
  <2>1. CASE esp' = FreshEsp
    BY <2>1 DEF Genuine, FreshEsp, NoReply, Frame
  <2>2. CASE esp' = esp
    <3>1. /\ esp.reply \in StmFrames \cup {NoReply} /\ Genuine(esp.reply)
          /\ esp.outgoing \in StmFrames \cup {NoReply} /\ Genuine(esp.outgoing)
      BY <1>2, StmFrameFacts DEF EspType, GenuineInv
    <3>2. QED
      BY <1>3, <2>2, <3>1 DEF Genuine
  <2>3. QED
    BY <1>1, <2>1, <2>2
<1>5. CacheGenuine'
  <2>1. CASE esp' = FreshEsp
    BY <2>1 DEF CacheGenuine, FreshEsp, NoResult
  <2>2. CASE esp' = esp /\ JobSame
    BY <2>2 DEF GenuineInv, CacheGenuine, JobSame
  <2>3. CASE esp' = esp /\ JobSent
    <3>1. esp.cacheId \in Nat /\ esp.cacheId <= job.requestId /\ job.requestId < job'.requestId
      BY <1>2, <2>3 DEF CounterInv, EspType, JobSent
    <3>2. esp'.cacheId # job'.requestId
      BY <1>2, <2>3, <3>1
    <3>3. QED
      BY <3>2 DEF CacheGenuine
  <2>4. QED
    BY <1>1, <2>1, <2>2, <2>3
<1>6. \A k \in 1..Len(toStm') : Genuine(toStm[k])'
  <2>1. \A k \in 1..Len(toStm) : toStm[k] \in StmFrames /\ Genuine(toStm[k])
    BY <1>2 DEF GenuineInv
  <2>2. \A k \in 1..Len(toStm') : \E i \in 1..Len(toStm) : toStm'[k] = toStm[i]
    <3>1. CASE toStm' \in {toStm, <<>>}
      BY <3>1
    <3>2. CASE toStm # <<>> /\ toStm' = Tail(toStm)
      BY <1>2, <3>2, TailFrames
    <3>3. QED
      BY <1>1, <3>1, <3>2
  <2>3. ASSUME NEW k \in 1..Len(toStm')
        PROVE  Genuine(toStm[k])'
    <3>1. PICK i \in 1..Len(toStm) : toStm'[k] = toStm[i]
      BY <2>2
    <3>2. QED
      BY <1>3, <2>1, <3>1 DEF Genuine
  <2>4. QED
    BY <2>3
<1>7. QED
  BY <1>4, <1>5, <1>6, LoopSuccess DEF GenuineInv

(* Frames that are not a result claim nothing.                             *)
LEMMA OtherFrames ==
    /\ \A s : Ready(s).type = "READY"
    /\ \A on : OtaState(on).type = "OTA_STATE"
    /\ \A id, s : HelloAck(id, s).type = "HELLO_ACK"
    /\ \A id : Accepted(id).type = "VICTRON_ACCEPTED"
    /\ \A id, c : Result(id, c).type = "VICTRON_RESULT" /\ Result(id, c).id = id
                  /\ Result(id, c).code = c
    /\ NoReply.type = "none"
BY DEF Ready, OtaState, HelloAck, Accepted, Result, NoReply, Frame

(* A step of the ESP: it caches a result when it has one, and what it sends  *)
(* comes from the cache or is the result itself.                           *)
LEMMA EspGenuine == TypeInv /\ OnceInv /\ GenuineInv /\ EspStep => GenuineInv'
<1> SUFFICES ASSUME TypeInv, OnceInv, GenuineInv, EspStep PROVE GenuineInv'
  OBVIOUS
<1>1. /\ history \in HistoryType /\ esp \in EspType /\ toStm \in Seq(StmFrames)
      /\ toEsp \in Seq(EspFrames) /\ UNCHANGED stmVars
      /\ job' = job /\ job.requestId \in Nat
  BY EspDeadline DEF TypeInv, TypeOK, stmVars, JobType
<1>2. ASSUME history.finishedOk \subseteq history'.finishedOk,
             CacheGenuine',
             esp'.reply \in {esp.reply, NoReply} \/ Genuine(esp.reply)',
             esp'.outgoing \in {esp.outgoing, NoReply} \/ Genuine(esp.outgoing)',
             \/ UNCHANGED toStm
             \/ \E f \in StmFrames : toStm' \in Put(toStm, f) /\ Genuine(f)
      PROVE  GenuineInv'
  <2>1. SuccessIsGenuine'
    BY <1>1, <1>2 DEF GenuineInv, SuccessIsGenuine, stmVars
  <2>2. Genuine(esp.reply)' /\ Genuine(esp.outgoing)'
    BY <1>1, <1>2, OtherFrames DEF GenuineInv, Genuine
  <2>3. \A k \in 1..Len(toStm') : Genuine(toStm[k])'
    <3>1. CASE UNCHANGED toStm
      BY <1>1, <1>2, <3>1 DEF GenuineInv, Genuine
    <3>2. ASSUME NEW f \in StmFrames, toStm' \in Put(toStm, f), Genuine(f)
          PROVE  \A k \in 1..Len(toStm') : Genuine(toStm[k])'
      <4>1. \A k \in 1..Len(toStm') : Genuine(toStm'[k])
        BY <1>1, <3>2, PutFrames DEF GenuineInv
      <4>2. QED
        BY <1>1, <1>2, <4>1 DEF Genuine
    <3>3. QED
      BY <1>2, <3>1, <3>2
  <2>4. QED
    BY <1>2, <2>1, <2>2, <2>3 DEF GenuineInv
<1>3. CASE ReceiveHello
  <2>1. /\ esp'.reply = HelloAck(Head(toEsp).id, Session) /\ esp'.outgoing = esp.outgoing
        /\ esp'.cacheCode = esp.cacheCode /\ esp'.cacheId = esp.cacheId
        /\ UNCHANGED <<toStm, history>>
    BY <1>1, <1>3 DEF ReceiveHello, EspType
  <2>2. Genuine(esp.reply)'
    BY <2>1, OtherFrames DEF Genuine
  <2>3. QED
    BY <1>1, <1>2, <2>1, <2>2 DEF GenuineInv, CacheGenuine
<1>4. CASE ReceiveLoadSet
  <2> DEFINE id == Head(toEsp).id
  <2>a. id \in Nat /\ id <= job.requestId
    <3>1. /\ toEsp # <<>> /\ 1 \in 1..Len(toEsp) /\ Head(toEsp) = toEsp[1]
          /\ IsLoadSet(toEsp[1])
      BY <1>1, <1>4, TailFrames DEF ReceiveLoadSet, IsLoadSet
    <3>2. QED
      BY <1>1, <3>1, EspFrameFacts DEF OnceInv, LineInv, Ids
  <2>1. /\ esp'.outgoing = esp.outgoing /\ UNCHANGED <<toStm, history>>
        /\ \/ /\ esp.cacheId = id /\ esp'.reply = Result(id, esp.cacheCode)
              /\ esp'.cacheCode = esp.cacheCode /\ esp'.cacheId = esp.cacheId
           \/ /\ esp'.reply \in {Accepted(id), Result(id, "busy")}
              /\ esp'.cacheCode = esp.cacheCode /\ esp'.cacheId = esp.cacheId
           \/ esp'.reply = Result(id, "bad_settings") /\ esp'.cacheCode = "bad_settings"
    <3>1. UNCHANGED <<toStm, history>>
      BY <1>4 DEF ReceiveLoadSet
    <3>2. QED
      BY <1>1, <1>4, <3>1 DEF ReceiveLoadSet, EspType, Answered
  <2> HIDE DEF id
  <2>2. Genuine(esp.reply)'
    BY <1>1, <2>a, <2>1, OtherFrames DEF Genuine, GenuineInv, CacheGenuine
  <2>3. CacheGenuine'
    BY <1>1, <2>1 DEF GenuineInv, CacheGenuine
  <2>4. QED
    BY <1>2, <2>1, <2>2, <2>3
<1>5. CASE SendReply
  <2>1. /\ esp'.reply = NoReply /\ esp'.outgoing = esp.outgoing
        /\ esp'.cacheCode = esp.cacheCode /\ esp'.cacheId = esp.cacheId
        /\ UNCHANGED history /\ esp.reply \in StmFrames /\ toStm' \in Put(toStm, esp.reply)
    BY <1>1, <1>5, StmFrameFacts DEF SendReply, EspType
  <2>2. QED
    BY <1>1, <1>2, <2>1 DEF GenuineInv, CacheGenuine
<1>6. CASE ManagerCheck \/ ManagerStart
  <2>1. /\ esp'.reply = esp.reply /\ esp'.outgoing = esp.outgoing
        /\ esp'.cacheCode = esp.cacheCode /\ esp'.cacheId = esp.cacheId
        /\ history'.finishedOk = history.finishedOk /\ UNCHANGED toStm
    BY <1>1, <1>6 DEF ManagerCheck, ManagerStart, EspType, HistoryType
  <2>2. QED
    BY <1>1, <1>2, <2>1 DEF GenuineInv, CacheGenuine
<1>7. CASE ManagerAnnounce \/ UploadBegin \/ UploadEnd
  <2>1. /\ esp'.reply = esp.reply /\ esp'.outgoing = esp.outgoing
        /\ esp'.cacheCode = esp.cacheCode /\ esp'.cacheId = esp.cacheId
        /\ history'.finishedOk = history.finishedOk
    BY <1>1, <1>7 DEF ManagerAnnounce, UploadBegin, UploadEnd, EspType, HistoryType
  <2>2. \E f \in {Ready(Session), OtaState(TRUE), OtaState(FALSE)} : toStm' \in Put(toStm, f)
    BY <1>7 DEF ManagerAnnounce, UploadBegin, UploadEnd
  <2>3. \A f \in {Ready(Session), OtaState(TRUE), OtaState(FALSE)} :
            f \in StmFrames /\ Genuine(f)
    <3>1. Session \in Sessions
      BY <1>1 DEF Session, HistoryType
    <3>2. /\ Ready(Session) \in StmFrames
          /\ OtaState(TRUE) \in StmFrames /\ OtaState(FALSE) \in StmFrames
      BY <3>1, StmFrameFacts
    <3>3. /\ Ready(Session).type = "READY"
          /\ OtaState(TRUE).type = "OTA_STATE" /\ OtaState(FALSE).type = "OTA_STATE"
      BY OtherFrames
    <3>4. QED
      BY <3>2, <3>3 DEF Genuine
  <2>4. CacheGenuine'
    BY <1>1, <2>1 DEF GenuineInv, CacheGenuine
  <2>5. QED
    BY <1>2, <2>1, <2>2, <2>3, <2>4
<1>8. CASE \E code \in {"ok", "fail"}, restart \in BOOLEAN : ManagerFinish(code, restart)
  <2>1. PICK code \in {"ok", "fail"}, restart \in BOOLEAN : ManagerFinish(code, restart)
    BY <1>8
  <2>2. /\ esp'.reply = esp.reply /\ esp'.outgoing = Result(esp.requestId, code)
        /\ esp'.cacheCode = code /\ esp'.cacheId = esp.requestId /\ UNCHANGED toStm
        /\ history'.finishedOk = IF code = "ok" THEN history.finishedOk \cup {esp.requestId}
                                 ELSE history.finishedOk
    BY <1>1, <2>1 DEF ManagerFinish, EspType, HistoryType
  <2>3. esp.requestId <= job.requestId
    BY DEF OnceInv, CounterInv
  <2>4. Genuine(esp.outgoing)' /\ CacheGenuine'
    BY <1>1, <2>2, <2>3, OtherFrames DEF Genuine, CacheGenuine
  <2>5. QED
    BY <1>2, <2>2, <2>4
<1>9. CASE ManagerSend
  <2>1. /\ esp'.reply = esp.reply /\ esp'.outgoing = NoReply
        /\ esp'.cacheCode = esp.cacheCode /\ esp'.cacheId = esp.cacheId
        /\ UNCHANGED history /\ toStm' \in Put(toStm, esp.outgoing)
    BY <1>1, <1>9 DEF ManagerSend, EspType
  <2>2. esp.outgoing \in StmFrames
    BY <1>1, <1>9, StmFrameFacts DEF ManagerSend, EspIds, TypeInv, EspType
  <2>3. CacheGenuine'
    BY <1>1, <2>1 DEF GenuineInv, CacheGenuine
  <2>4. QED
    BY <1>2, <2>1, <2>2, <2>3 DEF GenuineInv
<1>10. CASE EspRestart
  <2>1. /\ esp'.reply = NoReply /\ esp'.outgoing = NoReply /\ esp'.cacheCode = NoResult
        /\ history'.finishedOk = history.finishedOk /\ UNCHANGED toStm
    BY <1>1, <1>10 DEF EspRestart, FreshEsp, HistoryType
  <2>2. CacheGenuine'
    BY <2>1 DEF CacheGenuine, NoResult
  <2>3. QED
    BY <1>2, <2>1, <2>2
<1>11. QED
  BY <1>3, <1>4, <1>5, <1>6, <1>7, <1>8, <1>9, <1>10 DEF EspStep

(* The success of a command that was sent is of the Bluetooth worker        *)
(* completing that very command since, whatever was lost, repeated, refused, *)
(* cached or replayed and whatever restarted in between, as long as the      *)
(* counter of identifiers has not wrapped.  (Before its first send a command *)
(* still has the identifier of the one before it, and can end on its result.)*)
THEOREM SuccessAlwaysGenuine ==
    ASSUME MaxAllocations <= MaxId PROVE Spec => []SuccessIsGenuine
<1>1. Init => GenuineInv
  BY DEF Init, GenuineInv, SuccessIsGenuine, CacheGenuine, Genuine, FreshEsp, NoReply, Frame,
     NoResult
<1>2. TypeInv /\ OnceInv /\ [Next]_vars => OnceInv'
  BY StepOnce
<1>3. TypeInv /\ BusyMatchesJob /\ OnceInv /\ GenuineInv /\ [Next]_vars => GenuineInv'
  <2>1. GenuineInv /\ UNCHANGED vars => GenuineInv'
    BY DEF GenuineInv, SuccessIsGenuine, CacheGenuine, Genuine, vars, stmVars
  <2>2. QED
    BY <2>1, LoopGenuine, EspGenuine DEF Next, OnceInv
<1>4. GenuineInv => SuccessIsGenuine
  BY DEF GenuineInv
<1>5. QED
  BY <1>1, <1>2, <1>3, <1>4, InitOnce, InitTypes, StepTypes, BusyFollowsJob, PTL DEF Spec

=============================================================================
