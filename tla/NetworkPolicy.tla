---------------------------- MODULE NetworkPolicy ----------------------------
(***************************************************************************)
(* The choice of a LoRaWAN network profile: the class NetworkPolicy of      *)
(* src/stm32/network_policy.h and the way network_manager.cpp may call it. *)
(* A profile is its rank, its place in networkOrder.  Times are relative:   *)
(* what is left of a wait, and how long ago something was, up to the        *)
(* longest time anything asks for.                                         *)
(***************************************************************************)
EXTENDS Naturals, FiniteSets

CONSTANTS
    Count,          \* MAX_NETWORKS; also the rank of no profile, 255 in the code
    Usable,         \* ranks that are enabled and have a key
    Public,         \* ranks of the kind that budgets its joins, TTN Sandbox
    Preempt,        \* preemptMinutes of each rank, in ticks
    RetryWait,      \* 60 s, in ticks
    PrivateRetry,   \* 300 s
    JoinWait,       \* 120 s
    Cooldown,       \* 3600 s
    Day,            \* 86400 s
    Budget,         \* joins of a public profile in a day, 6
    MaxManual       \* bound: joins asked for by hand

Ranks == 0..Count - 1
None == Count

ASSUME ProfilesAssumption ==
    /\ Count \in Nat \ {0} /\ Usable \subseteq Ranks /\ Public \subseteq Ranks
    /\ Preempt \in [Ranks -> Nat]

ASSUME TimesAssumption ==
    /\ RetryWait \in Nat \ {0} /\ PrivateRetry \in Nat /\ JoinWait \in Nat
    /\ Cooldown \in Nat \ {0} /\ Day \in Nat \ {0} /\ Budget \in Nat \ {0}
    /\ RetryWait <= Day /\ PrivateRetry <= Day /\ JoinWait <= Day /\ Cooldown <= Day
    /\ MaxManual \in Nat

VARIABLES
    policy,         \* the fields of the class
    manual,         \* manualJoinSlot, manualJoinSelected: a join asked for by hand
    recent          \* auxiliary: time since a join failed, the automatic joins
                    \* of the last day, and the joins asked for by hand

policyVars == <<policy, manual, recent>>

-----------------------------------------------------------------------------
(* first: the next profile that may be used.  [mutant: the next of all]     *)
NextOfAll(from) == IF from < Count THEN from ELSE None
First(from) ==
    IF \E r \in Usable : r >= from
    THEN CHOOSE r \in Usable : r >= from /\ \A q \in Usable : q >= from => r <= q
    ELSE None

Preferred == First(0)

(* A budget that never started is like one that has run out, and a profile  *)
(* that was never tried like one that was tried long ago.                  *)
NewAccount == [joins |-> 0, age |-> Day, since |-> Cooldown]

Blank ==
    [rank |-> None, state |-> "DISABLED", wait |-> 0, residence |-> 0,
     probing |-> FALSE, returnRank |-> 0, returnHealthy |-> FALSE,
     failures |-> 0, account |-> [r \in Public |-> NewAccount]]

(* select                                                                  *)
Selected(p, from) ==
    IF First(from) = None
    THEN [p EXCEPT !.rank = None, !.state = "DISABLED"]
    ELSE [p EXCEPT !.rank = First(from), !.state = "WAITING", !.wait = 0,
                   !.failures = 0, !.residence = 0]

Waiting(p, time) == [p EXCEPT !.state = "WAITING", !.wait = time]

(* begin                                                                   *)
Begun == Selected(Blank, 0)

(* tick: a backup has had its time.  [mutant: not while it works]           *)
PreemptUnhealthy(p) ==
    /\ p.rank # None /\ p.state \notin {"FAULT", "ONLINE"}
    /\ ~p.probing /\ p.rank # Preferred
    /\ p.residence >= Preempt[p.rank]
PreemptDue(p) ==
    /\ p.rank # None /\ p.state # "FAULT"
    /\ ~p.probing /\ p.rank # Preferred
    /\ p.residence >= Preempt[p.rank]

Preempted(p) ==
    Selected([p EXCEPT !.probing = TRUE, !.returnRank = p.rank,
                       !.returnHealthy = (p.state = "ONLINE")], Preferred)

(* Where a round of probes ends that found nothing: at the backup that      *)
(* worked before, or else at the next one.  [mutant: always the former]    *)
SameBackup(p) == p.returnRank
Resume(p) ==
    IF p.returnHealthy THEN p.returnRank
    ELSE IF First(p.returnRank + 1) # None THEN First(p.returnRank + 1)
    ELSE IF First(Preferred + 1) # None THEN First(Preferred + 1)
    ELSE Preferred

(* failed                                                                  *)
Failed(p) ==
    LET next == First(p.rank + 1)
    IN  IF p.probing
        THEN IF next < p.returnRank
             THEN Waiting(Selected(p, next), RetryWait)
             ELSE Waiting(Selected([p EXCEPT !.probing = FALSE], Resume(p)), RetryWait)
        ELSE IF p.rank = Preferred /\ next # None
        THEN Waiting(Selected(p, next), RetryWait)
        ELSE Waiting(p, IF p.rank \in Public THEN Cooldown ELSE PrivateRetry)

-----------------------------------------------------------------------------
(* ready and started: the accounts of public profiles.                     *)

Emptied(a) == [a EXCEPT !.joins = 0, !.age = 0]

Renewed(p) ==
    IF p.rank \in Public /\ p.account[p.rank].age >= Day
    THEN [p EXCEPT !.account[p.rank] = Emptied(@)]
    ELSE p

(* [mutant: one join too many]                                             *)
OverBudget(p) == p.rank \in Public /\ p.account[p.rank].joins > Budget
Exhausted(p) == p.rank \in Public /\ p.account[p.rank].joins >= Budget

Cooling(p) == p.rank \in Public /\ p.account[p.rank].since < Cooldown

Candidate(p) ==
    p.rank # None /\ p.state \in {"WAITING", "BUDGET_WAIT"} /\ p.wait = 0

IsReady(p) == Candidate(p) /\ ~Exhausted(Renewed(p)) /\ ~Cooling(p)

(* What ready() leaves behind.                                             *)
Considered(p) ==
    LET q == Renewed(p)
    IN  IF ~Candidate(p) THEN p
        ELSE IF Exhausted(q)
        THEN [q EXCEPT !.state = "BUDGET_WAIT", !.wait = Day - q.account[q.rank].age]
        ELSE IF Cooling(q)
        THEN [q EXCEPT !.state = "BUDGET_WAIT",
                       !.wait = Cooldown - q.account[q.rank].since]
        ELSE [q EXCEPT !.state = "WAITING"]

(* joinsToday is only compared with the budget: it is counted up to it.     *)
Counted(a) ==
    [a EXCEPT !.since = 0,
              !.joins = IF a.joins < Budget THEN a.joins + 1 ELSE a.joins]

Started(p) ==
    LET q == [Renewed(p) EXCEPT !.state = "JOINING", !.wait = JoinWait]
    IN  IF p.rank \notin Public THEN q
        ELSE [q EXCEPT !.account[p.rank] = Counted(@)]

Deferred(p) == Waiting(p, RetryWait)

Joined(p) == [p EXCEPT !.state = "ONLINE", !.failures = 0, !.probing = FALSE]

(* networkTick gives up waiting for the budget of a profile it only probes, *)
(* or that has a backup.                                                   *)
Skippable(p) ==
    /\ p.state = "BUDGET_WAIT"
    /\ p.probing \/ (p.rank = Preferred /\ First(p.rank + 1) # None)

(* Time passes.                                                            *)
Toward(time, limit) == IF time < limit THEN time + 1 ELSE time

Older(a) == [a EXCEPT !.age = Toward(a.age, Day), !.since = Toward(a.since, Cooldown)]

Aged(p) ==
    [p EXCEPT
        !.wait = IF @ > 0 THEN @ - 1 ELSE 0,
        !.residence = IF p.rank = None THEN @ ELSE Toward(@, Preempt[p.rank]),
        !.account = [r \in Public |-> Older(p.account[r])]]

-----------------------------------------------------------------------------
(* The auxiliary record.  The joins of a profile are counted by their age.  *)

Ages == 0..Day - 1

NoRecent ==
    [failure |-> RetryWait, joins |-> [r \in Public |-> [a \in Ages |-> 0]],
     asked |-> 0]

NotAsked == [rank |-> None, selected |-> FALSE]

Grown(joins) == [a \in Ages |-> IF a = 0 THEN 0 ELSE joins[a - 1]]

NoteTime == recent' = [recent EXCEPT !.failure = Toward(@, RetryWait),
                           !.joins = [r \in Public |-> Grown(@[r])]]
NoteFailure == recent' = [recent EXCEPT !.failure = 0]
NoteJoin ==
    recent' = IF policy.rank \notin Public THEN recent
              ELSE [recent EXCEPT !.joins[policy.rank][0] = @ + 1]

-----------------------------------------------------------------------------
(* One action per use the manager makes of the policy.  While a join is     *)
(* asked for by hand the automatic ones wait.                              *)

PolicyInit == policy = Begun /\ manual = NotAsked /\ recent = NoRecent

Pass == policy' = Aged(policy) /\ NoteTime /\ UNCHANGED manual

Automatic == manual.rank = None /\ policy.state # "JOINING"

Tick ==
    /\ Automatic /\ PreemptDue(policy)
    /\ policy' = Preempted(policy)
    /\ UNCHANGED <<manual, recent>>

Consider ==
    /\ Automatic /\ ~PreemptDue(policy)
    /\ policy' = Considered(policy)
    /\ UNCHANGED <<manual, recent>>

Skip ==
    /\ Automatic /\ Skippable(policy)
    /\ policy' = Failed(policy)
    /\ UNCHANGED <<manual, recent>>

(* An automatic join starts, or is put off because the radio refused it, in *)
(* the pass in which the policy is ready.                                  *)
Turn == Automatic /\ IsReady(policy) /\ ~PreemptDue(policy)

Start ==
    /\ Turn
    /\ policy' = Started(policy)
    /\ NoteJoin
    /\ UNCHANGED manual

Defer ==
    /\ Turn
    /\ policy' = Deferred(policy)
    /\ UNCHANGED <<manual, recent>>

(* networkJoinNow: asking again for the same profile changes nothing.       *)
Ask ==
    /\ policy.state # "FAULT" /\ recent.asked < MaxManual
    /\ \E r \in Usable :
           manual' = IF manual.rank = r THEN manual
                     ELSE [rank |-> r, selected |-> FALSE]
    /\ recent' = [recent EXCEPT !.asked = @ + 1]
    /\ UNCHANGED policy

(* The profile asked for is selected, which ends a round of probes.         *)
(* [mutant: it does not]                                                   *)
StillProbing(p, r) == Selected(p, r)
ByHand(p, r) == Selected([p EXCEPT !.probing = FALSE], r)

SelectByHand ==
    /\ manual.rank # None /\ ~manual.selected /\ policy.state \notin {"JOINING", "FAULT"}
    /\ policy' = ByHand(policy, manual.rank)
    /\ manual' = [manual EXCEPT !.selected = TRUE]
    /\ UNCHANGED recent

(* It waits for no account, and is not repeated.                           *)
StartByHand ==
    /\ manual.selected /\ policy.state \notin {"JOINING", "FAULT"}
    /\ policy' = Started(policy)
    /\ manual' = NotAsked
    /\ UNCHANGED recent

(* The radio refuses it; if it is busy the request stays.                   *)
DeferByHand ==
    /\ manual.rank # None /\ policy.state \notin {"JOINING", "FAULT"}
    /\ policy' = Deferred(policy)
    /\ manual' \in {manual, NotAsked}
    /\ UNCHANGED recent

JoinSucceeds ==
    /\ policy.state = "JOINING"
    /\ policy' = Joined(policy)
    /\ UNCHANGED <<manual, recent>>

JoinFails ==
    /\ policy.state = "JOINING"
    /\ policy' = Failed(policy)
    /\ NoteFailure
    /\ UNCHANGED manual

(* The session is lost, or the second check in a row was missed.           *)
Lose ==
    /\ policy.state = "ONLINE"
    /\ \E missed \in {policy.failures} \cup (IF policy.failures > 0 THEN {2} ELSE {}) :
           policy' = Failed([policy EXCEPT !.failures = missed])
    /\ UNCHANGED <<manual, recent>>

(* A check is answered, or is the first to be missed.                      *)
Check ==
    /\ policy.state = "ONLINE"
    /\ policy' \in {[policy EXCEPT !.failures = missed] :
                       missed \in IF policy.failures = 0 THEN {0, 1} ELSE {0}}
    /\ UNCHANGED <<manual, recent>>

(* The counters of a profile are used up, or cannot be kept.                *)
Fault ==
    /\ policy.state \in {"WAITING", "JOINING"}
    /\ policy' = [policy EXCEPT !.state = "FAULT"]
    /\ manual' \in {manual, NotAsked}
    /\ UNCHANGED recent

(* Nothing asked for by hand outlives a fault.                             *)
Drop ==
    /\ policy.state = "FAULT"
    /\ manual' = NotAsked
    /\ UNCHANGED <<policy, recent>>

Reboot ==
    /\ policy' = Begun /\ manual' = NotAsked
    /\ recent' = [NoRecent EXCEPT !.asked = recent.asked]

PolicyStep ==
    \/ Tick \/ Consider \/ Skip \/ Start \/ Defer
    \/ Ask \/ SelectByHand \/ StartByHand \/ DeferByHand
    \/ JoinSucceeds \/ JoinFails \/ Lose \/ Check \/ Fault \/ Drop

PolicyNext == Pass \/ PolicyStep \/ Reboot

PolicySpec == PolicyInit /\ [][PolicyNext]_policyVars

(* networkTick runs many times in a tick: what is due is done before time   *)
(* goes on, a join ends, the radio does not refuse a profile for ever, and  *)
(* the board stays on.                                                     *)
Due ==
    /\ Automatic /\ policy.state \in {"WAITING", "BUDGET_WAIT"}
    /\ PreemptDue(policy) \/ Candidate(policy) \/ Skippable(policy)

StartOf(r) == policy.rank = r /\ Start

PromptNext == (~Due /\ Pass) \/ PolicyStep

Fairness ==
    /\ WF_policyVars(Pass)
    /\ \A r \in Usable : SF_policyVars(StartOf(r))
    /\ WF_policyVars(SelectByHand) /\ SF_policyVars(StartByHand)
    /\ WF_policyVars(Tick) /\ WF_policyVars(Skip)
    /\ WF_policyVars(Consider) /\ WF_policyVars(JoinSucceeds \/ JoinFails)

PromptSpec == PolicyInit /\ [][PromptNext]_policyVars /\ Fairness

-----------------------------------------------------------------------------
(* Properties.                                                             *)

AccountType == [joins : 0..Budget, age : 0..Day, since : 0..Cooldown]

PolicyType ==
    [rank : Usable \cup {None},
     state : {"DISABLED", "WAITING", "JOINING", "ONLINE", "BUDGET_WAIT", "FAULT"},
     wait : 0..Day, residence : Nat, probing : BOOLEAN, returnRank : Ranks,
     returnHealthy : BOOLEAN, failures : 0..2,
     account : [Public -> AccountType]]

ManualType == [rank : Usable \cup {None}, selected : BOOLEAN]

RecentType ==
    [failure : 0..RetryWait, joins : [Public -> [Ages -> Nat]], asked : 0..MaxManual]

(* Every variable has its type.                                            *)
PolicyTypeOK ==
    /\ policy \in PolicyType
    /\ manual \in ManualType
    /\ recent \in RecentType

(* A round of probes only visits profiles that come before the backup it    *)
(* will return to, whatever is asked for by hand in between.               *)
ProbesAreHigher == policy.probing => policy.rank < policy.returnRank

(* The joins of a profile one by one: the age of each, and its number.      *)
EachJoin(joins) == UNION {{a} \X (1..joins[a]) : a \in Ages}

(* The budget of a public profile is counted in days that begin with a     *)
(* turn, not with a join.  In any 24 hours it still lets through no more    *)
(* than two budgets.                                                       *)
DailyJoins == \A r \in Public : Cardinality(EachJoin(recent.joins[r])) <= 2 * Budget

(* While no join succeeds every profile gets its turn again and again:     *)
(* fallback, preemption, probes and budgets leave none unreachable         *)
(* (docs/NETWORKS.md: "Zo blijven ook profiel 3 en 4 bereikbaar").         *)
EveryProfileTried ==
    \A r \in Usable :
        []<><<StartOf(r)>>_policyVars \/ []<>(policy.state \in {"ONLINE", "FAULT"})

(* The preferred profile is tried again and again while a backup works.    *)
PreferredRetried ==
    \/ []<><<StartOf(Preferred)>>_policyVars
    \/ []<>(policy.rank = Preferred /\ policy.state = "ONLINE")
    \/ <>(policy.state \in {"FAULT", "DISABLED"})

(* docs/NETWORKS.md: "met minimaal 60 seconden tussen pogingen", at least   *)
(* 60 seconds between attempts to join.                                    *)
AttemptsSpaced == [][Start => recent.failure >= RetryWait]_policyVars

=============================================================================
