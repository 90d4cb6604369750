------------------------- MODULE NetworkPolicyProofs -------------------------
(***************************************************************************)
(* Proofs about NetworkPolicy, for every number of profiles, every choice   *)
(* of usable and public ones, and all times.                               *)
(***************************************************************************)
EXTENDS NetworkPolicy, FiniteSetTheorems, WellFoundedInduction, TLAPS

-----------------------------------------------------------------------------
(* The order of the profiles.                                              *)

(* A nonempty set of numbers has a least one.                              *)
LEMMA Minimum ==
    ASSUME NEW S, S \subseteq Nat, S # {}
    PROVE  \E m \in S : \A k \in S : m <= k
<1> DEFINE R == {ss \in Nat \X Nat : ss[1] < ss[2]}
<1>1. IsWellFoundedOn(R, Nat)
  BY NatLessThanWellFounded DEF OpToRel
<1> HIDE DEF R
<1>2. PICK m \in S : \A k \in S : ~(<<k, m>> \in R)
  BY <1>1, WFMin
<1>3. \A k \in Nat, j \in Nat : k < j => <<k, j>> \in R
  BY DEF R
<1>4. \A k \in S : ~(k < m)
  BY <1>2, <1>3
<1>5. QED
  BY <1>4

(* Usable profiles have ranks, and no profile has none.                     *)
LEMMA RankFacts ==
    /\ Count \in Nat \ {0} /\ None = Count /\ 0 \in Ranks
    /\ Usable \subseteq Ranks /\ Ranks \subseteq Nat /\ None \notin Usable
    /\ \A r \in Ranks : r < None
BY ProfilesAssumption DEF Ranks, None

LEMMA UsableFacts ==
    ASSUME NEW r \in Usable
    PROVE  r \in Ranks /\ r \in Nat /\ r + 1 \in Nat /\ r # None /\ r < None
BY RankFacts

(* first(from) is the next usable profile, if there is one.                 *)
LEMMA FirstFacts ==
    ASSUME NEW from \in Nat
    PROVE  /\ First(from) \in Usable \cup {None}
           /\ First(from) \in Usable =>
                  First(from) >= from /\ \A q \in Usable : q >= from => First(from) <= q
           /\ First(from) = None => \A q \in Usable : q < from
<1>1. CASE \E r \in Usable : r >= from
  <2> DEFINE Later == {q \in Usable : q >= from}
  <2>1. Later \subseteq Nat /\ Later # {}
    BY <1>1, RankFacts
  <2>2. \E m \in Later : \A k \in Later : m <= k
    BY <2>1, Minimum
  <2>3. \E r \in Usable : r >= from /\ \A q \in Usable : q >= from => r <= q
    BY <2>2
  <2>4. /\ First(from) \in Usable /\ First(from) >= from
        /\ \A q \in Usable : q >= from => First(from) <= q
    BY <1>1, <2>3 DEF First
  <2>5. QED
    BY <2>4, RankFacts
<1>2. CASE ~ \E r \in Usable : r >= from
  <2>1. First(from) = None
    BY <1>2 DEF First
  <2>2. QED
    BY <1>2, <2>1, RankFacts, SMT
<1>3. QED
  BY <1>1, <1>2

(* first of a usable profile is that profile.                              *)
LEMMA FirstOfUsable ==
    ASSUME NEW r \in Usable
    PROVE  First(r) = r
<1>1. r \in Nat /\ r >= r /\ ~(r < r)
  BY RankFacts
<1>2. First(r) # None
  BY <1>1, FirstFacts
<1>3. First(r) \in Usable /\ First(r) >= r /\ First(r) <= r
  BY <1>1, <1>2, FirstFacts
<1>4. First(r) \in Nat
  BY <1>3, RankFacts
<1>5. QED
  BY <1>1, <1>3, <1>4

(* There is a preferred profile if there is any, and it comes first.        *)
LEMMA PreferredFacts ==
    /\ Usable # {} => Preferred \in Usable
    /\ Usable = {} => Preferred = None
    /\ \A r \in Usable : Preferred <= r
<1>1. First(0) \in Usable \cup {None}
  BY FirstFacts
<1>2. First(0) \in Usable => \A q \in Usable : q >= 0 => First(0) <= q
  BY FirstFacts
<1>3. First(0) = None => \A q \in Usable : q < 0
  BY FirstFacts
<1>4. \A q \in Usable : q \in Nat /\ q >= 0 /\ ~(q < 0)
  BY RankFacts
<1>5. QED
  BY <1>1, <1>2, <1>3, <1>4, RankFacts DEF Preferred

-----------------------------------------------------------------------------
(* The inductive invariant: a round of probes has a backup to return to,    *)
(* below the profile it probes; and there is a profile if one is usable.    *)

PolicyOK(p) ==
    /\ p \in PolicyType
    /\ p.rank = None => Usable = {} /\ p.state = "DISABLED"
    /\ p.probing => p.returnRank \in Usable /\ p.rank < p.returnRank

PolicyInv ==
    /\ PolicyOK(policy)
    /\ manual \in ManualType
    /\ manual.selected => manual.rank # None
    /\ recent \in RecentType

(* The times, as numbers.                                                  *)
LEMMA TimeFacts ==
    /\ RetryWait \in 0..Day /\ PrivateRetry \in 0..Day /\ JoinWait \in 0..Day
    /\ Cooldown \in 0..Day /\ Day \in 0..Day /\ 0 \in 0..Day
    /\ Day \in Nat \ {0} /\ Cooldown \in Nat \ {0} /\ Budget \in Nat \ {0}
    /\ RetryWait \in Nat \ {0} /\ MaxManual \in Nat
BY TimesAssumption

(* What select leaves of a policy.                                         *)
LEMMA SelectedFacts ==
    ASSUME NEW p \in PolicyType, NEW from \in Nat
    PROVE  /\ Selected(p, from) \in PolicyType
           /\ Selected(p, from).rank = First(from)
           /\ Selected(p, from).state =
                  IF First(from) = None THEN "DISABLED" ELSE "WAITING"
           /\ Selected(p, from).probing = p.probing
           /\ Selected(p, from).returnRank = p.returnRank
           /\ Selected(p, from).account = p.account
<1>1. First(from) \in Usable \cup {None}
  BY FirstFacts
<1>2. CASE First(from) = None
  <2>1. Selected(p, from) = [p EXCEPT !.rank = None, !.state = "DISABLED"]
    BY <1>2 DEF Selected
  <2>2. QED
    BY <1>2, <2>1 DEF PolicyType
<1>3. CASE First(from) # None
  <2>1. Selected(p, from) = [p EXCEPT !.rank = First(from), !.state = "WAITING",
                                      !.wait = 0, !.failures = 0, !.residence = 0]
    BY <1>3 DEF Selected
  <2>2. 0 \in 0..2 /\ 0 \in 0..Day /\ 0 \in Nat
    BY TimeFacts
  <2>3. QED
    BY <1>1, <1>3, <2>1, <2>2 DEF PolicyType
<1>4. QED
  BY <1>2, <1>3

(* What a wait leaves of it.                                               *)
LEMMA WaitingFacts ==
    ASSUME NEW p \in PolicyType, NEW time \in 0..Day
    PROVE  /\ Waiting(p, time) \in PolicyType
           /\ Waiting(p, time).state = "WAITING"
           /\ Waiting(p, time).rank = p.rank
           /\ Waiting(p, time).probing = p.probing
           /\ Waiting(p, time).returnRank = p.returnRank
BY DEF Waiting, PolicyType

(* begin                                                                   *)
LEMMA BegunOK == PolicyOK(Begun) /\ ~Begun.probing /\ Begun.state # "JOINING"
<1>1. Blank \in PolicyType /\ Blank.probing = FALSE
  BY RankFacts, TimeFacts DEF Blank, PolicyType, AccountType, NewAccount
<1>2. Begun.rank = None => Usable = {} /\ Begun.state = "DISABLED"
  BY <1>1, SelectedFacts, FirstFacts, PreferredFacts, RankFacts DEF Begun, Preferred
<1>3. QED
  BY <1>1, <1>2, SelectedFacts DEF Begun, PolicyOK

(* deferred                                                                *)
LEMMA DeferredOK ==
    ASSUME NEW p, PolicyOK(p), p.rank # None
    PROVE  /\ PolicyOK(Deferred(p)) /\ Deferred(p).state = "WAITING"
           /\ Deferred(p).rank = p.rank
BY WaitingFacts, TimeFacts DEF Deferred, PolicyOK

(* tick                                                                    *)
LEMMA PreemptedOK ==
    ASSUME NEW p, PolicyOK(p), PreemptDue(p)
    PROVE  /\ PolicyOK(Preempted(p)) /\ Preempted(p).state = "WAITING"
           /\ ~PreemptDue(Preempted(p))
<1>1. p \in PolicyType /\ p.rank \in Usable /\ p.rank # Preferred
  BY DEF PolicyOK, PolicyType, PreemptDue
<1>2. Preferred \in Usable /\ Preferred < p.rank /\ Preferred \in Nat
  <2>1. Preferred \in Usable /\ Preferred <= p.rank
    BY <1>1, PreferredFacts
  <2>2. Preferred \in Nat /\ p.rank \in Nat
    BY <1>1, <2>1, RankFacts
  <2>3. QED
    BY <1>1, <2>1, <2>2
<1> DEFINE q == [p EXCEPT !.probing = TRUE, !.returnRank = p.rank,
                          !.returnHealthy = (p.state = "ONLINE")]
<1>3. q \in PolicyType /\ q.probing /\ q.returnRank = p.rank
  BY <1>1, RankFacts DEF PolicyType
<1>4. First(Preferred) = Preferred
  BY <1>2, FirstOfUsable
<1>5. Preempted(p) = Selected(q, Preferred)
  BY DEF Preempted
<1> HIDE DEF q
<1>6. QED
  BY <1>1, <1>2, <1>3, <1>4, <1>5, SelectedFacts, RankFacts DEF PolicyOK, PreemptDue

(* A profile chosen by hand.                                               *)
LEMMA ByHandOK ==
    ASSUME NEW p, PolicyOK(p), NEW r \in Usable
    PROVE  /\ PolicyOK(ByHand(p, r)) /\ ByHand(p, r).state = "WAITING"
           /\ ByHand(p, r).rank = r
<1> DEFINE q == [p EXCEPT !.probing = FALSE]
<1>1. q \in PolicyType /\ ~q.probing
  BY DEF PolicyOK, PolicyType
<1>2. First(r) = r /\ r \in Nat /\ r # None
  BY FirstOfUsable, RankFacts
<1>3. ByHand(p, r) = Selected(q, r)
  BY DEF ByHand
<1> HIDE DEF q
<1>4. QED
  BY <1>1, <1>2, <1>3, SelectedFacts DEF PolicyOK

(* Where a round of probes ends is a usable profile.                        *)
LEMMA ResumeIsUsable ==
    ASSUME NEW p, PolicyOK(p), p.probing
    PROVE  Resume(p) \in Usable
<1>1. p.returnRank \in Usable /\ p.returnRank + 1 \in Nat
  BY UsableFacts DEF PolicyOK
<1>2. Preferred \in Usable /\ Preferred + 1 \in Nat
  BY <1>1, PreferredFacts, UsableFacts
<1>3. /\ First(p.returnRank + 1) \in Usable \cup {None}
      /\ First(Preferred + 1) \in Usable \cup {None}
  BY <1>1, <1>2, FirstFacts
<1>4. QED
  BY <1>1, <1>2, <1>3 DEF Resume

(* failed                                                                  *)
LEMMA FailedOK ==
    ASSUME NEW p, PolicyOK(p), p.rank # None
    PROVE  PolicyOK(Failed(p)) /\ Failed(p).state = "WAITING"
<1> DEFINE next == First(p.rank + 1)
           q == [p EXCEPT !.probing = FALSE]
<1>1. p \in PolicyType /\ p.rank \in Usable /\ p.rank + 1 \in Nat
  <2>1. p \in PolicyType /\ p.rank \in Usable
    BY DEF PolicyOK, PolicyType
  <2>2. QED
    BY <2>1, UsableFacts
<1>2. next \in Usable \cup {None}
  BY <1>1, FirstFacts
<1>3. q \in PolicyType /\ ~q.probing
  BY <1>1 DEF PolicyType
<1>4. ASSUME NEW s \in PolicyType, NEW r \in Usable, NEW t \in 0..Day
      PROVE  LET w == Waiting(Selected(s, r), t)
             IN  /\ w \in PolicyType /\ w.state = "WAITING" /\ w.rank = r
                 /\ w.probing = s.probing /\ w.returnRank = s.returnRank
  <2>1. First(r) = r /\ r \in Nat /\ r # None
    BY FirstOfUsable, RankFacts
  <2>2. QED
    BY <2>1, SelectedFacts, WaitingFacts
<1> HIDE DEF q, next
<1>5. CASE p.probing /\ next < p.returnRank
  <2>1. next \in Usable
    <3>1. p.returnRank < None /\ p.returnRank \in Nat
      BY <1>5, UsableFacts DEF PolicyOK
    <3>2. None \in Nat
      BY RankFacts
    <3>3. ~(None < p.returnRank)
      BY <3>1, <3>2
    <3>4. QED
      BY <1>2, <1>5, <3>3
  <2>2. Failed(p) = Waiting(Selected(p, next), RetryWait)
    BY <1>5 DEF Failed, next
  <2>3. QED
    BY <1>1, <1>4, <1>5, <2>1, <2>2, TimeFacts, RankFacts DEF PolicyOK
<1>6. CASE p.probing /\ ~(next < p.returnRank)
  <2>1. Failed(p) = Waiting(Selected(q, Resume(p)), RetryWait)
    BY <1>6 DEF Failed, next, q
  <2>2. Resume(p) \in Usable /\ Resume(p) # None
    BY <1>6, ResumeIsUsable, UsableFacts
  <2>3. QED
    BY <1>3, <1>4, <2>1, <2>2, TimeFacts DEF PolicyOK
<1>7. CASE ~p.probing /\ p.rank = Preferred /\ next # None
  <2>1. Failed(p) = Waiting(Selected(p, next), RetryWait)
    BY <1>7 DEF Failed, next
  <2>2. QED
    BY <1>1, <1>2, <1>4, <1>7, <2>1, TimeFacts, RankFacts DEF PolicyOK
<1>8. CASE ~p.probing /\ ~(p.rank = Preferred /\ next # None)
  <2>1. PICK t \in 0..Day : Failed(p) = Waiting(p, t)
    BY <1>8, TimeFacts DEF Failed, next
  <2>2. QED
    BY <1>1, <1>8, <2>1, WaitingFacts DEF PolicyOK
<1>9. QED
  BY <1>5, <1>6, <1>7, <1>8

(* A change of the account of a profile only.                               *)
Charged(p, r, a) == [p EXCEPT !.account[r] = a]

LEMMA ChargedFacts ==
    ASSUME NEW p \in PolicyType, NEW r \in Public, NEW a \in AccountType
    PROVE  LET q == Charged(p, r, a)
           IN  /\ q \in PolicyType
               /\ q.rank = p.rank /\ q.state = p.state /\ q.wait = p.wait
               /\ q.probing = p.probing /\ q.returnRank = p.returnRank
               /\ q.residence = p.residence /\ q.account[r] = a
               /\ \A o \in Public \ {r} : q.account[o] = p.account[o]
BY DEF PolicyType, Charged

(* Accounts stay accounts.                                                 *)
LEMMA AccountFacts ==
    ASSUME NEW a \in AccountType
    PROVE  /\ Emptied(a) \in AccountType /\ Emptied(a).age = 0
           /\ Emptied(a).since = a.since
           /\ Counted(a) \in AccountType /\ Older(a) \in AccountType
<1>1. a.joins \in 0..Budget /\ a.age \in 0..Day /\ a.since \in 0..Cooldown
  BY DEF AccountType
<1>2. /\ 0 \in 0..Budget /\ 0 \in 0..Day /\ 0 \in 0..Cooldown
      /\ (IF a.joins < Budget THEN a.joins + 1 ELSE a.joins) \in 0..Budget
      /\ Toward(a.age, Day) \in 0..Day /\ Toward(a.since, Cooldown) \in 0..Cooldown
  BY <1>1, TimeFacts DEF Toward
<1>3. Emptied(a) \in AccountType /\ Emptied(a).age = 0 /\ Emptied(a).since = a.since
  BY <1>2 DEF AccountType, Emptied
<1>4. Counted(a) \in AccountType
  BY <1>2 DEF AccountType, Counted
<1>5. Older(a) \in AccountType
  BY <1>2 DEF AccountType, Older
<1>6. QED
  BY <1>3, <1>4, <1>5

(* The renewal of a budget changes nothing but the budget.                  *)
LEMMA RenewedFacts ==
    ASSUME NEW p \in PolicyType
    PROVE  /\ Renewed(p) \in PolicyType
           /\ Renewed(p).rank = p.rank /\ Renewed(p).state = p.state
           /\ Renewed(p).wait = p.wait /\ Renewed(p).residence = p.residence
           /\ Renewed(p).probing = p.probing
           /\ Renewed(p).returnRank = p.returnRank
           /\ \A r \in Public : Renewed(p).account[r].since = p.account[r].since
           /\ p.rank \in Public => Renewed(p).account[p.rank].age < Day
<1>1. CASE p.rank \in Public /\ p.account[p.rank].age >= Day
  <2> DEFINE a == Emptied(p.account[p.rank])
             q == Charged(p, p.rank, a)
  <2>1. 0 \in 0..Budget /\ 0 \in 0..Day /\ 0 < Day
    BY TimeFacts
  <2>2. p.account[p.rank] \in AccountType
    BY <1>1 DEF PolicyType
  <2>3. a \in AccountType /\ a.age = 0 /\ a.since = p.account[p.rank].since
    BY <2>2, AccountFacts
  <2>4. Renewed(p) = q
    BY <1>1 DEF Renewed, Charged, PolicyType
  <2> HIDE DEF a
  <2>5. /\ q \in PolicyType
        /\ q.rank = p.rank /\ q.state = p.state /\ q.wait = p.wait
        /\ q.probing = p.probing /\ q.returnRank = p.returnRank
        /\ q.residence = p.residence /\ q.account[p.rank] = a
        /\ \A o \in Public \ {p.rank} : q.account[o] = p.account[o]
    BY <1>1, <2>3, ChargedFacts
  <2> HIDE DEF q
  <2>6. QED
    BY <2>1, <2>3, <2>4, <2>5
<1>2. CASE ~(p.rank \in Public /\ p.account[p.rank].age >= Day)
  <2>1. Renewed(p) = p
    BY <1>2 DEF Renewed
  <2>2. p.rank \in Public => p.account[p.rank].age \in 0..Day
    BY DEF PolicyType, AccountType
  <2>3. QED
    BY <1>2, <2>1, <2>2, TimeFacts
<1>3. QED
  BY <1>1, <1>2

(* A policy that differs in its state and wait only.                        *)
Restated(p, s, time) == [p EXCEPT !.state = s, !.wait = time]

LEMMA RestatedFacts ==
    ASSUME NEW p \in PolicyType, NEW s \in {"WAITING", "JOINING", "BUDGET_WAIT"},
           NEW time \in 0..Day
    PROVE  LET q == Restated(p, s, time)
           IN  /\ q \in PolicyType /\ q.state = s /\ q.wait = time
               /\ q.rank = p.rank /\ q.probing = p.probing
               /\ q.returnRank = p.returnRank /\ q.account = p.account
               /\ q.residence = p.residence
BY DEF PolicyType, Restated

(* ready keeps the invariant and the profile.                               *)
LEMMA ConsideredOK ==
    ASSUME NEW p, PolicyOK(p)
    PROVE  /\ PolicyOK(Considered(p)) /\ Considered(p).rank = p.rank
           /\ Considered(p).state \in {p.state, "WAITING", "BUDGET_WAIT"}
           /\ IsReady(p) => Considered(p).state = "WAITING"
<1> DEFINE q == Renewed(p)
<1>1. /\ q \in PolicyType
      /\ q.rank = p.rank /\ q.state = p.state /\ q.wait = p.wait
      /\ q.probing = p.probing /\ q.returnRank = p.returnRank
      /\ \A r \in Public : q.account[r].since = p.account[r].since
      /\ p.rank \in Public => q.account[p.rank].age < Day
  BY RenewedFacts DEF PolicyOK
<1>2. /\ Candidate(p) => p.rank # None /\ p.wait = 0
      /\ IsReady(p) => Candidate(p) /\ ~Exhausted(q) /\ ~Cooling(p)
      /\ Cooling(p) => Cooling(q)
  BY <1>1 DEF Candidate, IsReady, Cooling
<1> HIDE DEF q
<1>3. ASSUME NEW s \in {"WAITING", "BUDGET_WAIT"}, NEW time \in 0..Day,
             p.rank # None, Considered(p) = Restated(q, s, time)
      PROVE  /\ PolicyOK(Considered(p)) /\ Considered(p).rank = p.rank
             /\ Considered(p).state = s
  BY <1>1, <1>3, RestatedFacts DEF PolicyOK
<1>4. CASE ~Candidate(p)
  <2>1. Considered(p) = p
    BY <1>4 DEF Considered
  <2>2. QED
    BY <1>2, <1>4, <2>1
<1>5. CASE Candidate(p) /\ Exhausted(q)
  <2>1. q.account[q.rank].age \in 0..Day
    BY <1>1, <1>5 DEF Exhausted, PolicyType, AccountType
  <2>2. Day - q.account[q.rank].age \in 0..Day
    BY <2>1, TimeFacts
  <2>3. Considered(p) =
            Restated(q, "BUDGET_WAIT", Day - q.account[q.rank].age)
    BY <1>5 DEF Considered, Restated, q
  <2>4. QED
    BY <1>2, <1>3, <1>5, <2>2, <2>3
<1>6. CASE Candidate(p) /\ ~Exhausted(q) /\ Cooling(q)
  <2>1. q.account[q.rank].since \in 0..Cooldown
    BY <1>1, <1>6 DEF Cooling, PolicyType, AccountType
  <2>2. Cooldown - q.account[q.rank].since \in 0..Day
    BY <2>1, TimeFacts
  <2>3. Considered(p) =
            Restated(q, "BUDGET_WAIT", Cooldown - q.account[q.rank].since)
    BY <1>6 DEF Considered, Restated, q
  <2>4. Cooling(p)
    BY <1>1, <1>6 DEF Cooling
  <2>5. QED
    BY <1>2, <1>3, <1>6, <2>2, <2>3, <2>4
<1>7. CASE Candidate(p) /\ ~Exhausted(q) /\ ~Cooling(q)
  <2>1. Considered(p) = [q EXCEPT !.state = "WAITING"]
    BY <1>7 DEF Considered, q
  <2>2. Considered(p) = Restated(q, "WAITING", 0)
    BY <1>1, <1>2, <1>7, <2>1 DEF PolicyType, Restated
  <2>3. QED
    BY <1>2, <1>3, <1>7, <2>2, TimeFacts
<1>8. QED
  BY <1>4, <1>5, <1>6, <1>7

(* What ready has approved stays approved, and does not make a return due.  *)
LEMMA ReadyStays ==
    ASSUME NEW p, PolicyOK(p), IsReady(p)
    PROVE  /\ IsReady(Considered(p))
           /\ PreemptDue(Considered(p)) => PreemptDue(p)
<1> DEFINE q == Renewed(p)
           c == Restated(q, "WAITING", 0)
<1>1. /\ q \in PolicyType
      /\ q.rank = p.rank /\ q.state = p.state /\ q.wait = p.wait
      /\ q.residence = p.residence /\ q.probing = p.probing
      /\ \A r \in Public : q.account[r].since = p.account[r].since
      /\ p.rank \in Public => q.account[p.rank].age < Day
  BY RenewedFacts DEF PolicyOK
<1>2. Candidate(p) /\ ~Exhausted(q) /\ ~Cooling(p) /\ ~Cooling(q)
  BY <1>1 DEF IsReady, Cooling
<1>3. Considered(p) = c
  <2>1. Considered(p) = [q EXCEPT !.state = "WAITING"]
    BY <1>2 DEF Considered
  <2>2. q.wait = 0
    BY <1>1, <1>2 DEF Candidate
  <2> HIDE DEF q
  <2>3. QED
    BY <1>1, <2>1, <2>2 DEF Restated, PolicyType
<1> HIDE DEF q
<1>4. /\ c \in PolicyType /\ c.state = "WAITING" /\ c.wait = 0
      /\ c.rank = q.rank /\ c.probing = q.probing /\ c.account = q.account
      /\ c.residence = q.residence
  BY <1>1, TimeFacts, RestatedFacts
<1> HIDE DEF c
<1>5. Candidate(c)
  BY <1>1, <1>2, <1>4 DEF Candidate
<1>6. Renewed(c) = c
  <2>1. ASSUME c.rank \in Public PROVE ~(c.account[c.rank].age >= Day)
    <3>1. c.account[c.rank].age \in 0..Day
      BY <1>4, <2>1 DEF PolicyType, AccountType
    <3>2. c.account[c.rank].age < Day
      BY <1>1, <1>4, <2>1
    <3>3. QED
      BY <3>1, <3>2, TimeFacts
  <2>2. QED
    BY <2>1 DEF Renewed
<1>7. ~Exhausted(c) /\ ~Cooling(c)
  BY <1>2, <1>4 DEF Exhausted, Cooling
<1>8. PreemptDue(c) => PreemptDue(p)
  BY <1>1, <1>2, <1>4 DEF PreemptDue, Candidate
<1>9. QED
  BY <1>3, <1>5, <1>6, <1>7, <1>8 DEF IsReady

(* started                                                                 *)
LEMMA StartedOK ==
    ASSUME NEW p, PolicyOK(p), p.rank # None
    PROVE  /\ PolicyOK(Started(p)) /\ Started(p).state = "JOINING"
           /\ Started(p).rank = p.rank
<1> DEFINE n == Renewed(p)
           q == Restated(n, "JOINING", JoinWait)
<1>1. /\ n \in PolicyType /\ n.rank = p.rank
      /\ n.probing = p.probing /\ n.returnRank = p.returnRank
  BY RenewedFacts DEF PolicyOK
<1> HIDE DEF n
<1>2. /\ q \in PolicyType /\ q.state = "JOINING" /\ q.rank = p.rank
      /\ q.probing = p.probing /\ q.returnRank = p.returnRank
  BY <1>1, TimeFacts, RestatedFacts
<1>3. q = [Renewed(p) EXCEPT !.state = "JOINING", !.wait = JoinWait]
  BY DEF Restated, n
<1> HIDE DEF q
<1>4. CASE p.rank \notin Public
  <2>1. Started(p) = q
    BY <1>3, <1>4 DEF Started
  <2>2. QED
    BY <1>2, <2>1 DEF PolicyOK
<1>5. CASE p.rank \in Public
  <2> DEFINE a == Counted(q.account[p.rank])
  <2>1. q.account[p.rank] \in AccountType
    BY <1>2, <1>5 DEF PolicyType
  <2>2. a \in AccountType
    BY <2>1, AccountFacts
  <2>3. Started(p) = Charged(q, p.rank, a)
    BY <1>2, <1>3, <1>5 DEF Started, Charged, PolicyType
  <2> HIDE DEF a
  <2>4. LET c == Charged(q, p.rank, a)
        IN  /\ c \in PolicyType /\ c.state = q.state /\ c.rank = q.rank
            /\ c.probing = q.probing /\ c.returnRank = q.returnRank
    BY <1>2, <1>5, <2>2, ChargedFacts
  <2>5. QED
    BY <1>2, <2>3, <2>4 DEF PolicyOK
<1>6. QED
  BY <1>4, <1>5

(* joined                                                                  *)
LEMMA JoinedOK ==
    ASSUME NEW p, PolicyOK(p), p.rank # None
    PROVE  /\ PolicyOK(Joined(p)) /\ Joined(p).state = "ONLINE"
           /\ Joined(p).rank = p.rank
<1>1. p \in PolicyType /\ 0 \in 0..2
  BY DEF PolicyOK
<1>2. /\ Joined(p) \in PolicyType /\ Joined(p).state = "ONLINE"
      /\ Joined(p).rank = p.rank /\ ~Joined(p).probing
  BY <1>1 DEF PolicyType, Joined
<1>3. QED
  BY <1>2 DEF PolicyOK

(* Time changes neither the profile nor the state.                          *)
LEMMA AgedOK ==
    ASSUME NEW p, PolicyOK(p)
    PROVE  /\ PolicyOK(Aged(p)) /\ Aged(p).state = p.state
           /\ Aged(p).rank = p.rank
<1> DEFINE wait == IF p.wait > 0 THEN p.wait - 1 ELSE 0
           residence == IF p.rank = None THEN p.residence
                        ELSE Toward(p.residence, Preempt[p.rank])
           account == [r \in Public |-> Older(p.account[r])]
<1>1. p \in PolicyType
  BY DEF PolicyOK
<1>2. wait \in 0..Day
  <2>1. p.wait \in 0..Day
    BY <1>1 DEF PolicyType
  <2>2. QED
    BY <2>1, TimeFacts
<1>3. residence \in Nat
  <2>1. p.residence \in Nat /\ (p.rank # None => p.rank \in Ranks)
    BY <1>1, UsableFacts DEF PolicyType
  <2>2. p.rank # None => Preempt[p.rank] \in Nat
    BY <2>1, ProfilesAssumption
  <2>3. QED
    BY <2>1, <2>2 DEF Toward
<1>4. account \in [Public -> AccountType]
  <2>1. \A r \in Public : p.account[r] \in AccountType
    BY <1>1 DEF PolicyType
  <2>2. QED
    BY <2>1, AccountFacts
<1>5. Aged(p) = [p EXCEPT !.wait = wait, !.residence = residence, !.account = account]
  BY <1>1 DEF Aged, PolicyType
<1> HIDE DEF wait, residence, account
<1>6. QED
  BY <1>1, <1>2, <1>3, <1>4, <1>5 DEF PolicyOK, PolicyType

-----------------------------------------------------------------------------
(* The auxiliary record keeps its type.                                    *)

LEMMA RecentFacts ==
    /\ NoRecent \in RecentType /\ NotAsked \in ManualType /\ ~NotAsked.selected
    /\ NotAsked.rank = None
<1>1. RetryWait \in 0..RetryWait /\ 0 \in 0..MaxManual
  BY TimeFacts
<1>2. QED
  BY <1>1 DEF NoRecent, RecentType, NotAsked, ManualType

LEMMA NotesKeepType ==
    ASSUME recent \in RecentType
    PROVE  /\ NoteTime => recent' \in RecentType
           /\ NoteFailure => recent' \in RecentType
           /\ NoteJoin => recent' \in RecentType
<1>1. ASSUME NoteTime PROVE recent' \in RecentType
  <2>1. Toward(recent.failure, RetryWait) \in 0..RetryWait
    BY TimeFacts DEF RecentType, Toward
  <2>2. ASSUME NEW f \in [Ages -> Nat] PROVE Grown(f) \in [Ages -> Nat]
    <3>1. \A a \in Ages : a # 0 => a - 1 \in Ages
      BY TimeFacts DEF Ages
    <3>2. QED
      BY <2>2, <3>1 DEF Grown
  <2>3. [r \in Public |-> Grown(recent.joins[r])] \in [Public -> [Ages -> Nat]]
    BY <2>2 DEF RecentType
  <2>4. QED
    BY <1>1, <2>1, <2>3 DEF NoteTime, RecentType
<1>2. ASSUME NoteFailure PROVE recent' \in RecentType
  <2>1. 0 \in 0..RetryWait
    BY TimeFacts
  <2>2. QED
    BY <1>2, <2>1 DEF NoteFailure, RecentType
<1>3. ASSUME NoteJoin PROVE recent' \in RecentType
  <2>1. CASE policy.rank \notin Public
    BY <1>3, <2>1 DEF NoteJoin
  <2>2. CASE policy.rank \in Public
    <3>1. recent.joins[policy.rank] \in [Ages -> Nat] /\ 0 \in Ages
      BY <2>2, TimeFacts DEF RecentType, Ages
    <3>2. [recent.joins[policy.rank] EXCEPT ![0] = @ + 1] \in [Ages -> Nat]
      BY <3>1
    <3>3. QED
      BY <1>3, <2>2, <3>2 DEF NoteJoin, RecentType
  <2>3. QED
    BY <2>1, <2>2
<1>4. QED
  BY <1>1, <1>2, <1>3

(* Every use of the policy keeps the invariant.                             *)
LEMMA PolicyInvHolds ==
    /\ PolicyInit => PolicyInv
    /\ PolicyInv /\ [PolicyNext]_policyVars => PolicyInv'
<1>1. ASSUME PolicyInit PROVE PolicyInv
  BY <1>1, BegunOK, RecentFacts DEF PolicyInit, PolicyInv
<1>2. SUFFICES ASSUME PolicyInv, [PolicyNext]_policyVars
               PROVE  PolicyInv'
  BY <1>1
<1> USE <1>2 DEF PolicyInv
<1>3. /\ policy \in PolicyType /\ manual \in ManualType /\ recent \in RecentType
      /\ policy.state # "DISABLED" => policy.rank # None
  BY DEF PolicyOK
<1>4. CASE Pass
  BY <1>4, AgedOK, NotesKeepType DEF Pass
<1>5. CASE Tick
  BY <1>5, PreemptedOK DEF Tick
<1>6. CASE Consider
  BY <1>6, ConsideredOK DEF Consider
<1>7. CASE Skip
  BY <1>3, <1>7, FailedOK DEF Skip, Skippable
<1>8. CASE Start
  BY <1>8, StartedOK, NotesKeepType DEF Start, Turn, IsReady, Candidate
<1>9. CASE Defer
  BY <1>9, DeferredOK DEF Defer, Turn, IsReady, Candidate
<1>10. CASE Ask
  <2>1. recent' \in RecentType
    BY <1>3, <1>10, TimeFacts DEF Ask, RecentType
  <2>2. manual' \in ManualType /\ (manual'.selected => manual'.rank # None)
    BY <1>3, <1>10 DEF Ask, ManualType
  <2>3. QED
    BY <1>10, <2>1, <2>2 DEF Ask
<1>11. CASE SelectByHand
  <2>1. manual.rank \in Usable
    BY <1>3, <1>11 DEF SelectByHand, ManualType
  <2>2. manual' \in ManualType /\ manual'.rank # None
    BY <1>3, <1>11 DEF SelectByHand, ManualType
  <2>3. QED
    BY <1>11, <2>1, <2>2, ByHandOK DEF SelectByHand
<1>12. ASSUME manual.rank # None PROVE policy.rank # None
  BY <1>3, <1>12 DEF PolicyOK, ManualType
<1>13. CASE StartByHand
  BY <1>12, <1>13, StartedOK, RecentFacts DEF StartByHand
<1>14. CASE DeferByHand
  BY <1>12, <1>14, DeferredOK, RecentFacts DEF DeferByHand
<1>15. CASE JoinSucceeds
  BY <1>3, <1>15, JoinedOK DEF JoinSucceeds
<1>16. CASE JoinFails
  BY <1>3, <1>16, FailedOK, NotesKeepType DEF JoinFails
<1>17. ASSUME NEW n \in 0..2, policy.rank # None
       PROVE  LET p == [policy EXCEPT !.failures = n]
              IN  PolicyOK(p) /\ p.rank = policy.rank
  BY <1>17 DEF PolicyOK, PolicyType
<1>18. policy.failures \in 0..2
  BY <1>3 DEF PolicyType
<1>19. CASE Lose
  <2>1. PICK n \in 0..2 : policy' = Failed([policy EXCEPT !.failures = n])
    BY <1>18, <1>19 DEF Lose
  <2> DEFINE p == [policy EXCEPT !.failures = n]
  <2>2. PolicyOK(p) /\ p.rank # None
    BY <1>3, <1>17, <1>19 DEF Lose
  <2> HIDE DEF p
  <2>3. PolicyOK(Failed(p))
    BY <2>2, FailedOK
  <2>4. QED
    BY <1>19, <2>1, <2>3 DEF Lose, p
<1>20. CASE Check
  <2>1. PICK n \in 0..2 : policy' = [policy EXCEPT !.failures = n]
    BY <1>20 DEF Check
  <2>2. PolicyOK(policy')
    BY <1>3, <1>17, <1>20, <2>1 DEF Check
  <2>3. QED
    BY <1>20, <2>2 DEF Check
<1>21. CASE Fault
  <2>1. PolicyOK(policy')
    BY <1>3, <1>21 DEF Fault, PolicyOK, PolicyType
  <2>2. QED
    BY <1>21, <2>1, RecentFacts DEF Fault
<1>22. CASE Drop
  BY <1>22, RecentFacts DEF Drop
<1>23. CASE Reboot
  <2>1. recent' \in RecentType
    BY <1>3, <1>23, RecentFacts DEF Reboot, RecentType
  <2>2. QED
    BY <1>23, <2>1, BegunOK, RecentFacts DEF Reboot
<1>24. CASE UNCHANGED policyVars
  BY <1>24 DEF policyVars
<1>25. QED
  BY <1>2, <1>4, <1>5, <1>6, <1>7, <1>8, <1>9, <1>10, <1>11, <1>13, <1>14, <1>15, <1>16,
     <1>19, <1>20, <1>21, <1>22, <1>23, <1>24 DEF PolicyNext, PolicyStep

-----------------------------------------------------------------------------
(* The budget.  The joins of the last day that are no older than the day of  *)
(* the budget are in its account; those before belong to one earlier day.    *)

JoinsType == [Ages -> Nat]

Within(joins, age) == {e \in EachJoin(joins) : e[1] <= age}
Earlier(joins, age) == {e \in EachJoin(joins) : e[1] > age}

InBudget(joins, a) ==
    /\ IsFiniteSet(Within(joins, a.age))
    /\ Cardinality(Within(joins, a.age)) <= a.joins
    /\ IsFiniteSet(Earlier(joins, a.age))
    /\ Cardinality(Earlier(joins, a.age)) <= Budget
    /\ a.age = Day => joins[0] = 0

AllInBudget(joins, p) == \A r \in Public : InBudget(joins[r], p.account[r])

DailyInv == AllInBudget(recent.joins, policy)

(* A join has an age and a number.                                         *)
LEMMA JoinFacts ==
    ASSUME NEW joins \in JoinsType
    PROVE  /\ \A e \in EachJoin(joins) :
                  /\ e = <<e[1], e[2]>> /\ e[1] \in Ages /\ e[2] \in 1..joins[e[1]]
                  /\ e[1] \in Nat /\ e[1] < Day
           /\ \A a \in Ages : \A n \in 1..joins[a] : <<a, n>> \in EachJoin(joins)
<1>1. \A e \in EachJoin(joins) :
          e = <<e[1], e[2]>> /\ e[1] \in Ages /\ e[2] \in 1..joins[e[1]]
  BY DEF EachJoin
<1>2. \A a \in Ages : a \in Nat /\ a < Day
  BY TimeFacts DEF Ages
<1>3. \A a \in Ages : \A n \in 1..joins[a] : <<a, n>> \in EachJoin(joins)
  BY DEF EachJoin
<1>4. QED
  BY <1>1, <1>2, <1>3

(* A set of joins that are all one tick older than those of another set has   *)
(* no more of them.                                                        *)
LEMMA OneTickOlder ==
    ASSUME NEW S, NEW T, IsFiniteSet(T),
           \A e \in S : /\ e = <<e[1], e[2]>> /\ e[1] \in Nat
                        /\ <<e[1] - 1, e[2]>> \in T
    PROVE  IsFiniteSet(S) /\ Cardinality(S) <= Cardinality(T)
<1> DEFINE f == [e \in S |-> <<e[1] - 1, e[2]>>]
<1>1. f \in [S -> T]
  OBVIOUS
<1>2. ASSUME NEW d \in S, NEW e \in S, f[d] = f[e] PROVE d = e
  <2>1. <<d[1] - 1, d[2]>> = <<e[1] - 1, e[2]>>
    BY <1>2
  <2>2. d[1] - 1 = e[1] - 1 /\ d[2] = e[2]
    BY <2>1
  <2>3. d[1] = e[1]
    <3>1. d[1] \in Nat /\ e[1] \in Nat
      OBVIOUS
    <3>2. \A x, y \in Nat : x - 1 = y - 1 => x = y
      OBVIOUS
    <3>3. QED
      BY <2>2, <3>1, <3>2
  <2>4. d = <<d[1], d[2]>> /\ e = <<e[1], e[2]>>
    OBVIOUS
  <2>5. QED
    BY <2>2, <2>3, <2>4
<1> HIDE DEF f
<1>3. f \in Injection(S, T)
  BY <1>1, <1>2 DEF Injection, IsInjective
<1>4. QED
  BY <1>3, FS_Injection

(* Time: every join and the day of the budget grow older together.          *)
LEMMA OlderInBudget ==
    ASSUME NEW joins \in JoinsType, NEW a \in AccountType, InBudget(joins, a)
    PROVE  InBudget(Grown(joins), Older(a))
<1> DEFINE g == Grown(joins)
           age == Toward(a.age, Day)
<1>1. a.age \in 0..Day /\ a.joins \in 0..Budget
  BY DEF AccountType
<1>2. Older(a).age = age /\ Older(a).joins = a.joins
  BY DEF Older, AccountType
<1>3. /\ age \in 0..Day /\ (a.age < Day => age = a.age + 1)
      /\ (~(a.age < Day) => age = Day /\ a.age = Day)
  BY <1>1, TimeFacts DEF Toward
<1>4. /\ 0 \in Ages /\ \A b \in Ages : b \in Nat /\ b < Day
      /\ \A b \in Ages : b # 0 => b - 1 \in Ages
  BY TimeFacts DEF Ages
<1>5. g \in JoinsType /\ g[0] = 0 /\ \A b \in Ages : b # 0 => g[b] = joins[b - 1]
  BY <1>4 DEF Grown, JoinsType
<1> HIDE DEF g, age
<1>6. ASSUME NEW e \in EachJoin(g)
      PROVE  /\ e = <<e[1], e[2]>> /\ e[1] \in Nat /\ e[1] - 1 \in Nat /\ e[1] < Day
             /\ <<e[1] - 1, e[2]>> \in EachJoin(joins)
  <2>1. /\ e = <<e[1], e[2]>> /\ e[1] \in Ages /\ e[2] \in 1..g[e[1]]
        /\ e[1] \in Nat /\ e[1] < Day
    BY <1>5, JoinFacts
  <2>2. e[1] # 0
    BY <1>5, <2>1
  <2>3. e[2] \in 1..joins[e[1] - 1] /\ e[1] - 1 \in Ages
    BY <1>4, <1>5, <2>1, <2>2
  <2>4. <<e[1] - 1, e[2]>> \in EachJoin(joins)
    BY <2>3, JoinFacts
  <2>5. QED
    BY <1>4, <2>1, <2>3, <2>4
<1>7. ASSUME NEW e \in Within(g, age)
      PROVE  e = <<e[1], e[2]>> /\ e[1] \in Nat /\ <<e[1] - 1, e[2]>> \in Within(joins, a.age)
  <2>1. e \in EachJoin(g) /\ e[1] <= age
    BY DEF Within
  <2>2. e[1] - 1 <= a.age
    <3>1. e[1] \in Nat /\ e[1] < Day
      BY <1>6, <2>1
    <3>2. \A b, old, new, day \in Nat :
              b < day /\ b <= new /\ (new = old + 1 \/ old = day) => b - 1 <= old
      OBVIOUS
    <3>3. a.age \in Nat /\ age \in Nat /\ Day \in Nat /\ (age = a.age + 1 \/ a.age = Day)
      BY <1>1, <1>3, TimeFacts
    <3>4. QED
      BY <2>1, <3>1, <3>2, <3>3
  <2>3. <<e[1] - 1, e[2]>>[1] = e[1] - 1
    OBVIOUS
  <2>4. QED
    BY <1>6, <2>1, <2>2, <2>3 DEF Within
<1>8. ASSUME NEW e \in Earlier(g, age)
      PROVE  e = <<e[1], e[2]>> /\ e[1] \in Nat /\ <<e[1] - 1, e[2]>> \in Earlier(joins, a.age)
  <2>1. e \in EachJoin(g) /\ e[1] > age
    BY DEF Earlier
  <2>2. e[1] - 1 > a.age
    <3>1. e[1] \in Nat /\ e[1] < Day
      BY <1>6, <2>1
    <3>2. \A b, old, new, day \in Nat :
              b < day /\ b > new /\ (new = old + 1 \/ new = day) => b - 1 > old
      OBVIOUS
    <3>3. a.age \in Nat /\ age \in Nat /\ Day \in Nat /\ (age = a.age + 1 \/ age = Day)
      BY <1>1, <1>3, TimeFacts
    <3>4. QED
      BY <2>1, <3>1, <3>2, <3>3
  <2>3. <<e[1] - 1, e[2]>>[1] = e[1] - 1
    OBVIOUS
  <2>4. QED
    BY <1>6, <2>1, <2>2, <2>3 DEF Earlier
<1>9. /\ IsFiniteSet(Within(g, age))
      /\ Cardinality(Within(g, age)) <= Cardinality(Within(joins, a.age))
  BY <1>7, OneTickOlder DEF InBudget
<1>10. /\ IsFiniteSet(Earlier(g, age))
       /\ Cardinality(Earlier(g, age)) <= Cardinality(Earlier(joins, a.age))
  BY <1>8, OneTickOlder DEF InBudget
<1>11. /\ Cardinality(Within(g, age)) \in Nat /\ Cardinality(Within(joins, a.age)) \in Nat
       /\ Cardinality(Earlier(g, age)) \in Nat /\ Cardinality(Earlier(joins, a.age)) \in Nat
  BY <1>9, <1>10, FS_CardinalityType DEF InBudget
<1>12. /\ Cardinality(Within(joins, a.age)) <= a.joins
       /\ Cardinality(Earlier(joins, a.age)) <= Budget
  BY DEF InBudget
<1>13. /\ Cardinality(Within(g, age)) <= a.joins
       /\ Cardinality(Earlier(g, age)) <= Budget
  BY <1>1, <1>9, <1>10, <1>11, <1>12, TimeFacts
<1>14. QED
  BY <1>2, <1>5, <1>9, <1>10, <1>13 DEF InBudget, g

(* A new day of the budget: all joins of the last 24 hours were in the old.   *)
LEMMA EmptiedInBudget ==
    ASSUME NEW joins \in JoinsType, NEW a \in AccountType, InBudget(joins, a),
           a.age >= Day
    PROVE  InBudget(joins, Emptied(a))
<1>1. a.age = Day /\ a.joins \in 0..Budget
  BY TimeFacts DEF AccountType
<1>2. Emptied(a).age = 0 /\ Emptied(a).joins = 0
  BY DEF Emptied, AccountType
<1>3. joins[0] = 0
  BY <1>1 DEF InBudget
<1>4. Within(joins, 0) = {}
  <2>1. ASSUME NEW e \in Within(joins, 0) PROVE FALSE
    <3>1. e \in EachJoin(joins) /\ e[1] <= 0
      BY DEF Within
    <3>2. e[1] = 0 /\ e[2] \in 1..joins[e[1]]
      BY <3>1, JoinFacts
    <3>3. QED
      BY <1>3, <3>2
  <2>2. QED
    BY <2>1
<1>5. Earlier(joins, 0) \subseteq Within(joins, Day)
  BY JoinFacts, TimeFacts DEF Earlier, Within
<1>6. IsFiniteSet(Within(joins, Day)) /\ Cardinality(Within(joins, Day)) <= a.joins
  BY <1>1 DEF InBudget
<1>7. /\ IsFiniteSet(Earlier(joins, 0))
      /\ Cardinality(Earlier(joins, 0)) <= Cardinality(Within(joins, Day))
  BY <1>5, <1>6, FS_Subset
<1>8. Cardinality(Earlier(joins, 0)) \in Nat /\ Cardinality(Within(joins, Day)) \in Nat
  BY <1>6, <1>7, FS_CardinalityType
<1>9. Cardinality(Earlier(joins, 0)) <= Budget
  BY <1>1, <1>6, <1>7, <1>8, TimeFacts
<1>10. 0 # Day
  BY TimeFacts
<1>11. QED
  BY <1>2, <1>4, <1>7, <1>9, <1>10, FS_EmptySet DEF InBudget

(* A join by hand is counted, although it waits for no budget.              *)
LEMMA HandInBudget ==
    ASSUME NEW joins \in JoinsType, NEW a \in AccountType, InBudget(joins, a)
    PROVE  InBudget(joins, Counted(a))
<1>1. a.joins \in 0..Budget /\ Counted(a).age = a.age
      /\ Counted(a).joins = IF a.joins < Budget THEN a.joins + 1 ELSE a.joins
  BY DEF Counted, AccountType
<1>2. Cardinality(Within(joins, a.age)) \in Nat
  BY FS_CardinalityType DEF InBudget
<1>3. Cardinality(Within(joins, a.age)) <= Counted(a).joins
  BY <1>1, <1>2, TimeFacts DEF InBudget
<1>4. QED
  BY <1>1, <1>3 DEF InBudget

(* An automatic join is counted while the budget lasts.                     *)
LEMMA JoinInBudget ==
    ASSUME NEW joins \in JoinsType, NEW a \in AccountType, InBudget(joins, a),
           a.age < Day, a.joins < Budget
    PROVE  InBudget([joins EXCEPT ![0] = @ + 1], Counted(a))
<1> DEFINE new == [joins EXCEPT ![0] = @ + 1]
           e == <<0, joins[0] + 1>>
<1>1. /\ a.age \in 0..Day /\ a.joins \in 0..Budget /\ Counted(a).age = a.age
      /\ Counted(a).joins = a.joins + 1
  BY DEF Counted, AccountType
<1>2. 0 \in Ages /\ joins[0] \in Nat
  BY TimeFacts DEF Ages, JoinsType
<1>3. /\ new \in JoinsType /\ new[0] = joins[0] + 1
      /\ \A b \in Ages : b # 0 => new[b] = joins[b]
  BY <1>2 DEF JoinsType
<1> HIDE DEF new
<1>4. EachJoin(new) = EachJoin(joins) \cup {e} /\ e \notin EachJoin(joins)
  <2>1. ASSUME NEW x \in EachJoin(new) PROVE x \in EachJoin(joins) \cup {e}
    <3>1. x = <<x[1], x[2]>> /\ x[1] \in Ages /\ x[2] \in 1..new[x[1]]
      BY <1>3, JoinFacts
    <3>2. CASE x[1] # 0
      <4>1. x[2] \in 1..joins[x[1]]
        BY <1>3, <3>1, <3>2
      <4>2. QED
        BY <3>1, <4>1, JoinFacts
    <3>3. CASE x[1] = 0
      <4>1. x[2] \in 1..joins[0] \/ x[2] = joins[0] + 1
        BY <1>2, <1>3, <3>1, <3>3
      <4>2. QED
        BY <1>2, <3>1, <3>3, <4>1, JoinFacts
    <3>4. QED
      BY <3>2, <3>3
  <2>2. ASSUME NEW x \in EachJoin(joins) PROVE x \in EachJoin(new)
    <3>1. x = <<x[1], x[2]>> /\ x[1] \in Ages /\ x[2] \in 1..joins[x[1]]
      BY JoinFacts
    <3>2. x[2] \in 1..new[x[1]]
      BY <1>2, <1>3, <3>1
    <3>3. QED
      BY <1>3, <3>1, <3>2, JoinFacts
  <2>3. e \in EachJoin(new)
    <3>1. joins[0] + 1 \in 1..new[0]
      BY <1>2, <1>3
    <3>2. QED
      BY <1>2, <1>3, <3>1, JoinFacts
  <2>4. e \notin EachJoin(joins)
    <3>1. e[1] = 0 /\ e[2] = joins[0] + 1
      OBVIOUS
    <3>2. joins[0] + 1 \notin 1..joins[0]
      BY <1>2
    <3>3. QED
      BY <3>1, <3>2, JoinFacts
  <2>5. QED
    BY <2>1, <2>2, <2>3, <2>4
<1>5. e[1] <= a.age /\ ~(e[1] > a.age)
  BY <1>1, TimeFacts
<1> HIDE DEF e
<1>6. /\ Within(new, a.age) = Within(joins, a.age) \cup {e}
      /\ e \notin Within(joins, a.age)
      /\ Earlier(new, a.age) = Earlier(joins, a.age)
  BY <1>4, <1>5 DEF Within, Earlier
<1>7. /\ IsFiniteSet(Within(new, a.age))
      /\ Cardinality(Within(new, a.age)) = Cardinality(Within(joins, a.age)) + 1
      /\ Cardinality(Within(joins, a.age)) \in Nat
  BY <1>6, FS_AddElement, FS_CardinalityType DEF InBudget
<1>8. Cardinality(Within(new, a.age)) <= a.joins + 1
  BY <1>1, <1>7 DEF InBudget
<1>9. a.age # Day
  BY <1>1, TimeFacts
<1>10. QED
  BY <1>1, <1>6, <1>7, <1>8, <1>9 DEF InBudget, new

(* What ready or started renews is charged as before.                       *)
LEMMA RenewedInBudget ==
    ASSUME NEW joins \in [Public -> JoinsType], NEW p \in PolicyType,
           AllInBudget(joins, p)
    PROVE  AllInBudget(joins, Renewed(p))
<1>1. p.account \in [Public -> AccountType]
  BY DEF PolicyType
<1>2. CASE p.rank \in Public /\ p.account[p.rank].age >= Day
  <2>1. Renewed(p).account =
            [p.account EXCEPT ![p.rank] = Emptied(p.account[p.rank])]
    BY <1>2 DEF Renewed, PolicyType
  <2>2. InBudget(joins[p.rank], Emptied(p.account[p.rank]))
    BY <1>1, <1>2, EmptiedInBudget DEF AllInBudget
  <2>3. QED
    BY <1>1, <1>2, <2>1, <2>2 DEF AllInBudget
<1>3. CASE ~(p.rank \in Public /\ p.account[p.rank].age >= Day)
  BY <1>3 DEF Renewed
<1>4. QED
  BY <1>2, <1>3

(* ready                                                                   *)
LEMMA ConsideredInBudget ==
    ASSUME NEW joins \in [Public -> JoinsType], NEW p \in PolicyType,
           AllInBudget(joins, p)
    PROVE  AllInBudget(joins, Considered(p))
<1>1. AllInBudget(joins, Renewed(p)) /\ Renewed(p) \in PolicyType
  BY RenewedInBudget, RenewedFacts
<1>2. Considered(p).account \in {p.account, Renewed(p).account}
  <2> DEFINE q == Renewed(p)
  <2>1. q \in PolicyType
    BY <1>1
  <2> HIDE DEF q
  <2>2. \A s, t : /\ [q EXCEPT !.state = s, !.wait = t].account = q.account
                  /\ [q EXCEPT !.state = s].account = q.account
    BY <2>1 DEF PolicyType
  <2>3. QED
    BY <2>2 DEF Considered, q
<1>3. QED
  BY <1>1, <1>2 DEF AllInBudget

(* started: the account of the profile counts the join.                     *)
LEMMA StartedAccount ==
    ASSUME NEW p \in PolicyType
    PROVE  /\ p.rank \notin Public => Started(p).account = Renewed(p).account
           /\ p.rank \in Public =>
                  Started(p).account =
                      [Renewed(p).account EXCEPT ![p.rank] = Counted(@)]
<1> DEFINE n == Renewed(p)
           q == [n EXCEPT !.state = "JOINING", !.wait = JoinWait]
<1>1. n \in PolicyType
  BY RenewedFacts
<1> HIDE DEF n
<1>2. q.account = n.account /\ q \in PolicyType
  BY <1>1, TimeFacts DEF PolicyType
<1>3. p.rank \notin Public => Started(p) = q
  BY DEF Started, n
<1>4. p.rank \in Public => Started(p) = [q EXCEPT !.account[p.rank] = Counted(@)]
  BY DEF Started, n
<1> HIDE DEF q
<1>5. [q EXCEPT !.account[p.rank] = Counted(@)].account =
          [q.account EXCEPT ![p.rank] = Counted(@)]
  BY <1>2 DEF PolicyType
<1>6. QED
  BY <1>2, <1>3, <1>4, <1>5 DEF n

(* Every other use of the policy leaves the accounts alone.                 *)
LEMMA AccountsKept ==
    ASSUME NEW p, PolicyOK(p), p.rank # None
    PROVE  /\ Failed(p).account = p.account
           /\ Deferred(p).account = p.account
           /\ Joined(p).account = p.account
           /\ Preempted(p).account = p.account
           /\ \A r \in Usable : ByHand(p, r).account = p.account
<1>1. p \in PolicyType /\ p.rank \in Usable /\ p.rank + 1 \in Nat
  BY UsableFacts DEF PolicyOK, PolicyType
<1>2. ASSUME NEW q \in PolicyType, NEW t PROVE Waiting(q, t).account = q.account
  BY <1>2 DEF Waiting, PolicyType
<1>3. [p EXCEPT !.probing = FALSE] \in PolicyType
      /\ [p EXCEPT !.probing = FALSE].account = p.account
  BY <1>1 DEF PolicyType
<1>4. ASSUME NEW q \in PolicyType, NEW r \in Nat, NEW t
      PROVE  Waiting(Selected(q, r), t).account = q.account
  BY <1>2, <1>4, SelectedFacts
<1>5. First(p.rank + 1) \in Nat /\ (p.probing => Resume(p) \in Nat)
  BY <1>1, FirstFacts, RankFacts, ResumeIsUsable
<1>6. Failed(p).account = p.account
  <2> DEFINE q == [p EXCEPT !.probing = FALSE]
             next == First(p.rank + 1)
  <2>1. /\ q \in PolicyType /\ q.account = p.account /\ next \in Nat
    BY <1>3, <1>5
  <2> HIDE DEF q, next
  <2>2. CASE p.probing /\ next < p.returnRank
    <3>1. Failed(p) = Waiting(Selected(p, next), RetryWait)
      BY <2>2 DEF Failed, next
    <3>2. QED
      BY <1>1, <1>4, <2>1, <3>1
  <2>3. CASE p.probing /\ ~(next < p.returnRank)
    <3>1. Failed(p) = Waiting(Selected(q, Resume(p)), RetryWait)
      BY <2>3 DEF Failed, next, q
    <3>2. QED
      BY <1>4, <1>5, <2>1, <2>3, <3>1
  <2>4. CASE ~p.probing /\ p.rank = Preferred /\ next # None
    <3>1. Failed(p) = Waiting(Selected(p, next), RetryWait)
      BY <2>4 DEF Failed, next
    <3>2. QED
      BY <1>1, <1>4, <2>1, <3>1
  <2>5. CASE ~p.probing /\ ~(p.rank = Preferred /\ next # None)
    <3>1. Failed(p) = Waiting(p, IF p.rank \in Public THEN Cooldown ELSE PrivateRetry)
      BY <2>5 DEF Failed, next
    <3>2. QED
      BY <1>1, <1>2, <3>1
  <2>6. QED
    BY <2>2, <2>3, <2>4, <2>5
<1>7. Deferred(p).account = p.account
  BY <1>1, <1>2 DEF Deferred
<1>8. Joined(p).account = p.account
  BY <1>1 DEF Joined, PolicyType
<1>9. Preempted(p).account = p.account
  <2> DEFINE q == [p EXCEPT !.probing = TRUE, !.returnRank = p.rank,
                            !.returnHealthy = (p.state = "ONLINE")]
  <2>1. q \in PolicyType /\ q.account = p.account
    BY <1>1, RankFacts DEF PolicyType
  <2>2. Preempted(p) = Selected(q, Preferred)
    BY DEF Preempted
  <2> HIDE DEF q
  <2>3. Preferred \in Nat
    BY <1>1, PreferredFacts, RankFacts
  <2>4. QED
    BY <2>1, <2>2, <2>3, SelectedFacts
<1>10. ASSUME NEW r \in Usable PROVE ByHand(p, r).account = p.account
  <2>1. r \in Nat
    BY RankFacts
  <2>2. QED
    BY <1>3, <2>1, SelectedFacts DEF ByHand
<1>11. QED
  BY <1>6, <1>7, <1>8, <1>9, <1>10

(* It holds when the board starts: there were no joins.                     *)
LEMMA BegunInBudget == AllInBudget(NoRecent.joins, Begun)
<1>1. Blank \in PolicyType /\ Blank.account = [r \in Public |-> NewAccount]
  BY RankFacts, TimeFacts DEF Blank, PolicyType, AccountType, NewAccount
<1>2. Begun.account = [r \in Public |-> NewAccount]
  BY <1>1, SelectedFacts DEF Begun
<1> DEFINE none == [a \in Ages |-> 0]
<1>3. none \in JoinsType /\ 0 \in Ages /\ none[0] = 0
  BY TimeFacts DEF JoinsType, Ages
<1>4. EachJoin(none) = {}
  BY DEF EachJoin
<1> HIDE DEF none
<1>5. NoRecent.joins = [r \in Public |-> none]
  BY DEF NoRecent, none
<1>6. Within(none, Day) = {} /\ Earlier(none, Day) = {}
  BY <1>4 DEF Within, Earlier
<1>7. NewAccount.age = Day /\ NewAccount.joins = 0 /\ 0 <= Budget
  BY TimeFacts DEF NewAccount
<1>8. InBudget(none, NewAccount)
  BY <1>3, <1>6, <1>7, FS_EmptySet DEF InBudget
<1>9. QED
  BY <1>2, <1>5, <1>8 DEF AllInBudget

(* Every use of the policy keeps the joins in the budget.                   *)
LEMMA StepInBudget == PolicyInv /\ DailyInv /\ [PolicyNext]_policyVars => DailyInv'
<1> SUFFICES ASSUME PolicyInv, DailyInv, [PolicyNext]_policyVars PROVE DailyInv'
  OBVIOUS
<1>1. /\ PolicyOK(policy) /\ policy \in PolicyType /\ manual \in ManualType
      /\ recent.joins \in [Public -> JoinsType] /\ recent \in RecentType
      /\ policy.state # "DISABLED" => policy.rank # None
      /\ AllInBudget(recent.joins, policy)
  BY DEF PolicyInv, PolicyOK, RecentType, JoinsType, DailyInv
<1>2. ASSUME recent'.joins = recent.joins, policy'.account = policy.account
      PROVE  DailyInv'
  BY <1>1, <1>2 DEF DailyInv, AllInBudget
<1>3. CASE Pass
  <2>1. policy'.account = [r \in Public |-> Older(policy.account[r])]
    BY <1>1, <1>3 DEF Pass, Aged, PolicyType
  <2>2. recent'.joins = [r \in Public |-> Grown(recent.joins[r])]
    BY <1>1, <1>3 DEF Pass, NoteTime, RecentType
  <2>3. \A r \in Public : policy.account[r] \in AccountType
    BY <1>1 DEF PolicyType
  <2>4. \A r \in Public : InBudget(Grown(recent.joins[r]), Older(policy.account[r]))
    BY <1>1, <2>3, OlderInBudget DEF AllInBudget
  <2>5. QED
    BY <2>1, <2>2, <2>4 DEF DailyInv, AllInBudget
<1>4. CASE Tick \/ Skip \/ Defer \/ JoinSucceeds
  <2>1. policy.rank # None
    BY <1>1, <1>4 DEF Tick, PreemptDue, Skip, Skippable, Defer, Turn, IsReady, Candidate,
                      JoinSucceeds
  <2>2. QED
    BY <1>1, <1>2, <1>4, <2>1, AccountsKept DEF Tick, Skip, Defer, JoinSucceeds
<1>5. CASE Consider
  BY <1>1, <1>5, ConsideredInBudget DEF Consider, DailyInv
<1>6. CASE Start
  <2> DEFINE n == Renewed(policy)
  <2>1. n \in PolicyType /\ AllInBudget(recent.joins, n)
        /\ (policy.rank \in Public => n.account[policy.rank].age < Day)
    BY <1>1, RenewedFacts, RenewedInBudget
  <2>2. policy' = Started(policy) /\ NoteJoin /\ ~Exhausted(n) /\ n.rank = policy.rank
    BY <1>1, <1>6, RenewedFacts DEF Start, Turn, IsReady
  <2>3. n.account \in [Public -> AccountType]
    BY <2>1 DEF PolicyType
  <2>4. /\ policy.rank \notin Public => policy'.account = n.account
        /\ policy.rank \in Public =>
               policy'.account = [n.account EXCEPT ![policy.rank] = Counted(@)]
    BY <1>1, <2>2, StartedAccount
  <2> HIDE DEF n
  <2>5. CASE policy.rank \notin Public
    BY <2>1, <2>2, <2>4, <2>5 DEF NoteJoin, DailyInv, AllInBudget
  <2>6. CASE policy.rank \in Public
    <3> DEFINE r == policy.rank
    <3> DEFINE f == [recent.joins[r] EXCEPT ![0] = recent.joins[r][0] + 1]
    <3>1. recent'.joins = [recent.joins EXCEPT ![r] = f]
      <4>1. recent' = [recent EXCEPT !.joins[policy.rank][0] =
                           recent.joins[policy.rank][0] + 1]
        BY <2>2, <2>6 DEF NoteJoin
      <4>2. QED
        BY <1>1, <2>6, <4>1 DEF RecentType
    <3>2. recent'.joins[r] = [recent.joins[r] EXCEPT ![0] = recent.joins[r][0] + 1]
      BY <1>1, <2>6, <3>1
    <3> HIDE DEF f
    <3>3. n.account[r] \in AccountType /\ n.account[r].joins < Budget
      BY <2>2, <2>3, <2>6, TimeFacts DEF Exhausted, AccountType
    <3>4. InBudget(recent'.joins[r], Counted(n.account[r]))
      BY <1>1, <2>1, <2>6, <3>2, <3>3, JoinInBudget DEF AllInBudget
    <3>5. policy'.account[r] = Counted(n.account[r])
      BY <2>3, <2>4, <2>6
    <3> HIDE DEF r
    <3>6. \A o \in Public \ {r} : /\ recent'.joins[o] = recent.joins[o]
                                  /\ policy'.account[o] = n.account[o]
      BY <1>1, <2>3, <2>4, <2>6, <3>1 DEF r
    <3>7. QED
      BY <2>1, <3>4, <3>5, <3>6 DEF DailyInv, AllInBudget
  <2>7. QED
    BY <2>5, <2>6
<1>7. CASE StartByHand
  <2> DEFINE n == Renewed(policy)
  <2>1. n \in PolicyType /\ AllInBudget(recent.joins, n)
    BY <1>1, RenewedFacts, RenewedInBudget
  <2>2. n.account \in [Public -> AccountType]
    BY <2>1 DEF PolicyType
  <2>3. policy' = Started(policy) /\ recent' = recent
    BY <1>7 DEF StartByHand
  <2>4. /\ policy.rank \notin Public => policy'.account = n.account
        /\ policy.rank \in Public =>
               policy'.account = [n.account EXCEPT ![policy.rank] = Counted(@)]
    BY <1>1, <2>3, StartedAccount
  <2> HIDE DEF n
  <2>5. \A r \in Public : policy'.account[r] \in {n.account[r], Counted(n.account[r])}
    BY <2>2, <2>4
  <2>6. \A r \in Public : InBudget(recent.joins[r], Counted(n.account[r]))
    BY <1>1, <2>1, <2>2, HandInBudget DEF AllInBudget
  <2>7. QED
    BY <2>1, <2>3, <2>5, <2>6 DEF DailyInv, AllInBudget
<1>8. CASE Ask
  BY <1>1, <1>2, <1>8 DEF Ask, RecentType
<1>9. CASE SelectByHand \/ DeferByHand
  <2>1. manual.rank \in Usable /\ policy.rank # None /\ recent' = recent
    BY <1>1, <1>9, RankFacts DEF SelectByHand, DeferByHand, ManualType, PolicyOK
  <2>2. policy' = ByHand(policy, manual.rank) \/ policy' = Deferred(policy)
    BY <1>9 DEF SelectByHand, DeferByHand
  <2>3. QED
    BY <1>1, <1>2, <2>1, <2>2, AccountsKept
<1>10. CASE JoinFails
  <2>1. policy.rank # None /\ recent'.joins = recent.joins
    BY <1>1, <1>10 DEF JoinFails, NoteFailure, RecentType
  <2>2. QED
    BY <1>1, <1>2, <1>10, <2>1, AccountsKept DEF JoinFails
<1>11. CASE Lose
  <2>1. PICK m \in 0..2 : policy' = Failed([policy EXCEPT !.failures = m])
    BY <1>1, <1>11 DEF Lose, PolicyType
  <2> DEFINE p == [policy EXCEPT !.failures = m]
  <2>2. PolicyOK(p) /\ p.rank # None /\ p.account = policy.account
    BY <1>1, <1>11 DEF Lose, PolicyOK, PolicyType
  <2> HIDE DEF p
  <2>3. Failed(p).account = p.account
    BY <2>2, AccountsKept
  <2>4. policy'.account = policy.account
    BY <2>1, <2>2, <2>3 DEF p
  <2>5. QED
    BY <1>2, <1>11, <2>4 DEF Lose
<1>12. CASE Check \/ Fault
  BY <1>1, <1>2, <1>12 DEF Check, Fault, PolicyType
<1>13. CASE Drop
  BY <1>2, <1>13 DEF Drop
<1>14. CASE Reboot
  <2>1. policy' = Begun /\ recent'.joins = NoRecent.joins
    BY <1>14 DEF Reboot, NoRecent
  <2>2. QED
    BY <2>1, BegunInBudget DEF DailyInv
<1>15. CASE UNCHANGED policyVars
  BY <1>2, <1>15 DEF policyVars
<1>16. QED
  BY <1>3, <1>4, <1>5, <1>6, <1>7, <1>8, <1>9, <1>10, <1>11, <1>12, <1>13, <1>14, <1>15
     DEF PolicyNext, PolicyStep

(* Within the budget there are no more than two days' joins.                *)
LEMMA InBudgetDaily == PolicyInv /\ DailyInv => DailyJoins
<1> SUFFICES ASSUME PolicyInv, DailyInv, NEW r \in Public
             PROVE  Cardinality(EachJoin(recent.joins[r])) <= 2 * Budget
  BY DEF DailyJoins
<1> DEFINE joins == recent.joins[r]
           a == policy.account[r]
<1>1. joins \in JoinsType /\ a \in AccountType /\ InBudget(joins, a)
  BY DEF PolicyInv, PolicyOK, PolicyType, RecentType, JoinsType, DailyInv, AllInBudget
<1>2. a.age \in Nat /\ a.joins \in 0..Budget
  BY <1>1, TimeFacts DEF AccountType
<1> HIDE DEF joins, a
<1>3. EachJoin(joins) = Within(joins, a.age) \cup Earlier(joins, a.age)
  BY <1>1, <1>2, JoinFacts DEF Within, Earlier
<1>4. Within(joins, a.age) \cap Earlier(joins, a.age) = {}
  BY <1>1, <1>2, JoinFacts DEF Within, Earlier
<1>5. IsFiniteSet(Within(joins, a.age)) /\ IsFiniteSet(Earlier(joins, a.age))
  BY <1>1 DEF InBudget
<1>6. Cardinality(EachJoin(joins)) =
          Cardinality(Within(joins, a.age)) + Cardinality(Earlier(joins, a.age)) - 0
  BY <1>3, <1>4, <1>5, FS_Union, FS_EmptySet
<1>7. Cardinality(Within(joins, a.age)) \in Nat /\ Cardinality(Earlier(joins, a.age)) \in Nat
  BY <1>5, FS_CardinalityType
<1>8. Cardinality(EachJoin(joins)) <= 2 * Budget
  <2>1. Cardinality(Within(joins, a.age)) <= a.joins
        /\ Cardinality(Earlier(joins, a.age)) <= Budget
    BY <1>1 DEF InBudget
  <2>2. QED
    BY <1>2, <1>6, <1>7, <2>1, TimeFacts
<1>9. QED
  BY <1>8 DEF joins

(* Theorem: the policy always has its type.                                 *)
THEOREM PolicyTypeCorrect == PolicySpec => []PolicyTypeOK
<1>1. PolicyInv => PolicyTypeOK
  BY DEF PolicyInv, PolicyOK, PolicyTypeOK
<1>2. QED
  BY <1>1, PolicyInvHolds, PTL DEF PolicySpec

(* Theorem: a round of probes only visits profiles above the backup it      *)
(* returns to, whatever is asked for by hand (network_policy.h, tick and    *)
(* failed; network_manager.cpp, the selection by hand).                    *)
THEOREM ProbesGoUp == PolicySpec => []ProbesAreHigher
<1>1. PolicyInv => ProbesAreHigher
  BY DEF PolicyInv, PolicyOK, ProbesAreHigher
<1>2. QED
  BY <1>1, PolicyInvHolds, PTL DEF PolicySpec

(* Theorem: in any 24 hours no more than two budgets of automatic joins are   *)
(* made of a public profile, although a budget's day begins with a turn,     *)
(* whatever is preempted, deferred or joined by hand in between              *)
(* (network_policy.h, ready and started).                                  *)
THEOREM JoinsWithinBudgets == PolicySpec => []DailyJoins
<1>1. PolicyInit => DailyInv
  BY BegunInBudget DEF PolicyInit, DailyInv
<1>2. QED
  BY <1>1, PolicyInvHolds, StepInBudget, InBudgetDaily, PTL DEF PolicySpec

=============================================================================
