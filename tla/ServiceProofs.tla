----------------------------- MODULE ServiceProofs -----------------------------
(***************************************************************************)
(* Proofs about the services around the import.                            *)
(*                                                                         *)
(* Leadership, for any set of instances and any number of faults: two      *)
(* healthy instances never lead at the same time, and a supervisor never   *)
(* sleeps through a change of leadership.                                  *)
(*                                                                         *)
(* Escalation, for any number of instances, incidents and channels and any *)
(* bounds on the queues and on the troubles: it is exact.  Over a table a  *)
(* claim has one owner; without one the single instance acts on its last   *)
(* claim, whatever the bounded map has forgotten.                          *)
(*                                                                         *)
(* What feeds and serves the console: the envelope of a session, the live  *)
(* updates of the incident page, the pull of alerts and the host of the    *)
(* connectors, for any number of requests, consoles, instances and sources.*)
(***************************************************************************)
EXTENDS LeaderElection, Escalation, SessionFlow, EventStream, AlertPoller, ConnectorHost,
        FiniteSetTheorems, SequenceTheorems, TLAPS

------------------------------------------------------------------------------
(* LeaderElection                                                          *)

(* lockHeld is true only of the owner of the lock or of a client that does *)
(* not know yet that its session is gone.                                  *)
HeldIsOwned == \A i \in Instances : lockHeld[i] => holder = i \/ session[i] = "dead"

(* The owner's session is in use.                                          *)
OwnerIsLive == \A i \in Instances : holder = i => session[i] = "live"

(* Only an instance that believes to have the lock is on the way to the    *)
(* flag, or has it; between the unlock and the end of the flag it is       *)
(* "demote".                                                               *)
FlagIsHeld ==
  \A i \in Instances :
    /\ electing[i] \in {"hook", "flip"} => lockHeld[i]
    /\ leader[i] => lockHeld[i] \/ electing[i] = "demote"

OwnershipInv == LeaderTypeOK /\ OwnerIsLive /\ HeldIsOwned /\ FlagIsHeld

LEMMA OwnershipInit == LeaderInit => OwnershipInv
<1> SUFFICES ASSUME LeaderInit PROVE OwnershipInv
  OBVIOUS
<1> USE DEF LeaderInit
<1>1. LeaderTypeOK BY LeaderAssumption DEF LeaderTypeOK
<1>2. OwnerIsLive /\ HeldIsOwned /\ FlagIsHeld
  BY LeaderAssumption DEF OwnerIsLive, HeldIsOwned, FlagIsHeld
<1> QED BY <1>1, <1>2 DEF OwnershipInv

(* Type correctness is preserved by every step.                            *)
LEMMA LeaderTypesPreserved ==
  ASSUME LeaderTypeOK, [LeaderNext]_leaderVars
  PROVE  LeaderTypeOK'
<1> USE LeaderAssumption DEF LeaderTypeOK
<1>1. CASE UNCHANGED leaderVars
  BY <1>1 DEF leaderVars, electorVars, supervisorVars
<1>2. CASE \E i \in Instances : Elect(i)
  <2> PICK i \in Instances : Elect(i) BY <1>2
  <2>1. CASE Acquire(i) \/ TryLock(i) \/ TryLockFails(i) \/ RetryHook(i)
    BY <2>1 DEF Acquire, TryLock, TryLockFails, RetryHook, supervisorVars
  <2>2. CASE HookSucceeds(i) \/ Promote(i) \/ Leave(i)
    BY <2>2 DEF HookSucceeds, Promote, Leave, SetLeader, supervisorVars
  <2>3. CASE Release(i)
    BY <2>3 DEF Release, Spend, supervisorVars
  <2>4. CASE Demote(i)
    BY <2>4 DEF Demote, SetLeader
  <2>5. CASE ProbeFails(i)
    BY <2>5 DEF ProbeFails, Spend, supervisorVars
  <2> QED BY <2>1, <2>2, <2>3, <2>4, <2>5 DEF Elect
<1>3. CASE \E i \in Instances : HookFails(i)
  BY <1>3 DEF HookFails, Spend, supervisorVars
<1>4. CASE \E i \in Instances : Gate(i)
  <2> PICK i \in Instances : Gate(i) BY <1>4
  <2> QED BY DEF Gate, Capture, Check, Idle, Recheck, Wake, Recapture, LoopsReturn,
                 Exit, Supervise, Running, electorVars
<1>5. CASE \E i \in Instances : Stop(i) \/ SessionBreaks(i) \/ Crash(i)
  <2> PICK i \in Instances : Stop(i) \/ SessionBreaks(i) \/ Crash(i) BY <1>5
  <2>1. CASE Stop(i) BY <2>1 DEF Stop, supervisorVars
  <2>2. CASE SessionBreaks(i) BY <2>2 DEF SessionBreaks, Spend, supervisorVars
  <2>3. CASE Crash(i) BY <2>3 DEF Crash, Spend
  <2> QED BY <2>1, <2>2, <2>3
<1>6. CASE Reap
  BY <1>6 DEF Reap, supervisorVars
<1> QED BY <1>1, <1>2, <1>3, <1>4, <1>5, <1>6 DEF LeaderNext

(* The election loop keeps the relation of lock, session and flag.         *)
LEMMA ElectionKeepsOwnership ==
  ASSUME OwnershipInv, LeaderTypeOK', NEW i \in Instances, Elect(i) \/ HookFails(i)
  PROVE  OwnershipInv'
<1> USE LeaderAssumption DEF OwnershipInv, LeaderTypeOK, OwnerIsLive, HeldIsOwned, FlagIsHeld
<1>1. CASE Acquire(i) BY <1>1 DEF Acquire, supervisorVars
<1>2. CASE TryLock(i) BY <1>2 DEF TryLock, Campaigns, supervisorVars
<1>3. CASE TryLockFails(i) BY <1>3 DEF TryLockFails, supervisorVars
<1>4. CASE RetryHook(i) BY <1>4 DEF RetryHook, Campaigns, supervisorVars
<1>5. CASE HookSucceeds(i) BY <1>5 DEF HookSucceeds, supervisorVars
<1>6. CASE HookFails(i) BY <1>6 DEF HookFails, supervisorVars
<1>7. CASE Promote(i) BY <1>7 DEF Promote, SetLeader
<1>8. CASE Leave(i) BY <1>8 DEF Leave, supervisorVars
<1>9. CASE Release(i) BY <1>9 DEF Release, supervisorVars
<1>10. CASE Demote(i) BY <1>10 DEF Demote, SetLeader
<1>11. CASE ProbeFails(i) BY <1>11 DEF ProbeFails, supervisorVars
<1> QED BY <1>1, <1>2, <1>3, <1>4, <1>5, <1>6, <1>7, <1>8, <1>9, <1>10, <1>11 DEF Elect

(* So do the supervisor, the environment and a stuttering step.            *)
LEMMA OwnershipPreserved == OwnershipInv /\ [LeaderNext]_leaderVars => OwnershipInv'
<1> SUFFICES ASSUME OwnershipInv, [LeaderNext]_leaderVars PROVE OwnershipInv'
  OBVIOUS
<1>0. LeaderTypeOK' BY LeaderTypesPreserved DEF OwnershipInv
<1>1. CASE \E i \in Instances : Elect(i) \/ HookFails(i)
  BY <1>0, <1>1, ElectionKeepsOwnership
<1> USE LeaderAssumption DEF OwnershipInv, OwnerIsLive, HeldIsOwned, FlagIsHeld
<1>2. CASE UNCHANGED leaderVars
  BY <1>0, <1>2 DEF leaderVars, electorVars
<1>3. CASE \E i \in Instances : Gate(i)
  BY <1>0, <1>3 DEF Gate, Capture, Check, Idle, Recheck, Wake, Recapture, LoopsReturn,
                    Exit, Supervise, electorVars
<1>4. CASE \E i \in Instances : Stop(i)
  BY <1>0, <1>4 DEF Stop
<1>5. CASE \E i \in Instances : SessionBreaks(i)
  BY <1>0, <1>5 DEF SessionBreaks, LeaderTypeOK
<1>6. CASE \E i \in Instances : Crash(i)
  BY <1>0, <1>6 DEF Crash, LeaderTypeOK
<1>7. CASE Reap
  BY <1>0, <1>7 DEF Reap
<1> QED BY <1>1, <1>2, <1>3, <1>4, <1>5, <1>6, <1>7 DEF LeaderNext

(* Type correctness of the election and the supervisor.                    *)
THEOREM LeaderTypeCorrect == LeaderSpec => []LeaderTypeOK
<1>1. OwnershipInv => LeaderTypeOK BY DEF OwnershipInv
<1> QED BY <1>1, OwnershipInit, OwnershipPreserved, PTL DEF LeaderSpec

(* A flag without the lock is that of a dead session or of a demotion.     *)
THEOREM FlagsNeedTheLock == LeaderSpec => []FlagNeedsLock
<1>1. OwnershipInv => FlagNeedsLock
  BY DEF OwnershipInv, HeldIsOwned, FlagIsHeld, FlagNeedsLock
<1> QED BY <1>1, OwnershipInit, OwnershipPreserved, PTL DEF LeaderSpec

(* Of two leaders at a time, one has a dead session or is stepping down:   *)
(* both cannot own the one lock.                                           *)
THEOREM HealthyLeadersAreAlone == LeaderSpec => []OneHealthyLeader
<1>1. OwnershipInv => OneHealthyLeader
  BY DEF OwnershipInv, HeldIsOwned, FlagIsHeld, OneHealthyLeader
<1> QED BY <1>1, OwnershipInit, OwnershipPreserved, PTL DEF LeaderSpec

(* A supervisor asleep on an open channel agrees with the flag: every flip *)
(* after the capture closes the captured channel, and the flag is read     *)
(* between the capture and the wait.                                       *)
THEOREM FlipsAreNotLost == LeaderSpec => []NoLostFlip
<1> DEFINE Inv == LeaderTypeOK /\ NoLostFlip
<1>1. LeaderInit => Inv
  BY OwnershipInit DEF LeaderInit, OwnershipInv, NoLostFlip
<1>2. Inv /\ [LeaderNext]_leaderVars => Inv'
  <2> SUFFICES ASSUME Inv, [LeaderNext]_leaderVars PROVE NoLostFlip'
    BY LeaderTypesPreserved
  <2> USE DEF LeaderTypeOK, NoLostFlip
  <2>1. CASE UNCHANGED leaderVars
    BY <2>1 DEF leaderVars, electorVars, supervisorVars
  <2>2. CASE \E i \in Instances : Promote(i) \/ Demote(i)
    BY <2>2 DEF Promote, Demote, SetLeader
  <2>3. CASE \E i \in Instances : Gate(i)
    BY <2>3 DEF Gate, Capture, Check, Idle, Recheck, Wake, Recapture, LoopsReturn,
                Exit, Supervise, electorVars
  <2>4. CASE \E i \in Instances : Crash(i)
    BY <2>4 DEF Crash
  <2>5. CASE UNCHANGED <<leader, supervisorVars>>
    BY <2>5 DEF supervisorVars
  <2>6. \A i \in Instances : Elect(i) \/ HookFails(i) =>
          Promote(i) \/ Demote(i) \/ UNCHANGED <<leader, supervisorVars>>
    BY DEF Elect, HookFails, Acquire, TryLock, TryLockFails, RetryHook, HookSucceeds,
           Leave, Release, ProbeFails
  <2>7. Reap \/ (\E i \in Instances : Stop(i) \/ SessionBreaks(i))
          => UNCHANGED <<leader, supervisorVars>>
    BY DEF Reap, Stop, SessionBreaks
  <2> QED BY <2>1, <2>2, <2>3, <2>4, <2>5, <2>6, <2>7 DEF LeaderNext
<1>3. Inv => NoLostFlip OBVIOUS
<1> QED BY <1>1, <1>2, <1>3, PTL DEF LeaderSpec

(* Both together, as the runs check them.                                  *)
THEOREM LeadershipStaysSound == LeaderSpec => []LeadershipIsSound
BY HealthyLeadersAreAlone, FlipsAreNotLost, PTL DEF LeadershipIsSound

------------------------------------------------------------------------------
(* Escalation                                                              *)

ClaimsOK == claims \in Seq(Incidents) /\ IsInjective(claims)

(* The locals of a dispatch: it is about an incident, fails only after a   *)
(* refusal, and has told somebody before it ends without one.              *)
DispatchOK ==
  \A g \in Gateways :
    /\ escPoller[g].at \in {"send", "release", "escalated", "mark"} =>
         escPoller[g].inc \in Incidents
    /\ escPoller[g].at = "send" /\ ~escPoller[g].failed =>
         escPoller[g].left # {} \/ \E c \in Channels \cup {Console} :
                                     <<escPoller[g].inc, c>> \in told
    /\ escPoller[g].at \in {"send", "release"} /\ escPoller[g].failed =>
         escPoller[g].inc \in refused
    /\ escPoller[g].at = "release" => escPoller[g].failed

(* In the table a claim outlives everything but its release, and only its  *)
(* owner acts on it, before the incident counts as dispatched.             *)
OwnershipOK ==
  ledger = "pg" =>
    /\ \A i \in Incidents : dispatched[i] > 0 => Claimed(i)
    /\ \A g \in Gateways, i \in Incidents : Handles(g, i) => Claimed(i) /\ dispatched[i] = 0
    /\ \A g, h \in Gateways, i \in Incidents : Handles(g, i) /\ Handles(h, i) => g = h

(* A channel that was told of an incident nobody refused is not told again:*)
(* the claim stays, and the dispatch behind it is past the channel.        *)
ToldOK ==
  ledger = "pg" =>
    \A i \in Incidents, c \in Channels \cup {Console} :
      <<i, c>> \in told /\ i \notin refused =>
        Claimed(i) /\ \A g \in Gateways : Handles(g, i) => c \notin escPoller[g].left

(* The type invariant, component by component, with what it leaves open:   *)
(* that trigger is a function, of finite sets of seen incidents.           *)
PollerStates ==
  [at : {"idle", "next", "send", "release", "escalated", "mark"},
   todo : SUBSET Incidents, inc : Incidents \cup {NoIncident},
   left : SUBSET (Channels \cup {Console}), failed : BOOLEAN]

ScanTypeOK ==
  /\ stage \in [Incidents -> {"young", "overdue", "acked"}]
  /\ ledger \in {"pg", "mem"}
  /\ escPoller \in [Gateways -> PollerStates]
  /\ toldAgain \subseteq told
  /\ told \subseteq Incidents \X (Channels \cup {Console})
  /\ dispatched \in [Incidents -> 0..2]
  /\ refused \cup struck \subseteq Incidents
  /\ troubles \in 0..MaxTroubles

TriggerStates == [queue : Seq(Incidents), seen : SUBSET Incidents,
                  work : Incidents \cup {NoIncident}]

TriggerOK ==
  /\ trigger \in [Gateways -> TriggerStates]
  /\ audited \subseteq Incidents
  /\ \A g \in Gateways :
       /\ Len(trigger[g].queue) <= TriggerQueue
       /\ IsFiniteSet(trigger[g].seen) /\ Cardinality(trigger[g].seen) <= MaxSeen

DutyInv ==
  /\ ChannelTypeOK
  /\ ScanTypeOK
  /\ ClaimsOK
  /\ TriggerOK
  /\ DispatchOK
  /\ OwnershipOK
  /\ ToldOK
  /\ EscalationIsExact

------------------------------------------------------------------------------
(* The list of claims                                                      *)

LEMMA ClaimIsAdded ==
  ASSUME ClaimsOK, NEW i \in Incidents, ~Claimed(i)
  PROVE  /\ WithClaim(i) \in Seq(Incidents) /\ IsInjective(WithClaim(i))
         /\ ToSet(WithClaim(i)) \subseteq ToSet(claims) \cup {i}
         /\ ledger = "pg" => ToSet(WithClaim(i)) = ToSet(claims) \cup {i}
<1> DEFINE c == Append(claims, i)
<1>1. /\ c \in Seq(Incidents) /\ Len(c) = Len(claims) + 1 /\ Len(c) \in Nat
      /\ \A n \in 1..Len(claims) : c[n] = claims[n] /\ claims[n] # i
      /\ c[Len(claims) + 1] = i
  BY DEF ClaimsOK, Claimed, ToSet
<1>2. IsInjective(c)
  BY <1>1 DEF ClaimsOK, IsInjective
<1>3. ToSet(c) = ToSet(claims) \cup {i}
  BY <1>1 DEF ToSet, ClaimsOK
<1>4. c # <<>>
  BY <1>1
<1> HIDE DEF c
<1>5. /\ Tail(c) \in Seq(Incidents) /\ Len(Tail(c)) = Len(c) - 1
      /\ \A n \in 1..Len(Tail(c)) : Tail(c)[n] = c[n + 1]
  BY <1>1, <1>4
<1>6. IsInjective(Tail(c)) /\ ToSet(Tail(c)) \subseteq ToSet(c)
  BY <1>1, <1>2, <1>5 DEF IsInjective, ToSet
<1>7. \/ WithClaim(i) = c
      \/ ledger = "mem" /\ WithClaim(i) = Tail(c)
  BY DEF WithClaim, c
<1>8. QED
  BY <1>1, <1>2, <1>3, <1>5, <1>6, <1>7

LEMMA ClaimIsRemoved ==
  ASSUME ClaimsOK, NEW i \in Incidents
  PROVE  /\ WithoutClaim(i) \in Seq(Incidents) /\ IsInjective(WithoutClaim(i))
         /\ ToSet(WithoutClaim(i)) = ToSet(claims) \ {i}
<1>1. CASE ~\E n \in 1..Len(claims) : claims[n] = i
  <2>1. WithoutClaim(i) = claims
    BY <1>1 DEF WithoutClaim, RemoveFirst
  <2>2. i \notin ToSet(claims)
    BY <1>1 DEF ToSet, ClaimsOK
  <2>3. QED
    BY <2>1, <2>2 DEF ClaimsOK
<1>2. CASE \E n \in 1..Len(claims) : claims[n] = i
  <2>1. PICK n \in 1..Len(claims) : claims[n] = i
    BY <1>2
  <2>2. {m \in 1..Len(claims) : claims[m] = i} = {n}
    BY <2>1 DEF ClaimsOK, IsInjective
  <2>3. Min({n}) = n
    BY <2>1 DEF Min
  <2>4. SelectInSeq(claims, LAMBDA v : v = i) = n
    BY <2>2, <2>3 DEF SelectInSeq
  <2> DEFINE c == SubSeq(claims, 1, n - 1) \o SubSeq(claims, n + 1, Len(claims))
  <2>5. WithoutClaim(i) = c
    BY <1>2, <2>4 DEF WithoutClaim, RemoveFirst, RemoveAt
  <2>6. /\ c \in Seq(Incidents) /\ Len(c) = Len(claims) - 1
        /\ \A m \in 1..Len(c) : c[m] = IF m < n THEN claims[m] ELSE claims[m + 1]
    <3> DEFINE a == SubSeq(claims, 1, n - 1)
               b == SubSeq(claims, n + 1, Len(claims))
    <3>1. /\ a \in Seq(Incidents) /\ Len(a) = n - 1
          /\ \A m \in 1..Len(a) : a[m] = claims[m]
      BY <2>1 DEF ClaimsOK
    <3>2. /\ b \in Seq(Incidents) /\ Len(b) = Len(claims) - n
          /\ \A m \in 1..Len(b) : b[m] = claims[n + m]
      BY <2>1 DEF ClaimsOK
    <3> HIDE DEF a, b
    <3>3. /\ a \o b \in Seq(Incidents) /\ Len(a \o b) = Len(a) + Len(b)
          /\ \A m \in 1..Len(a) + Len(b) :
               (a \o b)[m] = IF m <= Len(a) THEN a[m] ELSE b[m - Len(a)]
      BY <3>1, <3>2, ConcatProperties, Zenon
    <3>4. c = a \o b
      BY DEF a, b
    <3>5. ASSUME NEW m \in 1..Len(a \o b)
          PROVE  (a \o b)[m] = IF m < n THEN claims[m] ELSE claims[m + 1]
      <4>1. CASE m < n
        BY <2>1, <3>1, <3>2, <3>3, <3>5, <4>1 DEF ClaimsOK
      <4>2. CASE m >= n
        <5>1. m - Len(a) \in 1..Len(b) /\ n + (m - Len(a)) = m + 1
          BY <2>1, <3>1, <3>2, <3>3, <3>5, <4>2 DEF ClaimsOK
        <5>2. (a \o b)[m] = b[m - Len(a)]
          BY <2>1, <3>1, <3>3, <3>5, <4>2 DEF ClaimsOK
        <5>3. b[m - Len(a)] = claims[n + (m - Len(a))]
          BY <3>2, <5>1
        <5>4. QED
          BY <2>1, <4>2, <5>1, <5>2, <5>3 DEF ClaimsOK
      <4>3. QED
        BY <2>1, <3>1, <3>2, <3>3, <4>1, <4>2 DEF ClaimsOK
    <3>6. Len(a \o b) = Len(claims) - 1
      BY <2>1, <3>1, <3>2, <3>3 DEF ClaimsOK
    <3>7. QED
      BY <3>3, <3>4, <3>5, <3>6
  <2> HIDE DEF c
  <2>7. IsInjective(c)
    BY <2>1, <2>6 DEF ClaimsOK, IsInjective
  <2>8. ToSet(c) = ToSet(claims) \ {i}
    <3>1. ToSet(c) \subseteq ToSet(claims) \ {i}
      BY <2>1, <2>6 DEF ClaimsOK, IsInjective, ToSet
    <3>2. ASSUME NEW m \in 1..Len(claims), m # n
          PROVE  \E k \in 1..Len(c) : c[k] = claims[m]
      <4>1. CASE m < n
        BY <2>1, <2>6, <3>2, <4>1 DEF ClaimsOK
      <4>2. CASE m > n
        <5>1. m - 1 \in 1..Len(c) /\ c[m - 1] = claims[m]
          BY <2>1, <2>6, <3>2, <4>2 DEF ClaimsOK
        <5>2. QED
          BY <5>1
      <4>3. QED
        BY <3>2, <4>1, <4>2
    <3>3. ASSUME NEW x \in ToSet(claims), x # i
          PROVE  x \in ToSet(c)
      <4>1. PICK m \in 1..Len(claims) : claims[m] = x
        BY DEF ToSet, ClaimsOK
      <4>2. PICK k \in 1..Len(c) : c[k] = x
        BY <2>1, <3>2, <3>3, <4>1
      <4>3. QED
        BY <2>6, <4>2 DEF ToSet
    <3>4. QED
      BY <3>1, <3>3
  <2>9. QED
    BY <2>5, <2>6, <2>7, <2>8
<1>3. QED
  BY <1>1, <1>2

------------------------------------------------------------------------------
(* The types                                                               *)

LEMMA PollersAreInstances == EscPollers \subseteq Gateways
  BY EscalationAssumption DEF EscPollers, Solo

LEMMA TypesSuffice ==
  ASSUME ChannelTypeOK, ScanTypeOK, ClaimsOK, TriggerOK
  PROVE  DutyTypeOK
<1>1. ToSet(claims) \subseteq Incidents
  BY DEF ClaimsOK, ToSet
<1>2. ASSUME NEW g \in Gateways
      PROVE  /\ Len(trigger[g].queue) <= TriggerQueue
             /\ ToSet(trigger[g].queue) \cup trigger[g].seen \subseteq Incidents
             /\ Cardinality(trigger[g].seen) <= MaxSeen
             /\ trigger[g].work \in Incidents \cup {NoIncident}
  BY DEF TriggerOK, TriggerStates, ToSet
<1>3. audited \subseteq Incidents
  BY DEF TriggerOK
<1>4. QED
  BY <1>1, <1>2, <1>3 DEF DutyTypeOK, ScanTypeOK, PollerStates

LEMMA ReloadKeepsChannelTypes ==
  ASSUME ChannelTypeOK, NEW r \in Requests, Edit(r) \/ ReloadStep(r)
  PROVE  ChannelTypeOK'
<1> USE DEF ChannelTypeOK
<1>1. CASE Edit(r)
  BY <1>1, ChannelAssumption DEF Edit
<1>2. CASE Clear(r)
  BY <1>2 DEF Clear, Reload
<1>3. CASE RegisterConsole(r)
  BY <1>3 DEF RegisterConsole, Reload
<1>4. CASE ListEnabled(r)
  BY <1>4 DEF ListEnabled
<1>5. CASE Register(r)
  BY <1>5 DEF Register
<1>6. CASE ReloadEnds(r)
  BY <1>6 DEF ReloadEnds
<1>7. QED
  BY <1>1, <1>2, <1>3, <1>4, <1>5, <1>6 DEF ReloadStep

(* What a poll does to the scan's own state is of the right types.         *)
LEMMA PollKeepsScanTypes ==
  ASSUME ChannelTypeOK, ScanTypeOK, ClaimsOK, DispatchOK, NEW g \in Gateways, Poll(g)
  PROVE  ScanTypeOK' /\ ClaimsOK'
<1> USE DEF ScanTypeOK
<1>1. EscAtRest \in PollerStates
  BY DEF EscAtRest, PollerStates
<1>2. ASSUME NEW X \in SUBSET Incidents
      PROVE  [EscAtRest EXCEPT !.at = "next", !.todo = X] \in PollerStates
  BY DEF EscAtRest, PollerStates
<1>3. escPoller[g] \in PollerStates /\ escPoller[g].todo \in SUBSET Incidents
  BY DEF PollerStates
<1>4. Trouble => troubles' \in 0..MaxTroubles
  BY EscalationAssumption DEF Trouble
<1>5. CASE Scan(g)
  BY <1>2, <1>5 DEF Scan, Goes, ClaimsOK
<1>6. CASE ScanEnds(g)
  BY <1>1, <1>6 DEF ScanEnds, Goes, ClaimsOK
<1>7. CASE DispatchEnds(g)
  <2>1. escPoller[g].inc \in Incidents
    BY <1>7 DEF DispatchEnds, DispatchOK
  <2>2. /\ [escPoller[g] EXCEPT !.at = "release"] \in PollerStates
        /\ [escPoller[g] EXCEPT !.at = "escalated"] \in PollerStates
    BY <1>3 DEF PollerStates
  <2>3. escPoller' \in [Gateways -> PollerStates] /\ dispatched' \in [Incidents -> 0..2]
    BY <1>7, <2>1, <2>2 DEF DispatchEnds, Goes
  <2>4. QED
    BY <1>7, <2>3 DEF DispatchEnds, ClaimsOK
<1>8. CASE ReleaseClaim(g)
  <2>1. escPoller[g].inc \in Incidents
    BY <1>8 DEF ReleaseClaim, DispatchOK
  <2>2. ClaimsOK'
    BY <1>8, <2>1, ClaimIsRemoved DEF ReleaseClaim, ClaimsOK
  <2>3. ScanTypeOK'
    BY <1>2, <1>3, <1>4, <1>8, <2>1 DEF ReleaseClaim, Goes
  <2>4. QED
    BY <2>2, <2>3
<1>9. CASE OnEscalate(g)
  <2>1. [escPoller[g] EXCEPT !.at = "mark"] \in PollerStates
    BY <1>3 DEF PollerStates
  <2>2. escPoller' \in [Gateways -> PollerStates]
    BY <1>2, <1>3, <1>9, <2>1 DEF OnEscalate, Goes
  <2>3. QED
    BY <1>9, <2>2 DEF OnEscalate, ClaimsOK
<1>10. CASE MarkSeen(g)
  BY <1>2, <1>3, <1>10 DEF MarkSeen, Goes, ClaimsOK
<1>11. ASSUME NEW i \in Incidents, Claim(g, i)
       PROVE  ScanTypeOK' /\ ClaimsOK'
  <2>1. ClaimsOK'
    BY <1>11, ClaimIsAdded DEF Claim, ClaimsOK
  <2>2. ChannelsFor(g, Severity[i]) \in SUBSET (Channels \cup {Console})
    BY DEF ChannelsFor, ChannelTypeOK
  <2> DEFINE chs == ChannelsFor(g, Severity[i])
             s == [escPoller[g] EXCEPT !.todo = @ \ {i}, !.inc = i, !.left = chs,
                                       !.at = "send", !.failed = (chs = {})]
  <2>3. s \in PollerStates
    <3> HIDE DEF chs
    <3>1. (chs = {}) \in BOOLEAN /\ chs \in SUBSET (Channels \cup {Console})
      BY <2>2 DEF chs
    <3>2. QED
      BY <1>3, <3>1 DEF PollerStates
  <2>4. QED
    BY <1>11, <2>1, <2>3 DEF Claim, Goes
<1>12. ASSUME NEW i \in Incidents, Pass(g, i)
       PROVE  ScanTypeOK' /\ ClaimsOK'
  <2>1. ClaimsOK'
    BY <1>12, ClaimIsAdded DEF Pass, ClaimsOK
  <2>2. [escPoller[g] EXCEPT !.todo = @ \ {i}] \in PollerStates
    BY <1>3 DEF PollerStates
  <2>3. QED
    BY <1>4, <1>12, <2>1, <2>2 DEF Pass, Goes
<1>13. ASSUME NEW c \in Channels \cup {Console}, SendToChannel(g, c)
       PROVE  ScanTypeOK' /\ ClaimsOK'
  <2>1. escPoller[g].inc \in Incidents
    BY <1>13 DEF SendToChannel, DispatchOK
  <2>2. /\ [escPoller[g] EXCEPT !.left = @ \ {c}] \in PollerStates
        /\ [escPoller[g] EXCEPT !.left = @ \ {c}, !.failed = TRUE] \in PollerStates
    BY <1>3 DEF PollerStates
  <2>3. ClaimsOK'
    BY <1>13 DEF SendToChannel, ClaimsOK
  <2>4. escPoller' \in [Gateways -> PollerStates]
    BY <1>13, <2>2 DEF SendToChannel, Goes
  <2>5. toldAgain' \subseteq told' /\ told' \subseteq Incidents \X (Channels \cup {Console})
    BY <1>13, <2>1 DEF SendToChannel
  <2>6. refused' \subseteq Incidents /\ troubles' \in 0..MaxTroubles
    BY <1>4, <1>13, <2>1 DEF SendToChannel
  <2>7. QED
    BY <1>13, <2>3, <2>4, <2>5, <2>6 DEF SendToChannel
<1>14. QED
  BY <1>5, <1>6, <1>7, <1>8, <1>9, <1>10, <1>11, <1>12, <1>13 DEF Poll

(* The queue and the set of seen ids stay within their limits.             *)
LEMMA TriggerStaysBounded ==
  ASSUME TriggerOK, ScanTypeOK, DispatchOK, NEW g \in Gateways, Poll(g) \/ Work(g)
  PROVE  TriggerOK'
<1>1. /\ trigger[g] \in TriggerStates /\ Len(trigger[g].queue) <= TriggerQueue
      /\ IsFiniteSet(trigger[g].seen) /\ Cardinality(trigger[g].seen) <= MaxSeen
  BY DEF TriggerOK
<1>2. ASSUME NEW t \in TriggerStates, trigger' = [trigger EXCEPT ![g] = t],
             audited' \subseteq Incidents, Len(t.queue) <= TriggerQueue,
             IsFiniteSet(t.seen), Cardinality(t.seen) <= MaxSeen
      PROVE  TriggerOK'
  BY <1>2 DEF TriggerOK
<1>3. UNCHANGED triggerVars => TriggerOK'
  BY DEF TriggerOK, triggerVars
<1>4. CASE OnEscalate(g)
  <2> DEFINE t == [trigger[g] EXCEPT !.queue = Append(@, escPoller[g].inc)]
  <2>1. escPoller[g].inc \in Incidents
    BY <1>4 DEF OnEscalate, DispatchOK
  <2>2. CASE trigger' = [trigger EXCEPT ![g].queue = Append(@, escPoller[g].inc)]
             /\ Len(trigger[g].queue) < TriggerQueue
    <3>1. trigger' = [trigger EXCEPT ![g] = t]
      BY <2>2
    <3>2. /\ t \in TriggerStates /\ t.seen = trigger[g].seen
          /\ t.queue = Append(trigger[g].queue, escPoller[g].inc)
      <4> DEFINE q == Append(trigger[g].queue, escPoller[g].inc)
      <4>1. q \in Seq(Incidents)
        BY <1>1, <2>1 DEF TriggerStates
      <4>2. t = [trigger[g] EXCEPT !.queue = q]
        OBVIOUS
      <4> HIDE DEF q, t
      <4>3. t \in TriggerStates /\ t.seen = trigger[g].seen /\ t.queue = q
        BY <1>1, <4>1, <4>2 DEF TriggerStates
      <4>4. QED
        BY <4>3 DEF q
    <3>3. Len(t.queue) <= TriggerQueue
      <4>1. trigger[g].queue \in Seq(Incidents) /\ Len(trigger[g].queue) \in Nat
        BY <1>1 DEF TriggerStates
      <4>2. Len(t.queue) = Len(trigger[g].queue) + 1
        BY <2>1, <3>2, <4>1
      <4>3. QED
        BY <2>2, <4>1, <4>2, EscalationAssumption
    <3>4. QED
      BY <1>1, <1>2, <1>4, <3>1, <3>2, <3>3 DEF OnEscalate, TriggerOK
  <2>3. CASE UNCHANGED trigger
    BY <1>3, <1>4, <2>3 DEF OnEscalate, triggerVars
  <2>4. QED
    BY <1>4, <2>2, <2>3 DEF OnEscalate
<1>5. CASE MarkSeen(g)
  <2> DEFINE all == trigger[g].seen \cup {escPoller[g].inc}
             kept == IF Cardinality(all) > MaxSeen THEN {} ELSE all
             t == [trigger[g] EXCEPT !.seen = kept]
  <2>1. escPoller[g].inc \in Incidents
    BY <1>5 DEF MarkSeen, DispatchOK
  <2>2. IsFiniteSet(all) /\ all \subseteq Incidents /\ Cardinality(all) \in Nat
    BY <1>1, <2>1, FS_AddElement, FS_CardinalityType DEF TriggerStates
  <2>3. IsFiniteSet(kept) /\ kept \subseteq Incidents /\ Cardinality(kept) <= MaxSeen
    BY <2>2, FS_EmptySet, EscalationAssumption
  <2>4. trigger' = [trigger EXCEPT ![g] = t]
    BY <1>5 DEF MarkSeen
  <2> HIDE DEF kept
  <2>5. t \in TriggerStates /\ t.queue = trigger[g].queue /\ t.seen = kept
    BY <1>1, <2>3 DEF TriggerStates
  <2>6. QED
    BY <1>1, <1>2, <1>5, <2>3, <2>4, <2>5 DEF MarkSeen, TriggerOK
<1>6. CASE TakeTriggered(g)
  <2>1. PICK w \in Incidents \cup {NoIncident} :
          trigger' = [trigger EXCEPT ![g] = [trigger[g] EXCEPT !.queue = Tail(@), !.work = w]]
    <3>1. Head(trigger[g].queue) \in Incidents
      BY <1>1, <1>6 DEF TakeTriggered, TriggerStates
    <3>2. trigger[g] = [trigger[g] EXCEPT !.work = NoIncident]
      BY <1>1, <1>6 DEF TakeTriggered, TriggerStates
    <3>3. CASE trigger' = [trigger EXCEPT ![g].queue = Tail(@)]
      BY <1>1, <3>2, <3>3 DEF TriggerStates
    <3>4. CASE \E w \in {NoIncident, Head(trigger[g].queue)} :
                 trigger' = [trigger EXCEPT ![g].queue = Tail(@), ![g].work = w]
      BY <1>1, <3>1, <3>4 DEF TriggerStates, TriggerOK
    <3>5. QED
      BY <1>6, <3>3, <3>4 DEF TakeTriggered
  <2> DEFINE t == [trigger[g] EXCEPT !.queue = Tail(@), !.work = w]
  <2>2. /\ Tail(trigger[g].queue) \in Seq(Incidents)
        /\ Len(Tail(trigger[g].queue)) = Len(trigger[g].queue) - 1
        /\ Len(trigger[g].queue) \in Nat
    BY <1>1, <1>6 DEF TakeTriggered, TriggerStates
  <2>3. t \in TriggerStates /\ t.queue = Tail(trigger[g].queue) /\ t.seen = trigger[g].seen
    BY <1>1, <2>2 DEF TriggerStates
  <2>4. Len(t.queue) <= TriggerQueue
    BY <1>1, <2>2, <2>3, EscalationAssumption
  <2> HIDE DEF t
  <2>5. QED
    BY <1>1, <1>2, <1>6, <2>1, <2>3, <2>4 DEF TakeTriggered, TriggerOK, t
<1>7. CASE Analyse(g)
  <2> DEFINE t == [trigger[g] EXCEPT !.work = NoIncident]
  <2>1. trigger' = [trigger EXCEPT ![g] = t]
    BY <1>7 DEF Analyse
  <2>2. t \in TriggerStates /\ t.queue = trigger[g].queue /\ t.seen = trigger[g].seen
    BY <1>1 DEF TriggerStates
  <2>3. audited' \subseteq Incidents
    BY <1>1, <1>7 DEF Analyse, TriggerOK, TriggerStates
  <2>4. QED
    BY <1>1, <1>2, <2>1, <2>2, <2>3
<1>8. CASE \/ Scan(g) \/ ScanEnds(g) \/ DispatchEnds(g) \/ ReleaseClaim(g)
           \/ \E i \in Incidents : Claim(g, i) \/ Pass(g, i)
           \/ \E c \in Channels \cup {Console} : SendToChannel(g, c)
  BY <1>3, <1>8 DEF Scan, ScanEnds, DispatchEnds, ReleaseClaim, Claim, Pass, SendToChannel
<1>9. QED
  BY <1>4, <1>5, <1>6, <1>7, <1>8 DEF Poll, Work
------------------------------------------------------------------------------
(* Escalation is exact                                                     *)

Exactly == DispatchOK /\ OwnershipOK /\ ToldOK /\ EscalationIsExact

(* The locals of the pollers count through what they handle and remember.  *)
LEMMA QuietMoveIsExact ==
  ASSUME ScanTypeOK, Exactly, NEW g \in Gateways, NEW s \in PollerStates,
         escPoller[g].at \notin {"send", "release"},
         escPoller' = [escPoller EXCEPT ![g] = s],
         s.at \notin {"send", "release"},
         s.at \in {"escalated", "mark"} => s.inc \in Incidents,
         UNCHANGED <<ledger, claims, told, toldAgain, dispatched, refused, struck>>
  PROVE  Exactly'
<1>1. /\ escPoller'[g] = s
      /\ \A h \in Gateways : h # g => escPoller'[h] = escPoller[h]
  BY DEF ScanTypeOK
<1>2. \A h \in Gateways, i \in Incidents : Handles(h, i)' <=> Handles(h, i)
  BY <1>1 DEF Handles
<1>3. \A i \in Incidents : Claimed(i)' <=> Claimed(i)
  BY DEF Claimed
<1>4. DispatchOK'
  BY <1>1 DEF Exactly, DispatchOK
<1>5. OwnershipOK'
  BY <1>2, <1>3 DEF Exactly, OwnershipOK
<1>6. ToldOK'
  BY <1>1, <1>2, <1>3 DEF Exactly, ToldOK, Handles
<1>7. EscalationIsExact'
  BY <1>2, <1>3 DEF Exactly, EscalationIsExact, EscalatedOnce, ClaimsAreBacked,
                    ToldAgainOnlyIfRefused
<1>8. QED
  BY <1>4, <1>5, <1>6, <1>7 DEF Exactly

(* Claim: nobody holds the incident; if no channel takes it, it is refused.*)
LEMMA ClaimIsExact ==
  ASSUME ScanTypeOK, ClaimsOK, Exactly, NEW g \in Gateways, NEW i \in Incidents, Claim(g, i)
  PROVE  Exactly'
<1> DEFINE chs == ChannelsFor(g, Severity[i])
           s == [escPoller[g] EXCEPT !.todo = @ \ {i}, !.inc = i, !.left = chs,
                                     !.at = "send", !.failed = (chs = {})]
<1>1. /\ escPoller' = [escPoller EXCEPT ![g] = s]
      /\ escPoller[g].at = "next"
      /\ UNCHANGED <<ledger, told, toldAgain, dispatched, struck>>
      /\ refused' = IF chs = {} THEN refused \cup {i} ELSE refused
  BY DEF Claim, Goes
<1>2. s.inc = i /\ s.left = chs /\ s.at = "send" /\ (s.failed <=> chs = {})
  BY DEF ScanTypeOK, PollerStates
<1> HIDE DEF s, chs
<1>3. /\ escPoller'[g] = s
      /\ \A h \in Gateways : h # g => escPoller'[h] = escPoller[h]
  BY <1>1 DEF ScanTypeOK
<1>4. \A h \in Gateways, k \in Incidents :
        Handles(h, k)' <=> Handles(h, k) \/ (h = g /\ k = i)
  BY <1>1, <1>2, <1>3 DEF Handles
<1>5. ~Claimed(i)
  BY DEF Claim
<1>6. /\ \A k \in Incidents : Claimed(k)' => Claimed(k) \/ k = i
      /\ ledger = "pg" => \A k \in Incidents : Claimed(k)' <=> Claimed(k) \/ k = i
  <2>1. claims' = WithClaim(i)
    BY DEF Claim
  <2>2. /\ ToSet(claims') \subseteq ToSet(claims) \cup {i}
        /\ ledger = "pg" => ToSet(claims') = ToSet(claims) \cup {i}
    BY <1>5, <2>1, ClaimIsAdded
  <2>3. QED
    BY <2>2 DEF Claimed
<1>7. DispatchOK'
  <2>1. chs = {} => i \in refused'
    BY <1>1
  <2>2. refused \subseteq refused'
    BY <1>1
  <2>3. QED
    BY <1>1, <1>2, <1>3, <2>1, <2>2 DEF Exactly, DispatchOK
<1>8. OwnershipOK'
  <2>1. SUFFICES ASSUME ledger = "pg"
                 PROVE  OwnershipOK'
    BY <1>1 DEF OwnershipOK
  <2>2. /\ dispatched[i] = 0
        /\ \A h \in Gateways : ~Handles(h, i)
    BY <1>5, <2>1 DEF Exactly, OwnershipOK, ScanTypeOK
  <2>3. \A k \in Incidents : dispatched'[k] > 0 => Claimed(k)'
    BY <1>1, <1>6, <2>1 DEF Exactly, OwnershipOK
  <2>4. \A h \in Gateways, k \in Incidents : Handles(h, k)' => Claimed(k)' /\ dispatched'[k] = 0
    BY <1>1, <1>4, <1>6, <2>1, <2>2 DEF Exactly, OwnershipOK
  <2>5. \A h1, h2 \in Gateways, k \in Incidents : Handles(h1, k)' /\ Handles(h2, k)' => h1 = h2
    BY <1>4, <2>1, <2>2 DEF Exactly, OwnershipOK
  <2>6. QED
    BY <2>3, <2>4, <2>5 DEF OwnershipOK
<1>9. ToldOK'
  <2>1. SUFFICES ASSUME ledger = "pg", NEW k \in Incidents, NEW c \in Channels \cup {Console},
                        <<k, c>> \in told, k \notin refused
                 PROVE  Claimed(k)' /\ \A h \in Gateways : Handles(h, k)' => c \notin escPoller'[h].left
    BY <1>1 DEF ToldOK
  <2>2. Claimed(k) /\ k # i
    BY <1>5, <2>1 DEF Exactly, ToldOK
  <2>3. Claimed(k)'
    BY <1>6, <2>1, <2>2
  <2>4. ASSUME NEW h \in Gateways, Handles(h, k)'
        PROVE  c \notin escPoller'[h].left
    <3>1. Handles(h, k)
      BY <1>4, <2>2, <2>4
    <3>2. h # g
      BY <1>1, <3>1 DEF Handles
    <3>3. QED
      BY <1>3, <2>1, <3>1, <3>2 DEF Exactly, ToldOK
  <2>5. QED
    BY <2>3, <2>4
<1>10. EscalationIsExact'
  <2>1. EscalatedOnce'
    BY <1>1 DEF Exactly, EscalationIsExact, EscalatedOnce
  <2>2. ClaimsAreBacked'
    BY <1>1, <1>4, <1>6 DEF Exactly, EscalationIsExact, ClaimsAreBacked
  <2>3. ToldAgainOnlyIfRefused'
    BY <1>1 DEF Exactly, EscalationIsExact, ToldAgainOnlyIfRefused
  <2>4. QED
    BY <2>1, <2>2, <2>3 DEF EscalationIsExact
<1>11. QED
  BY <1>7, <1>8, <1>9, <1>10 DEF Exactly
(* Pass: at most a claim nobody acts on is left behind, and it is struck.  *)
LEMMA PassIsExact ==
  ASSUME ScanTypeOK, ClaimsOK, Exactly, NEW g \in Gateways, NEW i \in Incidents, Pass(g, i)
  PROVE  Exactly'
<1> DEFINE s == [escPoller[g] EXCEPT !.todo = @ \ {i}]
<1>1. /\ escPoller' = [escPoller EXCEPT ![g] = s]
      /\ escPoller[g].at = "next"
      /\ UNCHANGED <<ledger, told, toldAgain, dispatched, refused>>
  BY DEF Pass, Goes
<1>2. s.at = "next" /\ s \in PollerStates
  BY <1>1 DEF ScanTypeOK, PollerStates
<1> HIDE DEF s
<1>3. CASE UNCHANGED <<claims, struck>>
  BY <1>1, <1>2, <1>3, QuietMoveIsExact
<1>4. CASE /\ ledger = "pg" /\ ~Claimed(i)
           /\ claims' = WithClaim(i) /\ struck' = struck \cup {i}
  <2>1. /\ escPoller'[g] = s
        /\ \A h \in Gateways : h # g => escPoller'[h] = escPoller[h]
    BY <1>1 DEF ScanTypeOK
  <2>2. \A h \in Gateways, k \in Incidents : Handles(h, k)' <=> Handles(h, k)
    BY <1>1, <1>2, <2>1 DEF Handles
  <2>3. ToSet(claims') = ToSet(claims) \cup {i}
    BY <1>4, ClaimIsAdded
  <2>4. \A k \in Incidents : Claimed(k)' <=> Claimed(k) \/ k = i
    BY <2>3 DEF Claimed
  <2>5. DispatchOK'
    BY <1>1, <1>2, <2>1 DEF Exactly, DispatchOK
  <2>6. OwnershipOK'
    BY <1>1, <2>2, <2>4 DEF Exactly, OwnershipOK
  <2>7. ToldOK'
    BY <1>1, <1>2, <2>1, <2>2, <2>4 DEF Exactly, ToldOK, Handles
  <2>8. EscalationIsExact'
    BY <1>1, <1>4, <2>2, <2>4 DEF Exactly, EscalationIsExact, EscalatedOnce, ClaimsAreBacked,
                                  ToldAgainOnlyIfRefused
  <2>9. QED
    BY <2>5, <2>6, <2>7, <2>8 DEF Exactly
<1>5. QED
  BY <1>3, <1>4 DEF Pass

(* SendToChannel: a channel still to be told, and told before, means that  *)
(* somebody has refused the incident.                                      *)
LEMMA SendIsExact ==
  ASSUME ScanTypeOK, Exactly, NEW g \in Gateways, NEW c \in Channels \cup {Console},
         SendToChannel(g, c)
  PROVE  Exactly'
<1> DEFINE i == escPoller[g].inc
<1>1. /\ escPoller[g].at = "send" /\ c \in escPoller[g].left
      /\ i \in Incidents /\ Handles(g, i)
      /\ UNCHANGED <<ledger, claims, dispatched, struck>>
  BY DEF SendToChannel, Exactly, DispatchOK, Handles
<1>2. PICK s \in PollerStates :
        /\ escPoller' = [escPoller EXCEPT ![g] = s]
        /\ s.at = "send" /\ s.inc = i /\ s.left = escPoller[g].left \ {c}
        /\ \/ /\ ~s.failed <=> ~escPoller[g].failed
              /\ told' = told \cup {<<i, c>>}
              /\ toldAgain' = toldAgain \cup ({<<i, c>>} \cap told)
              /\ refused' = refused
           \/ /\ s.failed
              /\ refused' = refused \cup {i} /\ told' = told /\ toldAgain' = toldAgain
  <2> DEFINE a == [escPoller[g] EXCEPT !.left = @ \ {c}]
             b == [escPoller[g] EXCEPT !.left = @ \ {c}, !.failed = TRUE]
  <2>1. /\ a \in PollerStates /\ a.at = "send" /\ a.inc = i
        /\ a.left = escPoller[g].left \ {c} /\ a.failed = escPoller[g].failed
    BY <1>1 DEF ScanTypeOK, PollerStates
  <2>2. /\ b \in PollerStates /\ b.at = "send" /\ b.inc = i
        /\ b.left = escPoller[g].left \ {c} /\ b.failed = TRUE
    BY <1>1 DEF ScanTypeOK, PollerStates
  <2>3. CASE /\ told' = told \cup {<<i, c>>}
             /\ toldAgain' = toldAgain \cup ({<<i, c>>} \cap told)
             /\ escPoller' = [escPoller EXCEPT ![g] = a]
             /\ refused' = refused
    BY <2>1, <2>3
  <2>4. CASE /\ refused' = refused \cup {i}
             /\ escPoller' = [escPoller EXCEPT ![g] = b]
             /\ told' = told /\ toldAgain' = toldAgain
    BY <2>2, <2>4
  <2>5. QED
    BY <2>3, <2>4 DEF SendToChannel, Goes
<1>3. /\ escPoller'[g] = s
      /\ \A h \in Gateways : h # g => escPoller'[h] = escPoller[h]
  BY <1>2 DEF ScanTypeOK
<1>4. \A h \in Gateways, k \in Incidents : Handles(h, k)' <=> Handles(h, k)
  BY <1>1, <1>2, <1>3 DEF Handles
<1>5. \A k \in Incidents : Claimed(k)' <=> Claimed(k)
  BY <1>1 DEF Claimed
<1>6. told \subseteq told' /\ refused \subseteq refused'
  BY <1>2
<1>7. DispatchOK'
  <2>1. ~s.failed => ~escPoller[g].failed /\ <<i, c>> \in told'
    BY <1>2
  <2>2. s.failed => i \in refused'
    BY <1>1, <1>2 DEF Exactly, DispatchOK
  <2>3. QED
    BY <1>1, <1>2, <1>3, <1>6, <2>1, <2>2 DEF Exactly, DispatchOK
<1>8. OwnershipOK'
  BY <1>1, <1>4, <1>5 DEF Exactly, OwnershipOK
<1>9. ToldOK'
  <2>1. SUFFICES ASSUME ledger = "pg", NEW k \in Incidents, NEW d \in Channels \cup {Console},
                        <<k, d>> \in told', k \notin refused'
                 PROVE  Claimed(k)' /\ \A h \in Gateways : Handles(h, k)' => d \notin escPoller'[h].left
    BY <1>1 DEF ToldOK
  <2>2. CASE <<k, d>> \in told
    <3>1. /\ Claimed(k)
          /\ \A h \in Gateways : Handles(h, k) => d \notin escPoller[h].left
      BY <1>6, <2>1, <2>2 DEF Exactly, ToldOK
    <3>2. \A h \in Gateways : escPoller'[h].left \subseteq escPoller[h].left
      BY <1>2, <1>3
    <3>3. QED
      BY <1>4, <1>5, <3>1, <3>2
  <2>3. CASE k = i /\ d = c
    <3>1. \A h \in Gateways : Handles(h, k) => h = g
      BY <1>1, <2>1, <2>3 DEF Exactly, OwnershipOK
    <3>2. Claimed(k)
      BY <1>1, <2>1, <2>3 DEF Exactly, OwnershipOK
    <3>3. QED
      BY <1>2, <1>3, <1>4, <1>5, <2>3, <3>1, <3>2
  <2>4. QED
    BY <1>2, <2>1, <2>2, <2>3
<1>10. EscalationIsExact'
  <2>1. EscalatedOnce'
    BY <1>1 DEF Exactly, EscalationIsExact, EscalatedOnce
  <2>2. ClaimsAreBacked'
    BY <1>1, <1>4, <1>5, <1>6 DEF Exactly, EscalationIsExact, ClaimsAreBacked
  <2>3. ToldAgainOnlyIfRefused'
    <3>1. ledger = "pg" /\ <<i, c>> \in told => i \in refused
      BY <1>1 DEF Exactly, ToldOK
    <3>2. ToldAgainOnlyIfRefused
      BY DEF Exactly, EscalationIsExact
    <3>3. \A t \in toldAgain' : t \in toldAgain \/ (t = <<i, c>> /\ <<i, c>> \in told)
      BY <1>2
    <3>4. QED
      BY <1>1, <1>6, <3>1, <3>2, <3>3 DEF ToldAgainOnlyIfRefused
  <2>4. QED
    BY <2>1, <2>2, <2>3 DEF EscalationIsExact
<1>11. QED
  BY <1>7, <1>8, <1>9, <1>10 DEF Exactly

(* DispatchEnds: without a refusal somebody was told, and over a table it  *)
(* is the first dispatch to get this far.                                  *)
LEMMA DispatchEndIsExact ==
  ASSUME ScanTypeOK, Exactly, NEW g \in Gateways, DispatchEnds(g)
  PROVE  Exactly'
<1> DEFINE i == escPoller[g].inc
<1>1. /\ escPoller[g].at = "send" /\ escPoller[g].left = {}
      /\ i \in Incidents /\ Handles(g, i)
      /\ UNCHANGED <<ledger, claims, told, toldAgain, refused, struck>>
  BY DEF DispatchEnds, Exactly, DispatchOK, Handles
<1>2. \A k \in Incidents : Claimed(k)' <=> Claimed(k)
  BY <1>1 DEF Claimed
<1>3. CASE escPoller[g].failed
  <2> DEFINE s == [escPoller[g] EXCEPT !.at = "release"]
  <2>1. escPoller' = [escPoller EXCEPT ![g] = s] /\ UNCHANGED dispatched
    BY <1>3 DEF DispatchEnds, Failed, Goes
  <2>2. /\ s.at = "release" /\ s.inc = i /\ s.left = escPoller[g].left
        /\ s.failed = escPoller[g].failed
    BY <1>3 DEF ScanTypeOK, PollerStates
  <2> HIDE DEF s
  <2>3. /\ escPoller'[g] = s
        /\ \A h \in Gateways : h # g => escPoller'[h] = escPoller[h]
    BY <2>1 DEF ScanTypeOK
  <2>4. \A h \in Gateways, k \in Incidents : Handles(h, k)' <=> Handles(h, k)
    BY <1>1, <2>2, <2>3 DEF Handles
  <2>5. DispatchOK'
    BY <1>1, <1>3, <2>2, <2>3 DEF Exactly, DispatchOK
  <2>6. OwnershipOK'
    BY <1>1, <1>2, <2>1, <2>4 DEF Exactly, OwnershipOK
  <2>7. ToldOK'
    BY <1>1, <1>2, <2>2, <2>3, <2>4 DEF Exactly, ToldOK
  <2>8. EscalationIsExact'
    BY <1>1, <1>2, <2>1, <2>4 DEF Exactly, EscalationIsExact, EscalatedOnce, ClaimsAreBacked,
                                  ToldAgainOnlyIfRefused
  <2>9. QED
    BY <2>5, <2>6, <2>7, <2>8 DEF Exactly
<1>4. CASE ~escPoller[g].failed
  <2> DEFINE s == [escPoller[g] EXCEPT !.at = "escalated"]
  <2>1. /\ escPoller' = [escPoller EXCEPT ![g] = s]
        /\ dispatched' = [dispatched EXCEPT ![i] = IF @ < 2 THEN @ + 1 ELSE 2]
    BY <1>4 DEF DispatchEnds, Failed, Goes
  <2>2. s.at = "escalated" /\ s.inc = i
    BY DEF ScanTypeOK, PollerStates
  <2> HIDE DEF s
  <2>3. /\ escPoller'[g] = s
        /\ \A h \in Gateways : h # g => escPoller'[h] = escPoller[h]
    BY <2>1 DEF ScanTypeOK
  <2>4. \A h \in Gateways, k \in Incidents : Handles(h, k)' <=> Handles(h, k) /\ h # g
    BY <2>2, <2>3 DEF Handles
  <2>5. /\ \A k \in Incidents : k # i => dispatched'[k] = dispatched[k]
        /\ dispatched[i] \in 0..2 /\ dispatched'[i] > 0
        /\ dispatched[i] = 0 => dispatched'[i] = 1
    BY <1>1, <2>1 DEF ScanTypeOK
  <2>6. \E c \in Channels \cup {Console} : <<i, c>> \in told
    BY <1>1, <1>4 DEF Exactly, DispatchOK
  <2>7. DispatchOK'
    BY <1>1, <2>2, <2>3 DEF Exactly, DispatchOK
  <2>8. OwnershipOK'
    <3>1. SUFFICES ASSUME ledger = "pg"
                   PROVE  OwnershipOK'
      BY <1>1 DEF OwnershipOK
    <3>2. /\ Claimed(i)
          /\ \A h \in Gateways : Handles(h, i) => h = g
      BY <1>1, <3>1 DEF Exactly, OwnershipOK
    <3>3. \A k \in Incidents : dispatched'[k] > 0 => Claimed(k)'
      BY <1>2, <2>5, <3>1, <3>2 DEF Exactly, OwnershipOK
    <3>4. \A h \in Gateways, k \in Incidents : Handles(h, k)' => Claimed(k)' /\ dispatched'[k] = 0
      BY <1>2, <2>4, <2>5, <3>1, <3>2 DEF Exactly, OwnershipOK
    <3>5. \A h1, h2 \in Gateways, k \in Incidents : Handles(h1, k)' /\ Handles(h2, k)' => h1 = h2
      BY <2>4, <3>1 DEF Exactly, OwnershipOK
    <3>6. QED
      BY <3>3, <3>4, <3>5 DEF OwnershipOK
  <2>9. ToldOK'
    BY <1>1, <1>2, <2>3, <2>4 DEF Exactly, ToldOK
  <2>10. EscalationIsExact'
    <3>1. EscalatedOnce'
      <4>1. ledger = "pg" => dispatched[i] = 0
        BY <1>1 DEF Exactly, OwnershipOK
      <4>2. QED
        BY <1>1, <2>5, <4>1 DEF Exactly, EscalationIsExact, EscalatedOnce
    <3>2. ClaimsAreBacked'
      BY <1>1, <1>2, <2>4, <2>5, <2>6 DEF Exactly, EscalationIsExact, ClaimsAreBacked, Handles
    <3>3. ToldAgainOnlyIfRefused'
      BY <1>1 DEF Exactly, EscalationIsExact, ToldAgainOnlyIfRefused
    <3>4. QED
      BY <3>1, <3>2, <3>3 DEF EscalationIsExact
  <2>11. QED
    BY <2>7, <2>8, <2>9, <2>10 DEF Exactly
<1>5. QED
  BY <1>3, <1>4
(* ReleaseClaim: only a refused incident is released, by its one owner.    *)
LEMMA ReleaseIsExact ==
  ASSUME ScanTypeOK, ClaimsOK, Exactly, NEW g \in Gateways, ReleaseClaim(g)
  PROVE  Exactly'
<1>0. PICK i \in Incidents : i = escPoller[g].inc
  BY DEF ReleaseClaim, Exactly, DispatchOK
<1> DEFINE s == [EscAtRest EXCEPT !.at = "next", !.todo = escPoller[g].todo]
<1>1. /\ escPoller[g].at = "release" /\ Handles(g, i)
      /\ i \in Incidents /\ i \in refused
      /\ escPoller' = [escPoller EXCEPT ![g] = s]
      /\ UNCHANGED <<ledger, told, toldAgain, dispatched, refused>>
      /\ struck \subseteq struck'
  BY <1>0 DEF ReleaseClaim, Goes, Exactly, DispatchOK, Handles
<1>2. s.at = "next"
  BY DEF EscAtRest
<1> HIDE DEF s
<1>3. /\ escPoller'[g] = s
      /\ \A h \in Gateways : h # g => escPoller'[h] = escPoller[h]
  BY <1>1 DEF ScanTypeOK
<1>4. \A h \in Gateways, k \in Incidents : Handles(h, k)' <=> Handles(h, k) /\ h # g
  BY <1>2, <1>3 DEF Handles
<1>5. /\ \A k \in Incidents : k # i => (Claimed(k)' <=> Claimed(k))
      /\ Claimed(i)' => i \in struck'
  <2>1. CASE claims' = WithoutClaim(i)
    <3>1. ToSet(claims') = ToSet(claims) \ {i}
      BY <1>1, <2>1, ClaimIsRemoved
    <3>2. QED
      BY <3>1 DEF Claimed
  <2>2. CASE struck' = struck \cup {i} /\ UNCHANGED claims
    BY <2>2 DEF Claimed
  <2>3. QED
    BY <1>0, <2>1, <2>2 DEF ReleaseClaim
<1>6. DispatchOK'
  BY <1>1, <1>2, <1>3 DEF Exactly, DispatchOK
<1>7. OwnershipOK'
  <2>1. SUFFICES ASSUME ledger = "pg"
                 PROVE  OwnershipOK'
    BY <1>1 DEF OwnershipOK
  <2>2. /\ dispatched[i] = 0
        /\ \A h \in Gateways : Handles(h, i) => h = g
    BY <1>1, <2>1 DEF Exactly, OwnershipOK
  <2>3. \A k \in Incidents : dispatched'[k] > 0 => Claimed(k)'
    BY <1>1, <1>5, <2>1, <2>2 DEF Exactly, OwnershipOK
  <2>4. \A h \in Gateways, k \in Incidents : Handles(h, k)' => Claimed(k)' /\ dispatched'[k] = 0
    BY <1>1, <1>4, <1>5, <2>1, <2>2 DEF Exactly, OwnershipOK
  <2>5. \A h1, h2 \in Gateways, k \in Incidents : Handles(h1, k)' /\ Handles(h2, k)' => h1 = h2
    BY <1>4, <2>1 DEF Exactly, OwnershipOK
  <2>6. QED
    BY <2>3, <2>4, <2>5 DEF OwnershipOK
<1>8. ToldOK'
  <2>1. SUFFICES ASSUME ledger = "pg", NEW k \in Incidents, NEW c \in Channels \cup {Console},
                        <<k, c>> \in told, k \notin refused
                 PROVE  Claimed(k)' /\ \A h \in Gateways : Handles(h, k)' => c \notin escPoller'[h].left
    BY <1>1 DEF ToldOK
  <2>2. /\ k # i /\ Claimed(k)
        /\ \A h \in Gateways : Handles(h, k) => c \notin escPoller[h].left
    BY <1>1, <2>1 DEF Exactly, ToldOK
  <2>3. QED
    BY <1>3, <1>4, <1>5, <2>2
<1>9. EscalationIsExact'
  <2>1. EscalatedOnce'
    BY <1>1 DEF Exactly, EscalationIsExact, EscalatedOnce
  <2>2. ClaimsAreBacked'
    <3>1. SUFFICES ASSUME NEW k \in Incidents, Claimed(k)', k # i
                   PROVE  \/ dispatched'[k] > 0 /\ \E c \in Channels \cup {Console} : <<k, c>> \in told'
                          \/ \E h \in Gateways : Handles(h, k)'
                          \/ k \in struck'
      BY <1>5 DEF ClaimsAreBacked
    <3>2. ~Handles(g, k)
      BY <1>0, <3>1 DEF Handles
    <3>3. QED
      BY <1>1, <1>4, <1>5, <3>1, <3>2 DEF Exactly, EscalationIsExact, ClaimsAreBacked
  <2>3. ToldAgainOnlyIfRefused'
    BY <1>1 DEF Exactly, EscalationIsExact, ToldAgainOnlyIfRefused
  <2>4. QED
    BY <2>1, <2>2, <2>3 DEF EscalationIsExact
<1>10. QED
  BY <1>6, <1>7, <1>8, <1>9 DEF Exactly

(* ProcessDies: what the process handled is struck, its claims stay.       *)
LEMMA DeathIsExact ==
  ASSUME ScanTypeOK, Exactly, NEW g \in Gateways, ProcessDies(g)
  PROVE  Exactly'
<1>1. /\ escPoller' = [escPoller EXCEPT ![g] = EscAtRest]
      /\ struck' = IF escPoller[g].at \in {"send", "release"}
                     THEN struck \cup {escPoller[g].inc} ELSE struck
      /\ UNCHANGED <<ledger, claims, told, toldAgain, dispatched, refused>>
  BY DEF ProcessDies
<1>2. EscAtRest.at = "idle"
  BY DEF EscAtRest
<1>3. /\ escPoller'[g] = EscAtRest
      /\ \A h \in Gateways : h # g => escPoller'[h] = escPoller[h]
  BY <1>1 DEF ScanTypeOK
<1>4. \A h \in Gateways, k \in Incidents : Handles(h, k)' <=> Handles(h, k) /\ h # g
  BY <1>2, <1>3 DEF Handles
<1>5. \A k \in Incidents : Handles(g, k) => k \in struck'
  BY <1>1 DEF Handles
<1>6. \A k \in Incidents : Claimed(k)' <=> Claimed(k)
  BY <1>1 DEF Claimed
<1>7. DispatchOK'
  BY <1>1, <1>2, <1>3 DEF Exactly, DispatchOK
<1>8. OwnershipOK'
  BY <1>1, <1>4, <1>6 DEF Exactly, OwnershipOK
<1>9. ToldOK'
  BY <1>1, <1>3, <1>4, <1>6 DEF Exactly, ToldOK
<1>10. EscalationIsExact'
  <2>1. EscalatedOnce' /\ ToldAgainOnlyIfRefused'
    BY <1>1 DEF Exactly, EscalationIsExact, EscalatedOnce, ToldAgainOnlyIfRefused
  <2>2. struck \subseteq struck'
    BY <1>1
  <2>3. ClaimsAreBacked'
    BY <1>1, <1>4, <1>5, <1>6, <2>2 DEF Exactly, EscalationIsExact, ClaimsAreBacked
  <2>4. QED
    BY <2>1, <2>3 DEF EscalationIsExact
<1>11. QED
  BY <1>7, <1>8, <1>9, <1>10 DEF Exactly

(* What touches neither the ledger nor a poll.                             *)
LEMMA AsideIsExact ==
  ASSUME Exactly, UNCHANGED <<ledger, claims, escPoller, told, toldAgain, dispatched,
                              refused, struck>>
  PROVE  Exactly'
<1>1. DispatchOK' /\ OwnershipOK' /\ ToldOK'
  BY DEF Exactly, DispatchOK, OwnershipOK, ToldOK, Handles, Claimed
<1>2. EscalationIsExact'
  BY DEF Exactly, EscalationIsExact, EscalatedOnce, ClaimsAreBacked, ToldAgainOnlyIfRefused,
         Handles, Claimed
<1>3. QED
  BY <1>1, <1>2 DEF Exactly

LEMMA PollIsExact ==
  ASSUME ScanTypeOK, ClaimsOK, Exactly, NEW g \in Gateways, Poll(g)
  PROVE  Exactly'
<1>1. escPoller[g].todo \in SUBSET Incidents
  BY DEF ScanTypeOK, PollerStates
<1>2. EscAtRest \in PollerStates /\ EscAtRest.at = "idle"
  BY DEF EscAtRest, PollerStates
<1>3. ASSUME NEW X \in SUBSET Incidents
      PROVE  LET s == [EscAtRest EXCEPT !.at = "next", !.todo = X]
             IN  s \in PollerStates /\ s.at = "next"
  BY DEF EscAtRest, PollerStates
<1>4. CASE Scan(g)
  <2> DEFINE due == {i \in Incidents : stage[i] = "overdue"}
  <2>1. due \in SUBSET Incidents
    OBVIOUS
  <2>2. escPoller' = [escPoller EXCEPT ![g] = [EscAtRest EXCEPT !.at = "next", !.todo = due]]
    BY <1>4 DEF Scan, Goes
  <2> HIDE DEF due
  <2>3. QED
    BY <1>3, <1>4, <2>1, <2>2, QuietMoveIsExact DEF Scan
<1>5. CASE ScanEnds(g)
  BY <1>2, <1>5, QuietMoveIsExact DEF ScanEnds, Goes
<1>6. CASE OnEscalate(g)
  <2> DEFINE s == [escPoller[g] EXCEPT !.at = "mark"]
  <2>1. s \in PollerStates /\ s.at = "mark" /\ s.inc \in Incidents
    BY <1>6 DEF OnEscalate, ScanTypeOK, PollerStates, Exactly, DispatchOK
  <2>2. CASE escPoller' = [escPoller EXCEPT ![g] = s]
    <3> HIDE DEF s
    <3>1. QED
      BY <1>6, <2>1, <2>2, QuietMoveIsExact DEF OnEscalate
  <2>3. CASE escPoller' = [escPoller EXCEPT ![g] =
                             [EscAtRest EXCEPT !.at = "next", !.todo = escPoller[g].todo]]
    BY <1>1, <1>3, <1>6, <2>3, QuietMoveIsExact DEF OnEscalate
  <2>4. QED
    BY <1>6, <2>2, <2>3 DEF OnEscalate, Goes
<1>7. CASE MarkSeen(g)
  BY <1>1, <1>3, <1>7, QuietMoveIsExact DEF MarkSeen, Goes
<1>8. QED
  BY <1>4, <1>5, <1>6, <1>7, DispatchEndIsExact, ReleaseIsExact, ClaimIsExact, PassIsExact,
     SendIsExact DEF Poll

------------------------------------------------------------------------------
(* The duty                                                                *)

LEMMA DutyBegins == DutyInit => DutyInv
<1> SUFFICES ASSUME DutyInit
             PROVE  DutyInv
  OBVIOUS
<1>1. ChannelTypeOK
  BY ChannelAssumption DEF DutyInit, ChannelInit, ChannelTypeOK
<1>2. EscAtRest \in PollerStates /\ EscAtRest.at = "idle"
  BY DEF EscAtRest, PollerStates
<1>3. ScanTypeOK
  BY <1>2, EscalationAssumption DEF DutyInit, ScanTypeOK
<1>4. ClaimsOK /\ ToSet(claims) = {}
  BY DEF DutyInit, ClaimsOK, IsInjective, ToSet
<1>5. TriggerOK
  <2>1. /\ NoTrigger \in TriggerStates /\ NoTrigger.seen = {}
        /\ NoTrigger.queue = <<>>
    BY DEF NoTrigger, TriggerStates
  <2>2. Len(NoTrigger.queue) <= TriggerQueue
    BY <2>1, EscalationAssumption
  <2>3. IsFiniteSet(NoTrigger.seen) /\ Cardinality(NoTrigger.seen) <= MaxSeen
    BY <2>1, FS_EmptySet, EscalationAssumption
  <2>4. audited = {} /\ \A g \in Gateways : trigger[g] = NoTrigger
    BY DEF DutyInit
  <2>5. QED
    BY <2>1, <2>2, <2>3, <2>4 DEF DutyInit, TriggerOK
<1>6. \A g \in Gateways : escPoller[g].at = "idle"
  BY <1>2 DEF DutyInit
<1>7. DispatchOK
  BY <1>6 DEF DispatchOK
<1>8. OwnershipOK /\ ToldOK
  BY <1>6 DEF OwnershipOK, ToldOK, Handles, DutyInit
<1>9. EscalationIsExact
  BY <1>4 DEF DutyInit, EscalationIsExact, EscalatedOnce, ClaimsAreBacked, Claimed,
              ToldAgainOnlyIfRefused
<1>10. QED
  BY <1>1, <1>3, <1>4, <1>5, <1>7, <1>8, <1>9 DEF DutyInv

LEMMA DutyGoesOn == DutyInv /\ [DutyNext]_dutyVars => DutyInv'
<1> SUFFICES ASSUME DutyInv, [DutyNext]_dutyVars
             PROVE  DutyInv'
  OBVIOUS
<1>1. ChannelTypeOK /\ ScanTypeOK /\ ClaimsOK /\ TriggerOK /\ DispatchOK /\ Exactly
  BY DEF DutyInv, Exactly
<1>2. SUFFICES (ChannelTypeOK /\ ScanTypeOK /\ ClaimsOK /\ TriggerOK /\ Exactly)'
  BY DEF DutyInv, Exactly
<1>3. UNCHANGED channelVars => ChannelTypeOK'
  BY <1>1 DEF channelVars, ChannelTypeOK
<1>4. UNCHANGED triggerVars => TriggerOK'
  BY <1>1 DEF triggerVars, TriggerOK
<1>5. UNCHANGED escalationVars => ScanTypeOK' /\ ClaimsOK' /\ Exactly'
  BY <1>1, AsideIsExact DEF escalationVars, ScanTypeOK, ClaimsOK
<1>6. CASE UNCHANGED dutyVars
  BY <1>3, <1>4, <1>5, <1>6 DEF dutyVars
<1>7. ASSUME NEW g \in EscPollers, Poll(g)
      PROVE  (ChannelTypeOK /\ ScanTypeOK /\ ClaimsOK /\ TriggerOK /\ Exactly)'
  <2>1. g \in Gateways
    BY PollersAreInstances
  <2>2. UNCHANGED channelVars
    BY <1>7 DEF Poll, Scan, ScanEnds, DispatchEnds, ReleaseClaim, OnEscalate, MarkSeen,
                Claim, Pass, SendToChannel
  <2>3. QED
    BY <1>1, <1>3, <1>7, <2>1, <2>2, PollKeepsScanTypes, TriggerStaysBounded, PollIsExact
<1>8. ASSUME NEW g \in EscPollers, Work(g)
      PROVE  (ChannelTypeOK /\ ScanTypeOK /\ ClaimsOK /\ TriggerOK /\ Exactly)'
  <2>1. g \in Gateways
    BY PollersAreInstances
  <2>2. /\ UNCHANGED <<channelVars, stage, ledger, claims, escPoller, told, toldAgain,
                       dispatched, refused, struck>>
        /\ UNCHANGED troubles \/ Trouble
    BY <1>8 DEF Work, TakeTriggered, Analyse
  <2>3. ScanTypeOK' /\ ClaimsOK'
    BY <1>1, <2>2, EscalationAssumption DEF ScanTypeOK, ClaimsOK, Trouble
  <2>4. Exactly'
    BY <1>1, <2>2, AsideIsExact
  <2>5. QED
    BY <1>1, <1>3, <1>8, <2>1, <2>2, <2>3, <2>4, TriggerStaysBounded
<1>9. ASSUME NEW g \in EscPollers, ProcessDies(g)
      PROVE  (ChannelTypeOK /\ ScanTypeOK /\ ClaimsOK /\ TriggerOK /\ Exactly)'
  <2>1. g \in Gateways
    BY PollersAreInstances
  <2>2. ChannelTypeOK'
    BY <1>1, <1>9, <2>1 DEF ProcessDies, ChannelTypeOK
  <2>3. EscAtRest \in PollerStates
    BY DEF EscAtRest, PollerStates
  <2>4. struck' \subseteq Incidents
    BY <1>1, <1>9, <2>1 DEF ProcessDies, ScanTypeOK, DispatchOK
  <2>5. ScanTypeOK' /\ ClaimsOK'
    <3>1. troubles' \in 0..MaxTroubles
      <4>1. troubles \in 0..MaxTroubles /\ Trouble
        BY <1>1, <1>9 DEF ProcessDies, ScanTypeOK
      <4>2. QED
        BY <4>1, EscalationAssumption DEF Trouble
    <3>2. escPoller' \in [Gateways -> PollerStates]
      BY <1>1, <1>9, <2>3 DEF ProcessDies, ScanTypeOK
    <3>3. refused' \cup struck' \subseteq Incidents
      BY <1>1, <1>9, <2>4 DEF ProcessDies, ScanTypeOK
    <3>4. QED
      BY <1>1, <1>9, <3>1, <3>2, <3>3 DEF ProcessDies, ScanTypeOK, ClaimsOK
  <2>6. TriggerOK'
    <3>1. /\ NoTrigger \in TriggerStates /\ NoTrigger.seen = {}
          /\ NoTrigger.queue = <<>>
      BY DEF NoTrigger, TriggerStates
    <3>2. Len(NoTrigger.queue) <= TriggerQueue
      BY <3>1, EscalationAssumption
    <3>3. IsFiniteSet(NoTrigger.seen) /\ Cardinality(NoTrigger.seen) <= MaxSeen
      BY <3>1, FS_EmptySet, EscalationAssumption
    <3>4. /\ trigger' \in [Gateways -> TriggerStates] /\ audited' \subseteq Incidents
          /\ \A h \in Gateways : trigger'[h] = trigger[h] \/ trigger'[h] = NoTrigger
      BY <1>1, <1>9, <3>1 DEF ProcessDies, TriggerOK
    <3>5. QED
      BY <1>1, <3>2, <3>3, <3>4 DEF TriggerOK
  <2>7. QED
    BY <1>1, <1>9, <2>1, <2>2, <2>5, <2>6, DeathIsExact
<1>10. ASSUME NEW i \in Incidents, Age(i) \/ Acknowledge(i)
       PROVE  (ChannelTypeOK /\ ScanTypeOK /\ ClaimsOK /\ TriggerOK /\ Exactly)'
  <2>1. ScanTypeOK' /\ ClaimsOK'
    BY <1>1, <1>10 DEF Age, Acknowledge, ScanTypeOK, ClaimsOK
  <2>2. Exactly'
    BY <1>1, <1>10, AsideIsExact DEF Age, Acknowledge
  <2>3. QED
    BY <1>3, <1>4, <1>10, <2>1, <2>2 DEF Age, Acknowledge
<1>11. ASSUME NEW r \in Requests, Edit(r) \/ ReloadStep(r),
              UNCHANGED <<escalationVars, triggerVars>>
       PROVE  (ChannelTypeOK /\ ScanTypeOK /\ ClaimsOK /\ TriggerOK /\ Exactly)'
  BY <1>1, <1>4, <1>5, <1>11, ReloadKeepsChannelTypes
<1>12. QED
  BY <1>6, <1>7, <1>8, <1>9, <1>10, <1>11 DEF DutyNext

LEMMA DutyInvariant == DutySpec => []DutyInv
  BY DutyBegins, DutyGoesOn, PTL DEF DutySpec

(* Every reachable state of the channels, the scan, the ledger and the     *)
(* trigger is of the declared shape; the queue and the seen set keep their *)
(* limits (escalation.go, rca_auto.go:60-140).                             *)
THEOREM DutyTypeCorrect == DutySpec => []DutyTypeOK
<1>1. DutyInv => DutyTypeOK
  BY TypesSuffice DEF DutyInv
<1>2. QED
  BY <1>1, DutyInvariant, PTL

(* Whatever the instances, channels and troubles: one dispatch without an  *)
(* error per incident, no claim nobody earned or struck, and no channel    *)
(* told twice unless one refused (escalation.go:10, 219-270).              *)
THEOREM EscalationStaysExact == DutySpec => []EscalationIsExact
<1>1. DutyInv => EscalationIsExact
  BY DEF DutyInv
<1>2. QED
  BY <1>1, DutyInvariant, PTL

------------------------------------------------------------------------------
(* SessionFlow: a lag is explained                                         *)

SessionRows == Seq(Asks \X {"user", "assistant"})

(* The declared types, and those of the maps SessionTypeOK leaves open.    *)
SessionInv ==
  /\ SessionTypeOK
  /\ snapshot \in [SessionRequests -> Nat]
  /\ prompt \in [Asks -> SessionRows]
  /\ LagIsExplained

LEMMA SessionBegins == SessionInit => SessionInv
<1> SUFFICES ASSUME SessionInit
             PROVE  SessionInv
  OBVIOUS
<1>1. Len(turns) = 0 /\ \A r \in Asks : Len(prompt[r]) = 0
  BY DEF SessionInit
<1>2. snapshot \in [SessionRequests -> Nat] /\ prompt \in [Asks -> SessionRows]
  BY DEF SessionInit, SessionRows
<1>3. SessionTypeOK
  <2>1. turns \in SessionRows
    BY DEF SessionInit, SessionRows
  <2>2. request \in [SessionRequests -> Steps]
    BY DEF SessionInit, Steps
  <2>3. \A r \in SessionRequests : snapshot[r] = 0
    BY DEF SessionInit
  <2>4. /\ envelope = NoEnvelope /\ model \in {"configured", "none"}
        /\ excused \in BOOLEAN /\ mishaps \in 0..MaxMishaps
    <3>1. mishaps = 0 /\ excused = FALSE
      BY DEF SessionInit
    <3>2. mishaps \in 0..MaxMishaps
      BY <3>1, SessionAssumption
    <3>3. QED
      BY <3>1, <3>2 DEF SessionInit
  <2>5. \A r \in Asks : Len(prompt[r]) <= HistoryTurns
    BY <1>1, SessionAssumption
  <2>6. QED
    BY <1>1, <2>1, <2>2, <2>3, <2>4, <2>5 DEF SessionTypeOK, SessionRows
<1>4. LagIsExplained
  BY DEF SessionInit, LagIsExplained
<1>5. QED
  BY <1>2, <1>3, <1>4 DEF SessionInv

(* A turn is appended by the two steps of a question.                      *)
LEMMA TurnIsAppended ==
  ASSUME turns \in SessionRows, NEW r \in Asks, NEW role \in {"user", "assistant"}
  PROVE  Appended(r, role) \in SessionRows /\ Len(Appended(r, role)) = Len(turns) + 1
  BY DEF Appended, SessionRows

(* The last turns of a session are turns of it, within the limit.          *)
LEMMA PromptIsCut ==
  ASSUME turns \in SessionRows, Len(turns) > HistoryTurns
  PROVE  LET tail == SubSeq(turns, Len(turns) - HistoryTurns + 1, Len(turns))
         IN  tail \in SessionRows /\ Len(tail) = HistoryTurns
<1>1. /\ Len(turns) \in Nat /\ HistoryTurns \in Nat /\ HistoryTurns > 0
      /\ Len(turns) - HistoryTurns + 1 \in 1..Len(turns)
  BY SessionAssumption DEF SessionRows
<1>2. QED
  BY <1>1 DEF SessionRows

LEMMA SessionGoesOn == SessionInv /\ [SessionNext]_sessionVars => SessionInv'
<1> SUFFICES ASSUME SessionInv, [SessionNext]_sessionVars
             PROVE  SessionInv'
  OBVIOUS
<1>1. /\ turns \in SessionRows /\ Len(turns) \in Nat
      /\ SessionTypeOK /\ LagIsExplained
      /\ snapshot \in [SessionRequests -> Nat] /\ prompt \in [Asks -> SessionRows]
      /\ NoEnvelope \notin Nat /\ Asks \subseteq SessionRequests
      /\ HistoryTurns \in Nat
  BY SessionAssumption DEF SessionInv, SessionTypeOK, SessionRows, SessionRequests
<1>2. Mishap => mishaps' \in 0..MaxMishaps
  BY <1>1, SessionAssumption DEF Mishap, SessionTypeOK
<1>3. ASSUME NEW r \in SessionRequests, NEW from \in Steps, NEW to \in Steps, At(r, from, to)
      PROVE  /\ request' \in [SessionRequests -> Steps]
             /\ request[r] = from /\ request'[r] = to
             /\ \A q \in SessionRequests : q # r => request'[q] = request[q]
  BY <1>1, <1>3 DEF At, SessionTypeOK
(* What every step but an append leaves of the types.                      *)
<1>4. ASSUME UNCHANGED <<turns, model>>,
             envelope' \in {NoEnvelope} \cup 0..Len(turns),
             request' \in [SessionRequests -> Steps],
             snapshot' \in [SessionRequests -> Nat],
             \A r \in SessionRequests : snapshot'[r] <= Len(turns),
             prompt' \in [Asks -> SessionRows],
             \A r \in Asks : Len(prompt'[r]) <= HistoryTurns,
             excused' \in BOOLEAN, mishaps' \in 0..MaxMishaps, LagIsExplained'
      PROVE  SessionInv'
  BY <1>1, <1>4 DEF SessionInv, SessionTypeOK, SessionRows
<1>5. CASE UNCHANGED sessionVars
  BY <1>1, <1>5 DEF sessionVars, SessionInv, SessionTypeOK, LagIsExplained, Refreshing
(* An append leaves the lag to the step that made it, or to its excuse.    *)
<1>6. ASSUME NEW r \in Asks, UNCHANGED <<envelope, snapshot, prompt, model>>,
             request' \in [SessionRequests -> Steps],
             turns' = turns \/ \E role \in {"user", "assistant"} : turns' = Appended(r, role),
             excused' \in BOOLEAN, mishaps' \in 0..MaxMishaps, LagIsExplained'
      PROVE  SessionInv'
  <2>1. turns' \in SessionRows /\ Len(turns') \in Nat /\ Len(turns) <= Len(turns')
    <3>1. \A role \in {"user", "assistant"} :
            /\ Appended(r, role) \in SessionRows
            /\ Len(Appended(r, role)) = Len(turns) + 1
      BY <1>1, TurnIsAppended
    <3>2. turns' \in SessionRows /\ (Len(turns') = Len(turns) \/ Len(turns') = Len(turns) + 1)
      BY <1>1, <1>6, <3>1
    <3>3. QED
      BY <1>1, <3>2
  <2>2. envelope' \in {NoEnvelope} \cup 0..Len(turns')
    BY <1>1, <1>6, <2>1 DEF SessionTypeOK
  <2>3. \A q \in SessionRequests : snapshot'[q] \in 0..Len(turns')
    BY <1>1, <1>6, <2>1 DEF SessionTypeOK
  <2>4. QED
    BY <1>1, <1>6, <2>1, <2>2, <2>3 DEF SessionInv, SessionTypeOK, SessionRows
<1>7. ASSUME NEW r \in Asks, AppendQuestion(r)
      PROVE  SessionInv'
  <2>1. CASE At(r, "start", "copy") /\ turns' = Appended(r, "user") /\ UNCHANGED <<mishaps, excused>>
    <3>1. request' \in [SessionRequests -> Steps] /\ request'[r] = "copy"
      BY <1>1, <1>3, <2>1 DEF Steps
    <3>2. LagIsExplained'
      BY <1>1, <3>1 DEF LagIsExplained, Refreshing
    <3>3. QED
      BY <1>1, <1>6, <1>7, <2>1, <3>1, <3>2 DEF AppendQuestion, SessionTypeOK
  <2>2. CASE /\ At(r, "start", "done") /\ Mishap
             /\ turns' \in {turns, Appended(r, "user")} /\ excused' = TRUE
    <3>1. request' \in [SessionRequests -> Steps]
      BY <1>1, <1>3, <2>2 DEF Steps
    <3>2. LagIsExplained'
      BY <2>2 DEF LagIsExplained
    <3>3. QED
      BY <1>1, <1>2, <1>6, <1>7, <2>2, <3>1, <3>2 DEF AppendQuestion
  <2>3. QED
    BY <1>7, <2>1, <2>2 DEF AppendQuestion
<1>8. ASSUME NEW r \in Asks, Answer(r)
      PROVE  SessionInv'
  <2>1. CASE /\ At(r, "chat", "copyagain") /\ turns' = Appended(r, "assistant")
             /\ UNCHANGED <<mishaps, excused>>
    <3>1. request' \in [SessionRequests -> Steps] /\ request'[r] = "copyagain"
      BY <1>1, <1>3, <2>1 DEF Steps
    <3>2. LagIsExplained'
      BY <1>1, <3>1 DEF LagIsExplained, Refreshing
    <3>3. QED
      BY <1>1, <1>6, <1>8, <2>1, <3>1, <3>2 DEF Answer, SessionTypeOK
  <2>2. CASE At(r, "chat", "done") /\ Mishap /\ UNCHANGED <<turns, excused>>
    <3>1. /\ request' \in [SessionRequests -> Steps] /\ request[r] = "chat"
          /\ \A q \in SessionRequests : q # r => request'[q] = request[q]
      BY <1>1, <1>3, <2>2 DEF Steps
    <3>2. LagIsExplained'
      BY <1>1, <1>8, <2>2, <3>1 DEF Answer, LagIsExplained, Refreshing
    <3>3. QED
      BY <1>1, <1>2, <1>6, <1>8, <2>2, <3>1, <3>2 DEF Answer, SessionTypeOK
  <2>3. CASE /\ At(r, "chat", "done") /\ Mishap
             /\ turns' = Appended(r, "assistant") /\ excused' = TRUE
    <3>1. request' \in [SessionRequests -> Steps]
      BY <1>1, <1>3, <2>3 DEF Steps
    <3>2. LagIsExplained'
      BY <2>3 DEF LagIsExplained
    <3>3. QED
      BY <1>1, <1>2, <1>6, <1>8, <2>3, <3>1, <3>2 DEF Answer
  <2>4. QED
    BY <1>8, <2>1, <2>2, <2>3 DEF Answer
<1>9. ASSUME NEW r \in SessionRequests, NEW from \in {"copy", "copyagain"},
             NEW to \in {"save", "saveagain"}, NEW without \in {"prompt", "done"},
             ReadTruth(r, from, to, without)
      PROVE  SessionInv'
  <2>1. CASE /\ At(r, from, to) /\ snapshot' = [snapshot EXCEPT ![r] = Len(turns)]
             /\ UNCHANGED <<mishaps, excused>>
    <3>1. request' \in [SessionRequests -> Steps] /\ request'[r] = to
      BY <1>1, <1>3, <2>1 DEF Steps
    <3>2. /\ snapshot' \in [SessionRequests -> Nat]
          /\ \A q \in SessionRequests : snapshot'[q] <= Len(turns)
      BY <1>1, <2>1 DEF SessionTypeOK
    <3>3. LagIsExplained'
      BY <1>9, <3>1 DEF LagIsExplained, Refreshing
    <3>4. QED
      BY <1>1, <1>4, <1>9, <2>1, <3>1, <3>2, <3>3 DEF ReadTruth, SessionTypeOK
  <2>2. CASE At(r, from, without) /\ Mishap /\ excused' = TRUE /\ UNCHANGED snapshot
    <3>1. request' \in [SessionRequests -> Steps]
      BY <1>1, <1>3, <2>2 DEF Steps
    <3>2. LagIsExplained'
      BY <2>2 DEF LagIsExplained
    <3>3. QED
      BY <1>1, <1>2, <1>4, <1>9, <2>2, <3>1, <3>2 DEF ReadTruth, SessionTypeOK
  <2>3. QED
    BY <1>9, <2>1, <2>2 DEF ReadTruth
<1>10. ASSUME NEW r \in SessionRequests, NEW from \in {"save", "saveagain"},
              NEW to \in {"prompt", "done"}, SaveEnvelope(r, from, to)
       PROVE  SessionInv'
  <2>1. request' \in [SessionRequests -> Steps]
    BY <1>1, <1>3, <1>10 DEF SaveEnvelope, Steps
  <2>2. CASE /\ envelope' = snapshot[r] /\ excused' = (snapshot[r] < Len(turns))
             /\ UNCHANGED mishaps
    <3>1. LagIsExplained'
      BY <1>1, <1>10, <2>2 DEF SaveEnvelope, LagIsExplained
    <3>2. QED
      BY <1>1, <1>4, <1>10, <2>1, <2>2, <3>1 DEF SaveEnvelope, SessionTypeOK
  <2>3. CASE Mishap /\ excused' = TRUE /\ UNCHANGED envelope
    <3>1. LagIsExplained'
      BY <2>3 DEF LagIsExplained
    <3>2. QED
      BY <1>1, <1>2, <1>4, <1>10, <2>1, <2>3, <3>1 DEF SaveEnvelope, SessionTypeOK
  <2>4. QED
    BY <1>10, <2>2, <2>3 DEF SaveEnvelope
<1>11. ASSUME NEW r \in Asks, BuildPrompt(r)
       PROVE  SessionInv'
  <2>1. /\ request' \in [SessionRequests -> Steps] /\ request[r] = "prompt"
        /\ \A q \in SessionRequests : q # r => request'[q] = request[q]
    BY <1>1, <1>3, <1>11 DEF BuildPrompt, Steps
  <2>2. mishaps' \in 0..MaxMishaps
    BY <1>1, <1>2, <1>11 DEF BuildPrompt, SessionTypeOK
  <2>3. LagIsExplained'
    BY <1>1, <1>11, <2>1 DEF BuildPrompt, LagIsExplained, Refreshing
  <2> DEFINE latest == IF Len(turns) > HistoryTurns
                        THEN SubSeq(turns, Len(turns) - HistoryTurns + 1, Len(turns)) ELSE turns
  <2>4. latest \in SessionRows /\ Len(latest) <= HistoryTurns
    BY <1>1, PromptIsCut
  <2>5. prompt' = prompt \/ prompt' = [prompt EXCEPT ![r] = latest]
    BY <1>11 DEF BuildPrompt
  <2> HIDE DEF latest
  <2>6. /\ prompt' \in [Asks -> SessionRows]
        /\ \A q \in Asks : Len(prompt'[q]) <= HistoryTurns
    BY <1>1, <2>4, <2>5 DEF SessionTypeOK
  <2>7. QED
    BY <1>1, <1>4, <1>11, <2>1, <2>2, <2>3, <2>6 DEF BuildPrompt, SessionTypeOK
<1>12. ASSUME NEW r \in Reads, ReadSession(r)
       PROVE  SessionInv'
  <2>0. r \in SessionRequests
    BY DEF SessionRequests
  <2>1. /\ request' \in [SessionRequests -> Steps] /\ request[r] = "start"
        /\ \A q \in SessionRequests : q # r => request'[q] = request[q]
    BY <1>1, <1>3, <1>12, <2>0 DEF ReadSession, Steps
  <2>2. mishaps' \in 0..MaxMishaps
    BY <1>1, <1>2, <1>12 DEF ReadSession, SessionTypeOK
  <2>3. LagIsExplained'
    BY <1>1, <1>12, <2>1 DEF ReadSession, LagIsExplained, Refreshing
  <2>4. QED
    BY <1>1, <1>4, <1>12, <2>1, <2>2, <2>3 DEF ReadSession, SessionTypeOK
<1>13. CASE Expire
  <2>1. LagIsExplained'
    BY <1>13 DEF Expire, LagIsExplained
  <2>2. QED
    BY <1>1, <1>2, <1>4, <1>13, <2>1 DEF Expire, SessionTypeOK
<1>14. QED
  BY <1>1, <1>5, <1>7, <1>8, <1>9, <1>10, <1>11, <1>12, <1>13
  DEF SessionNext, Copy, Save, CopyAgain, SaveAgain

(* The turns are a sequence of questions and answers, the envelope and the *)
(* snapshots are prefixes of it, and a prompt is within its limit          *)
(* (session_flow.go).                                                      *)
THEOREM SessionTypeCorrect == SessionSpec => []SessionTypeOK
<1>1. SessionInv => SessionTypeOK
  BY DEF SessionInv
<1>2. QED
  BY <1>1, SessionBegins, SessionGoesOn, PTL DEF SessionSpec

(* An envelope behind the truth has a refresh on its way, or one that      *)
(* failed or was overtaken since the last fresh one (session_flow.go:47).  *)
THEOREM LagStaysExplained == SessionSpec => []LagIsExplained
<1>1. SessionInv => LagIsExplained
  BY DEF SessionInv
<1>2. QED
  BY <1>1, SessionBegins, SessionGoesOn, PTL DEF SessionSpec
------------------------------------------------------------------------------
(* EventStream: what was broadcast is loaded                               *)

LEMMA NewerOfTwo ==
  ASSUME NEW a \in Nat, NEW b \in Nat
  PROVE  Max({a, b}) = IF a >= b THEN a ELSE b
  BY DEF Max

(* Whatever a console is owed, it has loaded or will: a frame is in its    *)
(* buffer, its timer runs, a load that has read it is on its way, or the   *)
(* page shows that one failed.                                             *)
OwedIsComing ==
  \A c \in Consoles :
    \/ loaded[c] >= owed[c]
    \/ c \in loadError
    \/ buffered[c] > 0
    \/ c \in timer
    \/ \E list \in loads[c] : list >= owed[c]

(* StreamTypeOK, with what it leaves open of shown, loaded and subscribed. *)
StreamInv ==
  /\ StreamTypeOK
  /\ shown \in [Consoles -> Nat] /\ loaded \in [Consoles -> Nat]
  /\ IsFiniteSet(subscribed)
  /\ OwedIsComing

LEMMA StreamBegins == StreamInit => StreamInv
<1> SUFFICES ASSUME StreamInit
             PROVE  StreamInv
  OBVIOUS
<1>1. OwedIsComing
  BY DEF StreamInit, OwedIsComing
<1>2. IsFiniteSet(subscribed) /\ Cardinality(subscribed) <= MaxSubscribers
  BY FS_EmptySet, StreamAssumption DEF StreamInit
<1>3. QED
  BY <1>1, <1>2, StreamAssumption DEF StreamInit, StreamInv, StreamTypeOK

LEMMA StreamGoesOn == StreamInv /\ [StreamNext]_streamVars => StreamInv'
<1> SUFFICES ASSUME StreamInv, [StreamNext]_streamVars
             PROVE  StreamInv'
  OBVIOUS
<1> USE StreamAssumption DEF StreamInv, StreamTypeOK
<1>1. CASE UNCHANGED streamVars
  BY <1>1 DEF streamVars, OwedIsComing
<1>2. ASSUME NEW w \in StoreWriters, LoudWrite(w)
      PROVE  StreamInv'
  BY <1>2 DEF LoudWrite, Written, OwedIsComing, pageVars
<1>3. CASE SilentWrite
  BY <1>3 DEF SilentWrite, Written, OwedIsComing, pageVars
<1>4. ASSUME NEW w \in StoreWriters, Publish(w)
      PROVE  StreamInv'
  <2>1. unsent[w] \in 0..writes /\ writes \in Nat /\ \A c \in Consoles : owed[c] \in 0..writes
    OBVIOUS
  <2>2. \A c \in Consoles : Max({owed[c], unsent[w]}) \in 0..writes
    BY <2>1, NewerOfTwo
  <2>3. owed' \in [Consoles -> 0..writes]
    BY <1>4, <2>2 DEF Publish
  <2>4. buffered' \in [Consoles -> 0..FrameBuffer]
    BY <1>4 DEF Publish
  <2>5. \A c \in Consoles : IF c \in subscribed THEN buffered'[c] > 0
                             ELSE owed'[c] = owed[c] /\ buffered'[c] = buffered[c]
    BY <1>4 DEF Publish
  <2>6. OwedIsComing'
    BY <1>4, <2>5 DEF Publish, OwedIsComing, pageVars
  <2>7. QED
    BY <1>4, <2>3, <2>4, <2>6 DEF Publish, pageVars
<1>5. ASSUME NEW c \in Consoles, Subscribe(c)
      PROVE  StreamInv'
  <2>1. IsFiniteSet(subscribed') /\ Cardinality(subscribed') <= MaxSubscribers
    <3>1. /\ subscribed' = subscribed \cup {c} /\ c \notin subscribed
          /\ IsFiniteSet(subscribed) /\ Cardinality(subscribed) < MaxSubscribers
      BY <1>5 DEF Subscribe
    <3>2. /\ IsFiniteSet(subscribed')
          /\ Cardinality(subscribed') = Cardinality(subscribed) + 1
          /\ Cardinality(subscribed) \in Nat
      BY <3>1, FS_AddElement, FS_CardinalityType
    <3>3. QED
      BY <3>1, <3>2
  <2>2. QED
    BY <1>5, <2>1 DEF Subscribe, OwedIsComing, pageVars
<1>6. ASSUME NEW gone \in SUBSET Consoles, Unsubscribe(gone),
             hub' = hub \/ subscribed' = {}, hub' \in {"open", "closed"}, cuts' \in 0..MaxCuts,
             UNCHANGED <<writes, unsent, joined, pageVars>>
      PROVE  StreamInv'
  <2>1. IsFiniteSet(subscribed') /\ Cardinality(subscribed') <= MaxSubscribers
    <3>1. subscribed' \subseteq subscribed
      BY <1>6 DEF Unsubscribe
    <3>2. IsFiniteSet(subscribed') /\ Cardinality(subscribed') <= Cardinality(subscribed)
      BY <3>1, FS_Subset
    <3>3. QED
      BY <3>2, FS_CardinalityType
  <2>2. OwedIsComing'
    BY <1>6 DEF Unsubscribe, OwedIsComing, pageVars
  <2>3. QED
    BY <1>6, <2>1, <2>2 DEF Unsubscribe, pageVars
<1>7. ASSUME NEW c \in Consoles, StreamCut(c)
      PROVE  StreamInv'
  BY <1>6, <1>7 DEF StreamCut, StreamBreaks
<1>8. CASE HubClose
  <2>1. Unsubscribe(subscribed) /\ subscribed' = {}
    BY <1>8 DEF HubClose, Unsubscribe
  <2>2. QED
    BY <1>6, <1>8, <2>1 DEF HubClose
<1>9. ASSUME NEW c \in Consoles, Frame(c)
      PROVE  StreamInv'
  BY <1>9 DEF Frame, OwedIsComing
(* A load that starts reads the list as it is, which nobody is owed beyond.*)
<1>10. ASSUME NEW c \in Consoles, StartLoad(c), timer' \subseteq timer, timer \subseteq timer' \cup {c},
              UNCHANGED <<writes, unsent, hub, subscribed, joined, buffered, shown, loaded, owed, cuts>>
       PROVE  StreamInv'
  <2>1. /\ loads' \in [Consoles -> SUBSET (0..writes)]
        /\ writes \in loads'[c] /\ writes >= owed[c]
        /\ \A d \in Consoles : loads[d] \subseteq loads'[d]
        /\ \A d \in Consoles : d # c => (d \in loadError' <=> d \in loadError)
        /\ \A d \in Consoles : d # c => (d \in timer' <=> d \in timer)
        /\ loadError' \subseteq Consoles
    BY <1>10 DEF StartLoad
  <2>2. OwedIsComing'
    BY <1>10, <2>1 DEF OwedIsComing
  <2>3. QED
    BY <1>10, <2>1, <2>2
<1>11. ASSUME NEW c \in Consoles, TimerFires(c) \/ PollList(c)
       PROVE  StreamInv'
  <2>1. CASE TimerFires(c)
    BY <1>10, <2>1 DEF TimerFires
  <2>2. CASE PollList(c)
    BY <1>10, <2>2 DEF PollList
  <2>3. QED
    BY <1>11, <2>1, <2>2
<1>12. ASSUME NEW c \in Consoles, NEW list \in loads[c], LoadAnswers(c, list)
       PROVE  StreamInv'
  <2>1. list \in 0..writes /\ loaded[c] \in 0..writes /\ writes \in Nat
    OBVIOUS
  <2>2. PICK m \in 0..writes : /\ m = Max({loaded[c], list})
                               /\ m >= list /\ m >= loaded[c]
    BY <2>1, NewerOfTwo
  <2>3. loaded' = [loaded EXCEPT ![c] = m]
    BY <1>12, <2>2 DEF LoadAnswers
  <2>4. loads' = [loads EXCEPT ![c] = @ \ {list}] /\ shown' = [shown EXCEPT ![c] = list]
    BY <1>12 DEF LoadAnswers
  <2>5. /\ loads' \in [Consoles -> SUBSET (0..writes)]
        /\ \A d \in Consoles : /\ shown'[d] <= loaded'[d] /\ loaded'[d] \in 0..writes
                                /\ loaded'[d] >= loaded[d]
        /\ shown' \in [Consoles -> Nat] /\ loaded' \in [Consoles -> Nat]
    BY <2>1, <2>2, <2>3, <2>4
  <2>6. OwedIsComing'
    <3>1. ASSUME NEW d \in Consoles, NEW l \in loads[d], l >= owed[d]
          PROVE  loaded'[d] >= owed[d] \/ l \in loads'[d]
      BY <2>1, <2>2, <2>3, <2>4, <3>1
    <3>2. \A d \in Consoles : loaded[d] >= owed[d] => loaded'[d] >= owed[d]
      BY <2>5
    <3>3. QED
      BY <1>12, <3>1, <3>2 DEF LoadAnswers, OwedIsComing
  <2>7. QED
    BY <1>12, <2>5, <2>6 DEF LoadAnswers
<1>13. ASSUME NEW c \in Consoles, NEW list \in loads[c], LoadFails(c, list)
       PROVE  StreamInv'
  BY <1>13 DEF LoadFails, StreamBreaks, OwedIsComing
<1>14. QED
  BY <1>1, <1>2, <1>3, <1>4, <1>5, <1>7, <1>8, <1>9, <1>11, <1>12, <1>13 DEF StreamNext

(* The hub, the buffers and the pages keep their limits, and no page shows *)
(* a list that was never there (sse.go, IncidentsView.tsx).                *)
THEOREM StreamTypeCorrect == StreamSpec => []StreamTypeOK
<1>1. StreamInv => StreamTypeOK
  BY DEF StreamInv
<1>2. QED
  BY <1>1, StreamBegins, StreamGoesOn, PTL DEF StreamSpec

(* A page at rest has loaded every write broadcast to its subscription, or *)
(* shows an error, whatever frames its buffer dropped (sse.go:13).         *)
THEOREM BroadcastsAreAlwaysLoaded == StreamSpec => []BroadcastsAreLoaded
<1>1. StreamInv => BroadcastsAreLoaded
  BY DEF StreamInv, OwedIsComing, BroadcastsAreLoaded, ConsoleAtRest
<1>2. QED
  BY <1>1, StreamBegins, StreamGoesOn, PTL DEF StreamSpec
------------------------------------------------------------------------------
(* AlertPoller: what was walked was imported                               *)

(* Whatever a poller has seen, and whatever has an unprocessed row, the    *)
(* queue has accepted at some time; so has it what a round is past.        *)
SeenIsImported ==
  /\ \A a \in PolledAlerts : row[a] # Unlisted => imported[a] # {}
  /\ \A p \in Pollers, a \in PolledAlerts :
       /\ seen[p][a] # Unlisted => imported[a] # {}
       /\ fetched[p][a] # Unlisted /\ a \notin left[p] => imported[a] # {}

PollerInv ==
  /\ PollerTypeOK
  /\ left \in [Pollers -> SUBSET PolledAlerts]
  /\ SeenIsImported /\ WalkedIsImported
  /\ \A a \in PolledAlerts : listed[a] # Unlisted => listed[a] \in 1..MaxAlertChanges

LEMMA PollerBegins == PollerInit => PollerInv
  BY PollerAssumption
  DEF PollerInit, PollerInv, PollerTypeOK, SeenIsImported, WalkedIsImported, NothingListed,
      AlertContents

LEMMA PollerGoesOn == PollerInv /\ [PollerNext]_pollerVars => PollerInv'
<1> SUFFICES ASSUME PollerInv, [PollerNext]_pollerVars
             PROVE  PollerInv'
  OBVIOUS
<1> USE DEF PollerInv, PollerTypeOK
<1>1. NothingListed \in [PolledAlerts -> AlertContents]
  BY DEF NothingListed, AlertContents
<1>2. /\ \A a \in PolledAlerts : NothingListed[a] = Unlisted
      /\ PollFault => pollFaults' \in 0..MaxPollFaults
  BY PollerAssumption DEF NothingListed, PollFault
<1>3. CASE UNCHANGED pollerVars
  BY <1>3 DEF pollerVars, SeenIsImported, WalkedIsImported
<1>4. ASSUME NEW a \in PolledAlerts, AlertChanges(a)
      PROVE  PollerInv'
  <2>1. /\ changes' \in [PolledAlerts -> 0..MaxAlertChanges]
        /\ listed' \in [PolledAlerts -> AlertContents]
    <3>1. CASE /\ changes[a] < MaxAlertChanges
               /\ changes' = [changes EXCEPT ![a] = @ + 1]
               /\ listed' = [listed EXCEPT ![a] = changes'[a]]
      <4>1. changes[a] + 1 \in 1..MaxAlertChanges /\ changes[a] + 1 \in 0..MaxAlertChanges
        BY <3>1, PollerAssumption
      <4>2. changes' \in [PolledAlerts -> 0..MaxAlertChanges] /\ changes'[a] = changes[a] + 1
        BY <3>1, <4>1
      <4>3. QED
        BY <3>1, <4>1, <4>2 DEF AlertContents
    <3>2. CASE listed' = [listed EXCEPT ![a] = Unlisted] /\ UNCHANGED changes
      BY <3>2 DEF AlertContents
    <3>3. QED
      BY <1>4, <3>1, <3>2 DEF AlertChanges
  <2>2. QED
    BY <1>4, <2>1 DEF AlertChanges, SeenIsImported, WalkedIsImported, AlertContents
<1>5. ASSUME NEW a \in PolledAlerts, RowProcessed(a)
      PROVE  PollerInv'
  BY <1>5 DEF RowProcessed, SeenIsImported, WalkedIsImported, AlertContents
<1>6. ASSUME NEW p \in Pollers, PollerStarts(p) \/ PollerStops(p)
      PROVE  PollerInv'
  BY <1>2, <1>6 DEF PollerStarts, PollerStops, SeenIsImported, WalkedIsImported
<1>7. ASSUME NEW p \in Pollers, PollerRestarts(p)
      PROVE  PollerInv'
  <2>1. /\ seen'[p] = NothingListed /\ fetched'[p] = NothingListed
        /\ left'[p] = {} /\ walked'[p] = {}
        /\ \A q \in Pollers : q # p => /\ seen'[q] = seen[q] /\ fetched'[q] = fetched[q]
                                       /\ left'[q] = left[q] /\ walked'[q] = walked[q]
    BY <1>7 DEF PollerRestarts
  <2>2. SeenIsImported' /\ WalkedIsImported'
    BY <1>2, <1>7, <2>1 DEF PollerRestarts, SeenIsImported, WalkedIsImported
  <2>3. QED
    BY <1>1, <1>2, <1>7, <2>1, <2>2 DEF PollerRestarts
<1>8. ASSUME NEW p \in Pollers, FetchAlerts(p)
      PROVE  PollerInv'
  <2>1. /\ fetched'[p] = listed
        /\ left'[p] = {a \in PolledAlerts : listed[a] # Unlisted}
        /\ \A q \in Pollers : q # p => fetched'[q] = fetched[q] /\ left'[q] = left[q]
    BY <1>8 DEF FetchAlerts
  <2>2. SeenIsImported' /\ WalkedIsImported'
    BY <1>8, <2>1 DEF FetchAlerts, SeenIsImported, WalkedIsImported
  <2>3. QED
    BY <1>8, <2>1, <2>2 DEF FetchAlerts
(* Accept only adds to what was imported.                                  *)
<1>9. ASSUME NEW a \in PolledAlerts, NEW content \in AlertContents, content # Unlisted,
             Accept(a, content)
      PROVE  /\ row' \in [PolledAlerts -> AlertContents]
             /\ imported' \in [PolledAlerts -> SUBSET (1..MaxAlertChanges)]
             /\ imported'[a] # {} /\ \A b \in PolledAlerts : imported[b] \subseteq imported'[b]
             /\ \A b \in PolledAlerts : b # a => row'[b] = row[b]
  BY <1>9 DEF Accept, AlertContents
<1>10. ASSUME NEW p \in Pollers, RoundEnds(p)
       PROVE  poller' \in [Pollers -> {"off", "waiting", "walking", "leaving"}]
  BY <1>10 DEF RoundEnds
<1>11. ASSUME NEW p \in Pollers, NEW a \in PolledAlerts, Offer(p, a)
       PROVE  PollerInv'
  <2>1. a \in left[p] /\ fetched[p][a] # Unlisted /\ fetched[p][a] \in AlertContents
    BY <1>11 DEF Offer
  <2>2. /\ left' \in [Pollers -> SUBSET PolledAlerts]
        /\ left'[p] = left[p] \ {a} /\ \A q \in Pollers : q # p => left'[q] = left[q]
    BY <1>11 DEF Offer
  <2>3. CASE seen[p][a] = fetched[p][a] /\ UNCHANGED <<seen, row, imported>>
    BY <1>11, <2>1, <2>2, <2>3 DEF Offer, SeenIsImported, WalkedIsImported
  <2>4. CASE seen' = [seen EXCEPT ![p][a] = fetched[p][a]]
             /\ IF row[a] = Unlisted THEN Accept(a, fetched[p][a]) ELSE UNCHANGED <<row, imported>>
    <3>1. /\ row' \in [PolledAlerts -> AlertContents]
          /\ imported' \in [PolledAlerts -> SUBSET (1..MaxAlertChanges)]
          /\ imported'[a] # {} /\ \A b \in PolledAlerts : imported[b] \subseteq imported'[b]
          /\ \A b \in PolledAlerts : b # a => row'[b] = row[b]
      BY <1>9, <2>1, <2>4 DEF SeenIsImported
    <3>2. /\ seen' \in [Pollers -> [PolledAlerts -> AlertContents]]
          /\ \A q \in Pollers, b \in PolledAlerts : q # p \/ b # a => seen'[q][b] = seen[q][b]
      BY <2>1, <2>4
    <3>3. \A b \in PolledAlerts : imported[b] # {} => imported'[b] # {}
      BY <3>1
    <3>4. SeenIsImported'
      BY <1>11, <2>2, <3>1, <3>2, <3>3 DEF Offer, SeenIsImported
    <3>5. WalkedIsImported'
      BY <1>11, <3>3 DEF Offer, WalkedIsImported
    <3>6. QED
      BY <1>11, <2>2, <3>1, <3>2, <3>4, <3>5 DEF Offer
  <2>5. QED
    BY <1>11, <2>3, <2>4 DEF Offer
<1>12. ASSUME NEW p \in Pollers, NEW a \in PolledAlerts, OfferFails(p, a)
       PROVE  PollerInv'
  <2>1. a \in left[p] /\ fetched[p][a] # Unlisted /\ fetched[p][a] \in AlertContents
    BY <1>12 DEF OfferFails
  <2>2. /\ left'[p] = {} /\ fetched'[p] = NothingListed
        /\ \A q \in Pollers : q # p => left'[q] = left[q] /\ fetched'[q] = fetched[q]
        /\ left' \in [Pollers -> SUBSET PolledAlerts]
        /\ fetched' \in [Pollers -> [PolledAlerts -> AlertContents]]
    BY <1>1, <1>12 DEF OfferFails
  <2>3. /\ row' \in [PolledAlerts -> AlertContents]
        /\ imported' \in [PolledAlerts -> SUBSET (1..MaxAlertChanges)]
        /\ \A b \in PolledAlerts : imported[b] \subseteq imported'[b]
        /\ \A b \in PolledAlerts : row'[b] # row[b] => imported'[b] # {}
    BY <1>9, <1>12, <2>1 DEF OfferFails
  <2>4. \A b \in PolledAlerts : imported[b] # {} => imported'[b] # {}
    BY <2>3
  <2>5. SeenIsImported'
    BY <1>2, <1>12, <2>2, <2>3, <2>4 DEF OfferFails, SeenIsImported
  <2>6. WalkedIsImported'
    BY <1>12, <2>4 DEF OfferFails, WalkedIsImported
  <2>7. QED
    BY <1>2, <1>10, <1>12, <2>2, <2>3, <2>5, <2>6 DEF OfferFails
<1>13. ASSUME NEW p \in Pollers, Forget(p)
       PROVE  PollerInv'
  <2>1. /\ left[p] = {} /\ fetched'[p] = NothingListed
        /\ walked'[p] = {a \in PolledAlerts : fetched[p][a] # Unlisted}
        /\ \A a \in PolledAlerts : seen'[p][a] = Unlisted \/ seen'[p][a] = seen[p][a]
        /\ \A q \in Pollers : q # p => /\ seen'[q] = seen[q] /\ fetched'[q] = fetched[q]
                                       /\ walked'[q] = walked[q]
    BY <1>13 DEF Forget
  <2>2. /\ fetched' \in [Pollers -> [PolledAlerts -> AlertContents]]
        /\ walked' \in [Pollers -> SUBSET PolledAlerts]
    BY <1>1, <1>13 DEF Forget
  <2>3. seen' \in [Pollers -> [PolledAlerts -> AlertContents]]
    <3> DEFINE kept == [a \in PolledAlerts |-> IF fetched[p][a] = Unlisted THEN Unlisted ELSE seen[p][a]]
    <3>1. kept \in [PolledAlerts -> AlertContents]
      BY DEF AlertContents
    <3>2. seen' = [seen EXCEPT ![p] = kept]
      BY <1>13 DEF Forget
    <3> HIDE DEF kept
    <3>3. QED
      BY <3>1, <3>2
  <2>4. SeenIsImported'
    BY <1>2, <1>13, <2>1 DEF Forget, SeenIsImported
  <2>5. \A a \in walked'[p] : imported[a] # {}
    BY <2>1 DEF SeenIsImported
  <2>6. WalkedIsImported'
    BY <1>13, <2>1, <2>5 DEF Forget, WalkedIsImported
  <2>7. QED
    BY <1>2, <1>10, <1>13, <2>1, <2>2, <2>3, <2>4, <2>6 DEF Forget
<1>14. QED
  BY <1>3, <1>4, <1>5, <1>6, <1>7, <1>8, <1>11, <1>12, <1>13 DEF PollerNext

(* What a poller remembers, fetches and has left is of the alerts there    *)
(* are, with the contents they had (pull_alerts.go).                       *)
THEOREM PollerTypeCorrect == PollerSpec => []PollerTypeOK
<1>1. PollerInv => PollerTypeOK
  BY DEF PollerInv
<1>2. QED
  BY <1>1, PollerBegins, PollerGoesOn, PTL DEF PollerSpec

(* No alert of a complete round was passed over: each has been accepted by *)
(* the queue, whatever rounds broke off, leaders moved or errors of the    *)
(* queue hid (pull_alerts.go:230-252).                                     *)
THEOREM WalkedIsAlwaysImported == PollerSpec => []WalkedIsImported
<1>1. PollerInv => WalkedIsImported
  BY DEF PollerInv
<1>2. QED
  BY <1>1, PollerBegins, PollerGoesOn, PTL DEF PollerSpec
------------------------------------------------------------------------------
(* ConnectorHost: a source that answers is served in time                  *)

(* The ticks the runs of n connectors take at most, one after the other.   *)
Span(n) == n * ConnTimeout

Total == Cardinality(Connectors)

(* What is left of the round under way, at most.                           *)
RoundLeft == timeLeft + Span(Cardinality(dueNow))

(* The ticks a source waits at most if it answers from now on.  A run that *)
(* has found it answering all along ends well; in the round, everything    *)
(* before it and its own run take their time; else its window ends, a      *)
(* firing of the ticker follows, the round without it that is under way by *)
(* then ends, and a whole round may go by before its run does.             *)
Wait(c) ==
  IF c \in running
    THEN IF FALSE \in sourceSeen
           THEN timeLeft + MaxBackoff + PollInterval + Span(Total - 1) + Span(Total)
           ELSE timeLeft
    ELSE IF c \in dueNow
      THEN RoundLeft
      ELSE IF retryIn[c] > 0
        THEN Span(Total) + retryIn[c] + PollInterval + Span(Total - 1)
        ELSE Span(Total) + RoundLeft + IF ticked THEN 0 ELSE tickIn

(* The loop runs one connector, not one of those still due, and the states *)
(* of its source it saw include the present one.                           *)
RunOK ==
  /\ running = {} => timeLeft = 0
  /\ running \cap dueNow = {}
  /\ \A c, d \in running : c = d
  /\ \A c \in running : up[c] \in sourceSeen

(* The ticks an answering source went untried and those it may still wait  *)
(* never exceed the limit together.                                        *)
WaitIsBounded ==
  \A c \in Connectors : IF up[c] THEN untried[c] + Wait(c) <= TriedWithin ELSE untried[c] = 0

HostInv == HostTypeOK /\ RunOK /\ WaitIsBounded

LEMMA SpanGrows ==
  /\ \A n \in Nat : Span(n) \in Nat
  /\ \A n \in Nat : Span(n + 1) = Span(n) + ConnTimeout
  /\ \A m, n \in Nat : m <= n => Span(m) <= Span(n)
  /\ Span(0) = 0
<1>1. \A n \in Nat : n * ConnTimeout \in Nat
  BY ConnectorAssumption
<1>2. \A n \in Nat : (n + 1) * ConnTimeout = n * ConnTimeout + ConnTimeout
  BY ConnectorAssumption
<1>3. ASSUME NEW m \in Nat, NEW n \in Nat, m <= n
      PROVE  m * ConnTimeout <= n * ConnTimeout
  <2>1. PICK k \in Nat : n = m + k
    <3>1. n - m \in Nat /\ n = m + (n - m)
      BY <1>3
    <3>2. QED
      BY <3>1
  <2>2. (m + k) * ConnTimeout = m * ConnTimeout + k * ConnTimeout
    BY ConnectorAssumption
  <2>3. QED
    BY <1>1, <2>1, <2>2
<1>4. QED
  BY <1>1, <1>2, <1>3, ConnectorAssumption DEF Span

LEMMA LimitIsTheSum ==
  /\ Total \in Nat /\ MaxBackoff \in Nat \ {0} /\ PollInterval \in Nat \ {0} /\ ConnTimeout \in Nat
  /\ TriedWithin = MaxBackoff + PollInterval + Span(Total) + Span(Total)
  /\ TriedWithin \in Nat
<1>1. Total \in Nat
  BY ConnectorAssumption, FS_CardinalityType DEF Total
<1>2. 2 * Total * ConnTimeout = Total * ConnTimeout + Total * ConnTimeout
  BY <1>1, ConnectorAssumption
<1>3. TriedWithin = MaxBackoff + PollInterval + Span(Total) + Span(Total)
  BY <1>1, <1>2, SpanGrows, ConnectorAssumption DEF TriedWithin, Total, Span
<1>4. Span(Total) \in Nat /\ MaxBackoff \in Nat /\ PollInterval \in Nat
  BY <1>1, SpanGrows, ConnectorAssumption
<1>5. TriedWithin \in Nat
  BY <1>3, <1>4
<1>6. QED
  BY <1>1, <1>3, <1>5, ConnectorAssumption

(* A set of sources that lacks one is smaller than all of them.            *)
LEMMA FewerThanSources ==
  ASSUME NEW S \in SUBSET Connectors
  PROVE  /\ IsFiniteSet(S) /\ Cardinality(S) \in Nat /\ Cardinality(S) <= Total
         /\ \A c \in Connectors : c \notin S => Cardinality(S) + 1 <= Total
         /\ \A c, d \in Connectors : c \notin S /\ d \notin S /\ c # d => Cardinality(S) + 2 <= Total
<1>1. /\ IsFiniteSet(S) /\ Cardinality(S) \in Nat /\ Cardinality(S) <= Total
      /\ \A T \in SUBSET Connectors : IsFiniteSet(T) /\ Cardinality(T) \in Nat /\ Cardinality(T) <= Total
  BY FS_Subset, FS_CardinalityType, ConnectorAssumption DEF Total
<1>2. ASSUME NEW T \in SUBSET Connectors, NEW c \in Connectors, c \notin T
      PROVE  Cardinality(T \cup {c}) = Cardinality(T) + 1 /\ Cardinality(T) + 1 <= Total
  <2>1. Cardinality(T \cup {c}) = Cardinality(T) + 1
    BY <1>1, <1>2, FS_AddElement
  <2>2. T \cup {c} \in SUBSET Connectors
    OBVIOUS
  <2>3. QED
    BY <1>1, <2>1, <2>2
<1>3. ASSUME NEW c \in Connectors, NEW d \in Connectors, c \notin S, d \notin S, c # d
      PROVE  Cardinality(S) + 2 <= Total
  <2>1. Cardinality(S \cup {c}) = Cardinality(S) + 1
    BY <1>2, <1>3
  <2>2. Cardinality(S \cup {c}) + 1 <= Total
    BY <1>2, <1>3
  <2>3. QED
    BY <1>1, <2>1, <2>2
<1>4. QED
  BY <1>1, <1>2, <1>3

(* The parts of a wait: all of them are numbers, a round without a source  *)
(* that is not part of it leaves out its run, and no wait is too long.     *)
WaitsOK ==
  \A c \in Connectors :
    /\ Wait(c) \in Nat /\ Wait(c) <= TriedWithin
    /\ RoundLeft \in Nat /\ RoundLeft <= Span(Total)
    /\ c \notin dueNow /\ c \notin running => RoundLeft <= Span(Total - 1)
    /\ Span(Total - 1) \in Nat /\ Span(Total) = Span(Total - 1) + ConnTimeout

LEMMA WaitsAreBounded == HostTypeOK /\ RunOK => WaitsOK
<1> SUFFICES ASSUME HostTypeOK, RunOK, NEW c \in Connectors
             PROVE  /\ Wait(c) \in Nat /\ Wait(c) <= TriedWithin
                    /\ RoundLeft \in Nat /\ RoundLeft <= Span(Total)
                    /\ c \notin dueNow /\ c \notin running => RoundLeft <= Span(Total - 1)
                    /\ Span(Total - 1) \in Nat /\ Span(Total) = Span(Total - 1) + ConnTimeout
  BY DEF WaitsOK
<1>1. /\ Total \in Nat /\ Cardinality(dueNow) \in Nat /\ Cardinality(dueNow) <= Total
      /\ Total >= 1
      /\ c \notin dueNow => Cardinality(dueNow) + 1 <= Total
      /\ \A d \in running : c \notin dueNow /\ c # d => Cardinality(dueNow) + 2 <= Total
      /\ \A d \in running : Cardinality(dueNow) + 1 <= Total
  <2>1. dueNow \in SUBSET Connectors /\ running \in SUBSET Connectors /\ running \cap dueNow = {}
    BY DEF HostTypeOK, RunOK
  <2>2. Cardinality({}) + 1 <= Total /\ Cardinality({}) = 0
    BY FewerThanSources, FS_EmptySet
  <2>3. Total \in Nat
    BY LimitIsTheSum
  <2>4. /\ Cardinality(dueNow) \in Nat /\ Cardinality(dueNow) <= Total
        /\ c \notin dueNow => Cardinality(dueNow) + 1 <= Total
        /\ \A d \in running : c \notin dueNow /\ c # d => Cardinality(dueNow) + 2 <= Total
        /\ \A d \in running : Cardinality(dueNow) + 1 <= Total
    BY <2>1, FewerThanSources
  <2>5. QED
    BY <2>2, <2>3, <2>4
<1>2. /\ timeLeft \in 0..ConnTimeout /\ (running = {} => timeLeft = 0)
      /\ retryIn[c] \in 0..MaxBackoff /\ tickIn \in 1..PollInterval
  BY DEF HostTypeOK, RunOK
<1>3. /\ Span(Total - 1) \in Nat /\ Span(Total) = Span(Total - 1) + ConnTimeout
      /\ Span(Cardinality(dueNow)) \in Nat
      /\ Span(Cardinality(dueNow)) <= Span(Total)
  <2>1. Total - 1 \in Nat /\ (Total - 1) + 1 = Total
    BY <1>1
  <2>2. QED
    BY <1>1, <2>1, SpanGrows
<1>4. running # {} => RoundLeft <= Span(Total)
  <2>1. SUFFICES ASSUME running # {}
                 PROVE  RoundLeft <= Span(Total)
    OBVIOUS
  <2>2. Cardinality(dueNow) <= Total - 1
    BY <1>1, <2>1
  <2>3. Span(Cardinality(dueNow)) <= Span(Total - 1)
    BY <1>1, <2>2, SpanGrows
  <2>4. QED
    BY <1>2, <1>3, <2>3, LimitIsTheSum DEF RoundLeft
<1>5. RoundLeft \in Nat /\ RoundLeft <= Span(Total)
  BY <1>2, <1>3, <1>4, LimitIsTheSum DEF RoundLeft
<1>6. c \notin dueNow /\ c \notin running => RoundLeft <= Span(Total - 1)
  <2>1. SUFFICES ASSUME c \notin dueNow, c \notin running
                 PROVE  RoundLeft <= Span(Total - 1)
    OBVIOUS
  <2>2. CASE running = {}
    <3>1. Span(Cardinality(dueNow)) <= Span(Total - 1)
      BY <1>1, <2>1, SpanGrows
    <3>2. QED
      BY <1>2, <1>3, <2>2, <3>1 DEF RoundLeft
  <2>3. CASE running # {}
    <3>1. Cardinality(dueNow) + 1 <= Total - 1 /\ Cardinality(dueNow) + 1 \in Nat /\ Total - 1 \in Nat
      BY <1>1, <2>1, <2>3
    <3>2. /\ Span(Cardinality(dueNow) + 1) = Span(Cardinality(dueNow)) + ConnTimeout
          /\ Span(Cardinality(dueNow) + 1) <= Span(Total - 1)
      BY <1>1, <3>1, SpanGrows
    <3>3. QED
      BY <1>2, <1>3, <3>2, LimitIsTheSum DEF RoundLeft
  <2>4. QED
    BY <2>2, <2>3
<1>7. Wait(c) \in Nat /\ Wait(c) <= TriedWithin
  <2>1. CASE c \in running /\ FALSE \in sourceSeen
    <3>1. Wait(c) = timeLeft + MaxBackoff + PollInterval + Span(Total - 1) + Span(Total)
      BY <2>1 DEF Wait
    <3>2. QED
      BY <1>2, <1>3, <3>1, LimitIsTheSum
  <2>2. CASE c \in running /\ FALSE \notin sourceSeen
    <3>1. Wait(c) = timeLeft
      BY <2>2 DEF Wait
    <3>2. QED
      BY <1>2, <1>3, <3>1, LimitIsTheSum
  <2>3. CASE c \notin running /\ c \in dueNow
    <3>1. Wait(c) = RoundLeft
      BY <2>3 DEF Wait
    <3>2. QED
      BY <1>3, <1>5, <3>1, LimitIsTheSum
  <2>4. CASE c \notin running /\ c \notin dueNow /\ retryIn[c] > 0
    <3>1. Wait(c) = Span(Total) + retryIn[c] + PollInterval + Span(Total - 1)
      BY <2>4 DEF Wait
    <3>2. QED
      BY <1>2, <1>3, <3>1, LimitIsTheSum
  <2>5. CASE c \notin running /\ c \notin dueNow /\ ~(retryIn[c] > 0)
    <3>1. PICK n \in 0..PollInterval : Wait(c) = Span(Total) + RoundLeft + n
      BY <1>2, <2>5, LimitIsTheSum DEF Wait
    <3>2. QED
      BY <1>3, <1>5, <3>1, LimitIsTheSum
  <2>6. QED
    BY <2>1, <2>2, <2>3, <2>4, <2>5
<1>8. QED
  BY <1>3, <1>5, <1>6, <1>7
LEMMA HostBegins == HostInit => HostInv
<1> SUFFICES ASSUME HostInit
             PROVE  HostInv
  OBVIOUS
<1>1. HostTypeOK
  <2>1. Cardinality({}) = 0
    BY FS_EmptySet
  <2>2. running = {} /\ timeLeft \in 0..ConnTimeout /\ tickIn \in 1..PollInterval
    BY ConnectorAssumption DEF HostInit
  <2>3. TriedWithin \in Nat
    BY LimitIsTheSum
  <2>4. untried \in [Connectors -> 0..TriedWithin + 1]
    BY <2>3 DEF HostInit
  <2>5. /\ retryIn \in [Connectors -> 0..MaxBackoff]
        /\ backoff \in [Connectors -> 0..MaxBackoff]
    BY ConnectorAssumption DEF HostInit
  <2>6. /\ up \in [Connectors -> BOOLEAN] /\ dueNow \subseteq Connectors
        /\ running \subseteq Connectors /\ sourceSeen \subseteq BOOLEAN /\ ticked \in BOOLEAN
    BY DEF HostInit
  <2>7. Cardinality(running) <= 1
    BY <2>1, <2>2
  <2>8. QED
    BY <2>2, <2>4, <2>5, <2>6, <2>7 DEF HostTypeOK
<1>2. RunOK
  BY DEF HostInit, RunOK
<1>3. WaitIsBounded
  <2>1. \A c \in Connectors : Wait(c) \in Nat /\ Wait(c) <= TriedWithin /\ untried[c] = 0
    BY <1>1, <1>2, WaitsAreBounded DEF HostInit, WaitsOK
  <2>2. QED
    BY <2>1, LimitIsTheSum DEF WaitIsBounded
<1>4. QED
  BY <1>1, <1>2, <1>3 DEF HostInv

LEMMA RunsStayOK == HostTypeOK /\ RunOK /\ [HostNext]_hostVars => HostTypeOK' /\ RunOK'
<1> SUFFICES ASSUME HostTypeOK, RunOK, [HostNext]_hostVars
             PROVE  HostTypeOK' /\ RunOK'
  OBVIOUS
<1> USE DEF HostTypeOK, RunOK
<1>1. /\ TriedWithin \in Nat /\ MaxBackoff \in Nat \ {0}
      /\ PollInterval \in Nat \ {0} /\ ConnTimeout \in Nat
  BY LimitIsTheSum
<1>2. Cardinality({}) = 0 /\ \A c : Cardinality({c}) = 1
  BY FS_EmptySet, FS_Singleton
<1>3. CASE UNCHANGED hostVars
  BY <1>3 DEF hostVars
<1>4. ASSUME NEW c \in Connectors, SourceFlips(c)
      PROVE  HostTypeOK' /\ RunOK'
  <2>1. up' \in [Connectors -> BOOLEAN]
    BY <1>4 DEF SourceFlips
  <2>2. /\ sourceSeen' \subseteq BOOLEAN
        /\ sourceSeen \subseteq sourceSeen' /\ (c \in running => up'[c] \in sourceSeen')
    BY <1>4, <2>1 DEF SourceFlips
  <2>3. untried' \in [Connectors -> 0..TriedWithin + 1]
    BY <1>1, <1>4 DEF SourceFlips
  <2>4. \A d \in Connectors : d # c => up'[d] = up[d]
    BY <1>4 DEF SourceFlips
  <2>5. HostTypeOK'
    BY <1>4, <2>1, <2>2, <2>3 DEF SourceFlips
  <2>6. RunOK'
    BY <1>4, <2>2, <2>4 DEF SourceFlips
  <2>7. QED
    BY <2>5, <2>6
<1>5. CASE RunOnce
  BY <1>5 DEF RunOnce
<1>6. ASSUME NEW c \in Connectors, RunConnector(c)
      PROVE  HostTypeOK' /\ RunOK'
  <2>1. running' = {c} /\ timeLeft' = ConnTimeout /\ sourceSeen' = {up[c]}
    BY <1>6 DEF RunConnector
  <2>2. Cardinality(running') <= 1 /\ timeLeft' \in 0..ConnTimeout
    <3>1. Cardinality(running') = 1
      BY <1>2, <2>1
    <3>2. ConnTimeout \in 0..ConnTimeout
      BY <1>1
    <3>3. QED
      BY <2>1, <3>1, <3>2
  <2>3. sourceSeen' \subseteq BOOLEAN
    BY <2>1
  <2>4. HostTypeOK'
    BY <1>6, <2>1, <2>2, <2>3 DEF RunConnector
  <2>5. RunOK'
    BY <1>6, <2>1 DEF RunConnector
  <2>6. QED
    BY <2>4, <2>5
<1>7. CASE CheckFails \/ WorkFails
  <2>a. BackOff /\ RunEnds /\ (untried' = untried \/ untried' = ZeroAt(running, untried))
    BY <1>7, Zenon DEF CheckFails, WorkFails
  <2>1. \A b \in 0..MaxBackoff : NextBackoff(b) \in 1..MaxBackoff
    BY <1>1 DEF NextBackoff, Capped
  <2>2. backoff' \in [Connectors -> 0..MaxBackoff] /\ retryIn' \in [Connectors -> 0..MaxBackoff]
    BY <2>a, <2>1 DEF BackOff
  <2>3. untried' \in [Connectors -> 0..TriedWithin + 1]
    BY <1>1, <2>a DEF ZeroAt
  <2>4. running' = {} /\ sourceSeen' = {} /\ timeLeft' = 0 /\ UNCHANGED <<up, dueNow, tickIn, ticked>>
    BY <2>a DEF RunEnds
  <2>5. QED
    BY <1>1, <1>2, <2>2, <2>3, <2>4
<1>8. CASE Succeeds
  <2>1. ASSUME NEW n \in Nat, NEW f \in [Connectors -> 0..n]
        PROVE  ZeroAt(running, f) \in [Connectors -> 0..n]
    BY DEF ZeroAt
  <2>2. /\ backoff' \in [Connectors -> 0..MaxBackoff] /\ retryIn' \in [Connectors -> 0..MaxBackoff]
        /\ untried' \in [Connectors -> 0..TriedWithin + 1]
    BY <1>1, <1>8, <2>1 DEF Succeeds
  <2>3. QED
    BY <1>1, <1>2, <1>8, <2>2 DEF Succeeds, RunEnds
<1>9. CASE SecondPasses
  <2>1. timeLeft' \in 0..ConnTimeout /\ tickIn' \in 1..PollInterval
    BY <1>1, <1>9 DEF SecondPasses
  <2>2. retryIn' \in [Connectors -> 0..MaxBackoff]
    BY <1>1, <1>9 DEF SecondPasses
  <2>3. \A n \in 0..TriedWithin + 1 : Capped(n + 1, TriedWithin + 1) \in 0..TriedWithin + 1
    BY <1>1 DEF Capped
  <2>4. untried' \in [Connectors -> 0..TriedWithin + 1]
    BY <1>1, <1>9, <2>3 DEF SecondPasses
  <2>5. QED
    BY <1>9, <2>1, <2>2, <2>4 DEF SecondPasses
<1>10. QED
  BY <1>3, <1>4, <1>5, <1>6, <1>7, <1>8, <1>9 DEF HostNext
(* A source that is served or starts to answer has its whole wait before   *)
(* it; what else may happen shortens the wait, or leaves it as it was.     *)
LEMMA WaitsGoOn == HostInv /\ [HostNext]_hostVars => HostInv'
<1> SUFFICES ASSUME HostInv, [HostNext]_hostVars
             PROVE  HostInv'
  OBVIOUS
<1>1. /\ HostTypeOK /\ RunOK /\ WaitIsBounded
      /\ HostTypeOK' /\ RunOK'
  BY RunsStayOK DEF HostInv
<1>2. WaitsOK /\ WaitsOK'
  BY <1>1, WaitsAreBounded, PTL
<1>3. /\ TriedWithin \in Nat /\ MaxBackoff \in Nat \ {0}
      /\ PollInterval \in Nat \ {0} /\ ConnTimeout \in Nat
  BY LimitIsTheSum
<1>4. SUFFICES ASSUME NEW c \in Connectors
               PROVE  IF up'[c] THEN untried'[c] + Wait(c)' <= TriedWithin ELSE untried'[c] = 0
  BY <1>1 DEF HostInv, WaitIsBounded
<1>5. /\ Wait(c) \in Nat /\ Wait(c)' \in Nat /\ Wait(c)' <= TriedWithin
      /\ untried[c] \in Nat /\ untried'[c] \in Nat
      /\ up[c] => untried[c] + Wait(c) <= TriedWithin
      /\ ~up[c] => untried[c] = 0
  BY <1>1, <1>2, <1>3 DEF WaitsOK, WaitIsBounded, HostTypeOK
<1>6. CASE untried'[c] = 0
  BY <1>3, <1>5, <1>6
<1>7. CASE up'[c] = up[c] /\ untried'[c] = untried[c] /\ (up[c] => Wait(c)' <= Wait(c))
  BY <1>3, <1>5, <1>7
<1>8. CASE UNCHANGED hostVars
  <2>1. Wait(c)' = Wait(c)
    BY <1>8 DEF hostVars, Wait, RoundLeft
  <2>2. QED
    BY <1>5, <1>7, <1>8, <2>1 DEF hostVars
<1>9. ASSUME NEW d \in Connectors, SourceFlips(d)
      PROVE  IF up'[c] THEN untried'[c] + Wait(c)' <= TriedWithin ELSE untried'[c] = 0
  <2>1. CASE c = d
    BY <1>1, <1>6, <1>9, <2>1 DEF SourceFlips, HostTypeOK
  <2>2. CASE c # d
    <3>1. up'[c] = up[c] /\ untried'[c] = untried[c]
      BY <1>1, <1>9, <2>2 DEF SourceFlips, HostTypeOK
    <3>2. c \in running => sourceSeen' = sourceSeen
      BY <1>1, <1>9, <2>2 DEF SourceFlips, RunOK
    <3>3. Wait(c)' = Wait(c)
      BY <1>9, <3>2 DEF SourceFlips, Wait, RoundLeft
    <3>4. QED
      BY <1>5, <1>7, <3>1, <3>3
  <2>3. QED
    BY <2>1, <2>2
<1>10. CASE RunOnce
  <2>1. /\ running = {} /\ running' = {} /\ ticked
        /\ dueNow = {} /\ dueNow' = {d \in Connectors : retryIn[d] = 0}
        /\ UNCHANGED <<up, untried, retryIn, sourceSeen, timeLeft>>
    BY <1>10 DEF RunOnce
  <2>2. RoundLeft \in Nat /\ RoundLeft' \in Nat /\ RoundLeft' <= Span(Total) /\ Span(Total) \in Nat
    BY <1>2, LimitIsTheSum, SpanGrows DEF WaitsOK
  <2>3. retryIn[c] \in Nat
    BY <1>1, <1>3 DEF HostTypeOK
  <2>4. CASE retryIn[c] = 0
    <3>1. Wait(c) = Span(Total) + RoundLeft /\ Wait(c)' = RoundLeft'
      BY <2>1, <2>2, <2>4 DEF Wait
    <3>2. QED
      BY <1>7, <2>1, <2>2, <3>1
  <2>5. CASE retryIn[c] # 0
    <3>1. Wait(c)' = Wait(c)
      BY <2>1, <2>3, <2>5 DEF Wait
    <3>2. QED
      BY <1>5, <1>7, <2>1, <3>1
  <2>6. QED
    BY <2>4, <2>5
<1>11. ASSUME NEW d \in Connectors, RunConnector(d)
       PROVE  IF up'[c] THEN untried'[c] + Wait(c)' <= TriedWithin ELSE untried'[c] = 0
  <2>1. /\ running = {} /\ timeLeft = 0 /\ d \in dueNow
        /\ dueNow' = dueNow \ {d} /\ running' = {d}
        /\ sourceSeen' = {up[d]} /\ timeLeft' = ConnTimeout
        /\ UNCHANGED <<up, untried, retryIn, tickIn, ticked>>
    BY <1>1, <1>11 DEF RunConnector, RunOK
  <2>2. RoundLeft' = RoundLeft /\ RoundLeft \in Nat /\ ConnTimeout <= RoundLeft
    <3>1. /\ Cardinality(dueNow') \in Nat
          /\ Cardinality(dueNow) = Cardinality(dueNow') + 1
      <4>1. /\ IsFiniteSet(dueNow') /\ Cardinality(dueNow') \in Nat
            /\ dueNow = dueNow' \cup {d} /\ d \notin dueNow'
        BY <1>1, <2>1, FewerThanSources DEF HostTypeOK
      <4>2. QED
        BY <4>1, FS_AddElement
    <3>2. /\ Span(Cardinality(dueNow)) = Span(Cardinality(dueNow')) + ConnTimeout
          /\ Span(Cardinality(dueNow')) \in Nat
      BY <3>1, SpanGrows
    <3>3. /\ RoundLeft = Span(Cardinality(dueNow))
          /\ RoundLeft' = ConnTimeout + Span(Cardinality(dueNow'))
      BY <1>3, <2>1, <3>2 DEF RoundLeft
    <3>4. QED
      BY <1>3, <3>2, <3>3
  <2>3. CASE c = d
    <3>1. up[c] => FALSE \notin sourceSeen'
      BY <2>1, <2>3
    <3>2. up[c] => Wait(c) = RoundLeft /\ Wait(c)' = ConnTimeout
      BY <2>1, <2>3, <3>1 DEF Wait
    <3>3. QED
      BY <1>7, <2>1, <2>2, <3>2
  <2>4. CASE c # d
    <3>1. Wait(c)' = Wait(c)
      BY <2>1, <2>2, <2>4 DEF Wait
    <3>2. QED
      BY <1>5, <1>7, <2>1, <3>1
  <2>5. QED
    BY <2>3, <2>4
(* When a run ends, the rest of the round is what is left.                 *)
<1>12. ASSUME c \notin running, running' = {}, timeLeft' = 0, retryIn'[c] = retryIn[c],
              UNCHANGED <<dueNow, tickIn, ticked>>
       PROVE  Wait(c)' <= Wait(c)
  <2>1. /\ RoundLeft' <= RoundLeft /\ RoundLeft \in Nat /\ RoundLeft' \in Nat
        /\ Span(Total) \in Nat
    <3>1. Cardinality(dueNow) \in Nat /\ timeLeft \in Nat
      BY <1>1, <1>3, FewerThanSources DEF HostTypeOK
    <3>2. QED
      BY <1>2, <1>12, <3>1, SpanGrows, LimitIsTheSum DEF RoundLeft, WaitsOK
  <2>2. CASE c \in dueNow
    <3>1. Wait(c) = RoundLeft /\ Wait(c)' = RoundLeft'
      BY <1>12, <2>2 DEF Wait
    <3>2. QED
      BY <2>1, <3>1
  <2>3. CASE c \notin dueNow /\ retryIn[c] > 0
    <3>1. Wait(c)' = Wait(c)
      BY <1>12, <2>3 DEF Wait
    <3>2. QED
      BY <1>5, <3>1
  <2>4. CASE c \notin dueNow /\ ~(retryIn[c] > 0)
    <3>1. PICK n \in Nat : n = IF ticked THEN 0 ELSE tickIn
      BY <1>1, <1>3 DEF HostTypeOK
    <3>2. Wait(c) = Span(Total) + RoundLeft + n /\ Wait(c)' = Span(Total) + RoundLeft' + n
      BY <1>12, <2>4, <3>1 DEF Wait
    <3>3. QED
      BY <2>1, <3>2
  <2>5. QED
    BY <2>2, <2>3, <2>4
<1>13. CASE CheckFails
  <2>1. CASE c \in running
    <3>1. /\ FALSE \in sourceSeen /\ c \notin dueNow' /\ running' = {}
          /\ retryIn'[c] = NextBackoff(backoff[c])
          /\ UNCHANGED <<up, untried>>
      BY <1>1, <1>13, <2>1 DEF CheckFails, BackOff, RunEnds, RunOK
    <3>2. retryIn'[c] \in 1..MaxBackoff
      BY <1>1, <1>3, <3>1 DEF NextBackoff, Capped, HostTypeOK
    <3>3. /\ Wait(c) = timeLeft + MaxBackoff + PollInterval + Span(Total - 1) + Span(Total)
          /\ Wait(c)' = Span(Total) + retryIn'[c] + PollInterval + Span(Total - 1)
      BY <2>1, <3>1, <3>2 DEF Wait
    <3>4. timeLeft \in Nat /\ Span(Total - 1) \in Nat /\ Span(Total) \in Nat
      BY <1>1, <1>2, <1>3, LimitIsTheSum, SpanGrows DEF HostTypeOK, WaitsOK
    <3>5. Wait(c)' <= Wait(c)
      BY <1>3, <3>2, <3>3, <3>4
    <3>6. QED
      BY <1>7, <3>1, <3>5
  <2>2. CASE c \notin running
    <3>1. /\ running' = {} /\ timeLeft' = 0 /\ retryIn'[c] = retryIn[c]
          /\ UNCHANGED <<dueNow, tickIn, ticked, up, untried>>
      BY <1>13, <2>2 DEF CheckFails, BackOff, RunEnds
    <3>2. QED
      BY <1>7, <1>12, <2>2, <3>1
  <2>3. QED
    BY <2>1, <2>2
<1>a. CASE WorkFails
  <2>1. CASE c \in running
    <3>1. untried'[c] = 0
      BY <1>a, <2>1 DEF WorkFails, BackOff, RunEnds, ZeroAt
    <3>2. QED
      BY <1>6, <3>1
  <2>2. CASE c \notin running
    <3>1. /\ running' = {} /\ timeLeft' = 0 /\ retryIn'[c] = retryIn[c]
          /\ untried'[c] = untried[c]
          /\ UNCHANGED <<dueNow, tickIn, ticked, up>>
      BY <1>a, <2>2 DEF WorkFails, BackOff, RunEnds, ZeroAt
    <3>2. QED
      BY <1>7, <1>12, <2>2, <3>1
  <2>3. QED
    BY <2>1, <2>2
<1>14. CASE Succeeds
  <2>1. CASE c \in running
    <3>1. untried'[c] = 0
      BY <1>14, <2>1 DEF Succeeds, RunEnds, ZeroAt
    <3>2. QED
      BY <1>6, <3>1
  <2>2. CASE c \notin running
    <3>1. /\ running' = {} /\ timeLeft' = 0 /\ retryIn'[c] = retryIn[c]
          /\ untried'[c] = untried[c]
          /\ UNCHANGED <<dueNow, tickIn, ticked, up>>
      BY <1>14, <2>2 DEF Succeeds, RunEnds, ZeroAt
    <3>2. QED
      BY <1>7, <1>12, <2>2, <3>1
  <2>3. QED
    BY <2>1, <2>2
<1>15. CASE SecondPasses
  <2>1. /\ UNCHANGED <<up, dueNow, running, sourceSeen>>
        /\ running = {} => dueNow = {} /\ ~ticked
        /\ running # {} => timeLeft > 0 /\ timeLeft' = timeLeft - 1
        /\ retryIn'[c] = IF retryIn[c] = 0 THEN 0 ELSE retryIn[c] - 1
        /\ tickIn' = IF tickIn = 1 THEN PollInterval ELSE tickIn - 1
        /\ ticked' <=> ticked \/ tickIn = 1
        /\ untried'[c] = IF up[c] THEN Capped(untried[c] + 1, TriedWithin + 1) ELSE 0
    BY <1>15 DEF SecondPasses
  <2>2. /\ timeLeft \in Nat /\ timeLeft' \in Nat /\ retryIn[c] \in Nat
        /\ tickIn \in 1..PollInterval /\ tickIn' \in 1..PollInterval
        /\ RoundLeft \in Nat /\ RoundLeft' \in Nat
        /\ Span(Total - 1) \in Nat /\ Span(Total) \in Nat
    BY <1>1, <1>2, <1>3, LimitIsTheSum, SpanGrows DEF HostTypeOK, WaitsOK
  <2>3. /\ running # {} => RoundLeft' = RoundLeft - 1
        /\ running = {} => RoundLeft' = RoundLeft
    <3>1. Span(Cardinality(dueNow)) \in Nat
      BY <1>1, FewerThanSources, SpanGrows DEF HostTypeOK
    <3>2. running = {} => timeLeft' = timeLeft
      BY <1>1, <2>1 DEF RunOK
    <3>3. dueNow' = dueNow
      BY <2>1
    <3>4. QED
      BY <2>1, <2>2, <3>1, <3>2, <3>3 DEF RoundLeft
  <2>4. Wait(c)' < Wait(c)
    <3>1. CASE c \in running
      <4>1. timeLeft' = timeLeft - 1
        BY <2>1, <2>2, <3>1
      <4>2. CASE FALSE \in sourceSeen
        <5>1. /\ Wait(c) = timeLeft + MaxBackoff + PollInterval + Span(Total - 1) + Span(Total)
              /\ Wait(c)' = timeLeft' + MaxBackoff + PollInterval + Span(Total - 1) + Span(Total)
          BY <2>1, <3>1, <4>2 DEF Wait
        <5>2. QED
          BY <1>3, <2>2, <4>1, <5>1
      <4>3. CASE FALSE \notin sourceSeen
        <5>1. Wait(c) = timeLeft /\ Wait(c)' = timeLeft'
          BY <2>1, <3>1, <4>3 DEF Wait
        <5>2. QED
          BY <2>2, <4>1, <5>1
      <4>4. QED
        BY <4>2, <4>3
    <3>2. CASE c \notin running /\ c \in dueNow
      <4>1. Wait(c) = RoundLeft /\ Wait(c)' = RoundLeft'
        BY <2>1, <3>2 DEF Wait
      <4>2. running # {}
        BY <2>1, <3>2
      <4>3. QED
        BY <2>2, <2>3, <4>1, <4>2
    <3>3. CASE c \notin running /\ c \notin dueNow /\ retryIn[c] > 1
      <4>1. retryIn'[c] > 0 /\ retryIn'[c] = retryIn[c] - 1
        BY <2>1, <2>2, <3>3
      <4>2. /\ Wait(c) = Span(Total) + retryIn[c] + PollInterval + Span(Total - 1)
            /\ Wait(c)' = Span(Total) + retryIn'[c] + PollInterval + Span(Total - 1)
        BY <2>1, <2>2, <3>3, <4>1 DEF Wait
      <4>3. QED
        BY <1>3, <2>2, <4>1, <4>2
    <3>4. CASE c \notin running /\ c \notin dueNow /\ retryIn[c] = 1
      <4>1. RoundLeft' <= Span(Total - 1)
        BY <1>2, <2>1, <3>4 DEF WaitsOK
      <4>2. PICK n \in 0..PollInterval : n = IF ticked' THEN 0 ELSE tickIn'
        BY <1>3, <2>2
      <4>3. retryIn'[c] = 0
        BY <2>1, <3>4
      <4>4. /\ Wait(c) = Span(Total) + 1 + PollInterval + Span(Total - 1)
            /\ Wait(c)' = Span(Total) + RoundLeft' + n
        BY <2>1, <3>4, <4>2, <4>3 DEF Wait
      <4>5. QED
        BY <1>3, <2>2, <4>1, <4>4
    <3>5. CASE c \notin running /\ c \notin dueNow /\ retryIn[c] = 0
      <4>1. retryIn'[c] = 0
        BY <2>1, <3>5
      <4>2. CASE ticked
        <5>1. RoundLeft' = RoundLeft - 1
          BY <2>1, <2>3, <4>2
        <5>2. Wait(c) = Span(Total) + RoundLeft /\ Wait(c)' = Span(Total) + RoundLeft'
          BY <2>1, <2>2, <3>5, <4>1, <4>2 DEF Wait
        <5>3. QED
          BY <2>2, <5>1, <5>2
      <4>3. CASE ~ticked
        <5>1. RoundLeft' <= RoundLeft
          BY <2>2, <2>3
        <5>2. Wait(c) = Span(Total) + RoundLeft + tickIn
          BY <3>5, <4>3 DEF Wait
        <5>3. CASE tickIn = 1
          <6>1. Wait(c)' = Span(Total) + RoundLeft'
            BY <2>1, <2>2, <3>5, <4>1, <5>3 DEF Wait
          <6>2. QED
            BY <2>2, <5>1, <5>2, <5>3, <6>1
        <5>4. CASE tickIn # 1
          <6>1. Wait(c)' = Span(Total) + RoundLeft' + tickIn' /\ tickIn' = tickIn - 1
            BY <2>1, <3>5, <4>1, <4>3, <5>4 DEF Wait
          <6>2. tickIn \in Nat /\ tickIn' \in Nat
            BY <1>3, <2>2
          <6>3. QED
            BY <2>2, <5>1, <5>2, <6>1, <6>2
        <5>5. QED
          BY <5>3, <5>4
      <4>4. QED
        BY <4>2, <4>3
    <3>6. QED
      BY <2>2, <3>1, <3>2, <3>3, <3>4, <3>5
  <2>5. up[c] => untried'[c] <= untried[c] + 1
    BY <1>3, <1>5, <2>1 DEF Capped
  <2>6. CASE up[c]
    BY <1>3, <1>5, <2>1, <2>4, <2>5, <2>6
  <2>7. CASE ~up[c]
    BY <1>6, <2>1, <2>7
  <2>8. QED
    BY <2>6, <2>7
<1>16. QED
  BY <1>8, <1>9, <1>10, <1>11, <1>13, <1>a, <1>14, <1>15 DEF HostNext

LEMMA HostInvariant == HostSpec => []HostInv
  BY HostBegins, WaitsGoOn, PTL DEF HostSpec

(* The windows, the runs and the ticker keep their limits (host.go).       *)
THEOREM HostTypeCorrect == HostSpec => []HostTypeOK
<1>1. HostInv => HostTypeOK
  BY DEF HostInv
<1>2. QED
  BY <1>1, HostInvariant, PTL

(* A source that has answered all along is asked again within TriedWithin  *)
(* ticks, whatever its backoff had grown to, however many firings of the   *)
(* ticker were dropped, and whatever the others do (host.go:247).          *)
THEOREM AnsweringIsAlwaysTried == HostSpec => []AnsweringIsTried
<1>1. HostInv => AnsweringIsTried
  <2>1. SUFFICES ASSUME HostInv, NEW c \in Connectors
                 PROVE  untried[c] <= TriedWithin
    BY DEF AnsweringIsTried
  <2>2. Wait(c) \in Nat /\ untried[c] \in Nat /\ TriedWithin \in Nat
    BY <2>1, WaitsAreBounded, LimitIsTheSum DEF HostInv, WaitsOK, HostTypeOK
  <2>3. QED
    BY <2>1, <2>2 DEF HostInv, WaitIsBounded
<1>2. QED
  BY <1>1, HostInvariant, PTL
===============================================================================
