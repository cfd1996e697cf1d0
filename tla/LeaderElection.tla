---------------------------- MODULE LeaderElection ----------------------------
(***************************************************************************)
(* Which instance owns the collection of topology, the verdicts, the       *)
(* poller and the sweeper (cmd/opscopilot/leader.go), and the supervisor   *)
(* that starts and stops those loops (leader_gated.go).                    *)
(*                                                                         *)
(* The lock is a PostgreSQL advisory lock of the session of one pinned     *)
(* connection.  A session may end without its client noticing (the         *)
(* client finds out when it next uses the connection), and a client may    *)
(* go away without the server noticing (the lock is orphaned until the     *)
(* server closes the session).  The election loop and the supervisor are   *)
(* separate goroutines; every access to the elector's fields under its     *)
(* mutex is one step.                                                      *)
(***************************************************************************)
EXTENDS Integers, FiniteSets

CONSTANTS
  Instances,
  NoInstance,       \* nobody has the lock
  Orphan,           \* a session has it that no instance uses any more
  MaxLeaderFaults   \* bound on the errors and crashes

ASSUME LeaderAssumption ==
  /\ NoInstance \notin Instances
  /\ Orphan \notin Instances
  /\ NoInstance # Orphan
  /\ MaxLeaderFaults \in Nat

VARIABLES
  holder,       \* whose session holds the advisory lock
  session,      \* the pinned connection: "none", "live", or "dead"
  lockHeld,     \* LeaderElector.lockHeld
  leader,       \* LeaderElector.leader
  electing,     \* where Run is: "round", "hook", "flip", "release", "demote", "left"
  quitting,     \* the context of Run and of the supervisor has ended
  supervisor,   \* where runLeaderGated is
  woken,        \* the channel the supervisor captured has been closed
  leaderFaults  \* errors and crashes so far, at most MaxLeaderFaults

electorVars == <<holder, session, lockHeld, leader, electing, quitting>>
supervisorVars == <<supervisor, woken>>
leaderVars == <<electorVars, supervisorVars, leaderFaults>>

(* The gated loops run from the start of the supervisor's inner loop until *)
(* all of them have returned.                                              *)
Running == {"recheck", "waiting", "recapture", "stopping"}

LeaderTypeOK ==
  /\ holder \in Instances \cup {NoInstance, Orphan}
  /\ session \in [Instances -> {"none", "live", "dead"}]
  /\ lockHeld \in [Instances -> BOOLEAN]
  /\ leader \in [Instances -> BOOLEAN]
  /\ electing \in [Instances -> {"round", "hook", "flip", "release", "demote", "left"}]
  /\ quitting \in [Instances -> BOOLEAN]
  /\ supervisor \in [Instances -> {"capture", "check", "idle", "gone"} \cup Running]
  /\ woken \in [Instances -> BOOLEAN]
  /\ leaderFaults \in 0..MaxLeaderFaults

LeaderInit ==
  /\ holder = NoInstance
  /\ session = [i \in Instances |-> "none"]
  /\ lockHeld = [i \in Instances |-> FALSE]
  /\ leader = [i \in Instances |-> FALSE]
  /\ electing = [i \in Instances |-> "round"]
  /\ quitting = [i \in Instances |-> FALSE]
  /\ supervisor = [i \in Instances |-> "capture"]
  /\ woken = [i \in Instances |-> FALSE]
  /\ leaderFaults = 0

Spend == leaderFaults < MaxLeaderFaults /\ leaderFaults' = leaderFaults + 1

------------------------------------------------------------------------------
(* The election loop                                                       *)

Campaigns(i) == electing[i] = "round" /\ ~quitting[i] /\ ~leader[i]

(* heldConn: one connection, taken from the pool and kept across rounds.   *)
Acquire(i) ==
  /\ Campaigns(i)
  /\ session[i] = "none"
  /\ session' = [session EXCEPT ![i] = "live"]
  /\ UNCHANGED <<holder, lockHeld, leader, electing, quitting,
                 supervisorVars, leaderFaults>>

(* campaignRound with a connection: try-lock unless an earlier round has   *)
(* the lock already, and on to the hook if it is held.                     *)
TryLock(i) ==
  /\ Campaigns(i)
  /\ session[i] = "live"
  /\ ~lockHeld[i]
  /\ holder = NoInstance
  /\ holder' = i
  /\ lockHeld' = [lockHeld EXCEPT ![i] = TRUE]
  /\ electing' = [electing EXCEPT ![i] = "hook"]
  /\ UNCHANGED <<session, leader, quitting, supervisorVars, leaderFaults>>

(* Mutant of TryLockFails: the broken connection stays pinned.             *)
TryLockKeepsPinned(i) ==
  /\ Campaigns(i)
  /\ session[i] = "dead"
  /\ ~lockHeld[i]
  /\ UNCHANGED leaderVars

(* The statement fails on a dead session: the connection is dropped.       *)
TryLockFails(i) ==
  /\ Campaigns(i)
  /\ session[i] = "dead"
  /\ ~lockHeld[i]
  /\ session' = [session EXCEPT ![i] = "none"]
  /\ UNCHANGED <<holder, lockHeld, leader, electing, quitting,
                 supervisorVars, leaderFaults>>

(* A round that follows a failed hook: lockHeld stands in for the lock,    *)
(* nothing asks the session.                                               *)
RetryHook(i) ==
  /\ Campaigns(i)
  /\ session[i] # "none"
  /\ lockHeld[i]
  /\ electing' = [electing EXCEPT ![i] = "hook"]
  /\ UNCHANGED <<holder, session, lockHeld, leader, quitting,
                 supervisorVars, leaderFaults>>

(* onPromote: the clusters are restored, or the round ends without a flip. *)
HookSucceeds(i) ==
  /\ electing[i] = "hook"
  /\ electing' = [electing EXCEPT ![i] = "flip"]
  /\ UNCHANGED <<holder, session, lockHeld, leader, quitting,
                 supervisorVars, leaderFaults>>

HookFails(i) ==
  /\ electing[i] = "hook"
  /\ Spend \/ (quitting[i] /\ UNCHANGED leaderFaults)
  /\ electing' = [electing EXCEPT ![i] = "round"]
  /\ UNCHANGED <<holder, session, lockHeld, leader, quitting, supervisorVars>>

(* setLeader: a flip closes the channel every waiter holds.                *)
SetLeader(i, v) ==
  /\ leader' = [leader EXCEPT ![i] = v]
  /\ woken' = [woken EXCEPT ![i] = IF leader[i] # v THEN TRUE ELSE @]

Promote(i) ==
  /\ electing[i] = "flip"
  /\ SetLeader(i, TRUE)
  /\ electing' = [electing EXCEPT ![i] = "round"]
  /\ UNCHANGED <<holder, session, lockHeld, quitting, supervisor, leaderFaults>>

(* probe: an error, from a dead session or (a fault) a slow one, demotes.  *)
ProbeFails(i) ==
  /\ electing[i] = "round"
  /\ ~quitting[i]
  /\ leader[i]
  /\ \/ session[i] # "live" /\ UNCHANGED leaderFaults
     \/ session[i] = "live" /\ Spend
  /\ electing' = [electing EXCEPT ![i] = "release"]
  /\ UNCHANGED <<holder, session, lockHeld, leader, quitting, supervisorVars>>

(* Stop or the end of the context, noticed between two rounds.             *)
Leave(i) ==
  /\ electing[i] = "round"
  /\ quitting[i]
  /\ electing' = [electing EXCEPT ![i] = "release"]
  /\ UNCHANGED <<holder, session, lockHeld, leader, quitting,
                 supervisorVars, leaderFaults>>

(* releasePinned(true): the lock is given back before the flag is cleared. *)
(* An unlock that fails leaves the lock with a connection nobody uses.     *)
Release(i) ==
  /\ electing[i] = "release"
  /\ session' = [session EXCEPT ![i] = "none"]
  /\ lockHeld' = [lockHeld EXCEPT ![i] = FALSE]
  /\ \/ holder = i /\ holder' = NoInstance /\ UNCHANGED leaderFaults
     \/ holder = i /\ holder' = Orphan /\ Spend
     \/ holder # i /\ UNCHANGED <<holder, leaderFaults>>
  /\ electing' = [electing EXCEPT ![i] = "demote"]
  /\ UNCHANGED <<leader, quitting, supervisorVars>>

Demote(i) ==
  /\ electing[i] = "demote"
  /\ SetLeader(i, FALSE)
  /\ electing' = [electing EXCEPT ![i] = IF quitting[i] THEN "left" ELSE "round"]
  /\ UNCHANGED <<holder, session, lockHeld, quitting, supervisor, leaderFaults>>

Elect(i) ==
  \/ Acquire(i) \/ TryLock(i) \/ TryLockFails(i) \/ RetryHook(i)
  \/ HookSucceeds(i) \/ Promote(i) \/ Leave(i) \/ Release(i) \/ Demote(i)
  \/ ProbeFails(i)

------------------------------------------------------------------------------
(* The supervisor of the gated loops                                       *)

Supervise(i, from, to) ==
  /\ supervisor[i] = from
  /\ supervisor' = [supervisor EXCEPT ![i] = to]
  /\ UNCHANGED <<electorVars, leaderFaults>>

(* notify := gate.Notify(), before the flag is read.                       *)
Capture(i) ==
  /\ ~quitting[i]
  /\ Supervise(i, "capture", "check")
  /\ woken' = [woken EXCEPT ![i] = FALSE]

Check(i) ==
  /\ Supervise(i, "check", IF leader[i] THEN "recheck" ELSE "idle")
  /\ UNCHANGED woken

Idle(i) == woken[i] /\ Supervise(i, "idle", "capture") /\ UNCHANGED woken

Recheck(i) ==
  /\ Supervise(i, "recheck", IF leader[i] THEN "waiting" ELSE "stopping")
  /\ UNCHANGED woken

(* After a wake-up the context is looked at before the channel is renewed. *)
Wake(i) ==
  /\ woken[i] \/ quitting[i]
  /\ Supervise(i, "waiting", IF quitting[i] THEN "stopping" ELSE "recapture")
  /\ UNCHANGED woken

(* Mutant of Recapture: the flag is not read again before the next wait.   *)
RecaptureUnread(i) ==
  /\ Supervise(i, "recapture", "waiting")
  /\ woken' = [woken EXCEPT ![i] = FALSE]

Recapture(i) ==
  /\ Supervise(i, "recapture", "recheck")
  /\ woken' = [woken EXCEPT ![i] = FALSE]

(* cancel, then wg.Wait.                                                   *)
LoopsReturn(i) == Supervise(i, "stopping", "capture") /\ UNCHANGED woken

Exit(i) ==
  /\ quitting[i]
  /\ \E from \in {"capture", "idle"} : Supervise(i, from, "gone")
  /\ UNCHANGED woken

Gate(i) ==
  \/ Capture(i) \/ Check(i) \/ Idle(i) \/ Recheck(i) \/ Wake(i)
  \/ Recapture(i) \/ LoopsReturn(i) \/ Exit(i)

------------------------------------------------------------------------------
(* The environment                                                         *)

Stop(i) ==
  /\ ~quitting[i]
  /\ quitting' = [quitting EXCEPT ![i] = TRUE]
  /\ UNCHANGED <<holder, session, lockHeld, leader, electing,
                 supervisorVars, leaderFaults>>

(* The session of a pinned connection ends: at once for the server, or     *)
(* only for the client at first.                                           *)
SessionBreaks(i) ==
  /\ session[i] = "live"
  /\ Spend
  /\ session' = [session EXCEPT ![i] = "dead"]
  /\ IF holder = i THEN holder' \in {NoInstance, Orphan} ELSE UNCHANGED holder
  /\ UNCHANGED <<lockHeld, leader, electing, quitting, supervisorVars>>

(* The server, or the pool that got the connection back, ends the session. *)
Reap ==
  /\ holder = Orphan
  /\ holder' = NoInstance
  /\ UNCHANGED <<session, lockHeld, leader, electing, quitting,
                 supervisorVars, leaderFaults>>

(* The process dies and is started again.                                  *)
Crash(i) ==
  /\ Spend
  /\ holder' = IF holder = i THEN Orphan ELSE holder
  /\ session' = [session EXCEPT ![i] = "none"]
  /\ lockHeld' = [lockHeld EXCEPT ![i] = FALSE]
  /\ leader' = [leader EXCEPT ![i] = FALSE]
  /\ electing' = [electing EXCEPT ![i] = "round"]
  /\ quitting' = [quitting EXCEPT ![i] = FALSE]
  /\ supervisor' = [supervisor EXCEPT ![i] = "capture"]
  /\ woken' = [woken EXCEPT ![i] = FALSE]

LeaderNext ==
  \/ \E i \in Instances : Elect(i) \/ HookFails(i) \/ Gate(i)
  \/ \E i \in Instances : Stop(i) \/ SessionBreaks(i) \/ Crash(i)
  \/ Reap

LeaderSpec == LeaderInit /\ [][LeaderNext]_leaderVars

(* The two goroutines of an instance keep running, a lookup that restores  *)
(* the clusters ends, and the server ends dead sessions.                   *)
LeaderFairness ==
  /\ \A i \in Instances : WF_leaderVars(Elect(i)) /\ WF_leaderVars(Gate(i))
  /\ WF_leaderVars(Reap)

------------------------------------------------------------------------------
(* Properties                                                              *)

(* A leader flag that is not backed by the lock belongs to an instance     *)
(* whose session is dead, or whose unlock has just been done: two leaders  *)
(* at a time are never two healthy ones (the order of campaignRound,       *)
(* releasePinned and setLeader).                                           *)
FlagNeedsLock ==
  \A i \in Instances :
    leader[i] => holder = i \/ session[i] = "dead" \/ electing[i] = "demote"

OneHealthyLeader ==
  \A i, j \in Instances :
    leader[i] /\ leader[j] /\ i # j =>
      \E k \in {i, j} : session[k] = "dead" \/ electing[k] = "demote"

(* A supervisor that sleeps is not asleep on a flip: its loops run exactly *)
(* when the flag is up, or its channel is already closed (the order        *)
(* "capture, check, wait" of leader_gated.go).                             *)
NoLostFlip ==
  \A i \in Instances :
    /\ supervisor[i] = "idle" /\ ~woken[i] => ~leader[i]
    /\ supervisor[i] = "waiting" /\ ~woken[i] => leader[i]

(* Never two healthy leaders, and never a supervisor asleep on a flip.     *)
LeadershipIsSound == OneHealthyLeader /\ NoLostFlip

(* Leadership is handed over: whatever sessions and processes were lost,   *)
(* an instance that is not stopped ends up with the lock, the flag and the *)
(* gated loops.                                                            *)
SomeoneLeads ==
  \/ \A i \in Instances : quitting[i]
  \/ \E i \in Instances : leader[i] /\ holder = i /\ supervisor[i] = "waiting"

LeadershipSettles == []<>SomeoneLeads
===============================================================================
