----------------------------- MODULE ConnectorHost -----------------------------
(***************************************************************************)
(* The host of the connectors (internal/connector/host.go): one loop takes *)
(* rounds on a ticker, runs the connectors that are due one after the      *)
(* other, each within its time limit, and backs off from those that fail.  *)
(* Time is counted in ticks of the first backoff, one second.              *)
(***************************************************************************)
EXTENDS Integers, FiniteSets

CONSTANTS
  Connectors,
  PollInterval,   \* ticks between two firings of the ticker
  MaxBackoff,     \* cap of the backoff, in ticks
  ConnTimeout     \* ticks a connector may take in a round

ASSUME ConnectorAssumption ==
  /\ PollInterval \in Nat \ {0} /\ MaxBackoff \in Nat \ {0} /\ ConnTimeout \in Nat
  /\ IsFiniteSet(Connectors)

VARIABLES
  up,          \* per connector: does its source answer
  retryIn,     \* per connector: ticks left of its backoff window
  backoff,     \* per connector: the length of the window, 0 when cleared
  dueNow,         \* the connectors this round has yet to run
  running,     \* the connector being run, as a set of at most one
  sourceSeen,        \* the states of its source during this run
  timeLeft,    \* ticks left to it
  tickIn,      \* ticks to the next firing of the ticker
  ticked,      \* a firing waits in the ticker's channel of one
  untried     \* per connector: ticks its source has answered without being asked

hostVars ==
  <<up, retryIn, backoff, dueNow, running, sourceSeen, timeLeft, tickIn, ticked, untried>>

Capped(a, b) == IF a < b THEN a ELSE b

(* The longest a source that answers waits: its backoff, the firing after  *)
(* it, the round that is under way by then and its own.                    *)
TriedWithin == MaxBackoff + PollInterval + 2 * Cardinality(Connectors) * ConnTimeout

HostTypeOK ==
  /\ up \in [Connectors -> BOOLEAN]
  /\ retryIn \in [Connectors -> 0..MaxBackoff]
  /\ backoff \in [Connectors -> 0..MaxBackoff]
  /\ dueNow \subseteq Connectors
  /\ running \subseteq Connectors /\ Cardinality(running) <= 1
  /\ sourceSeen \subseteq BOOLEAN
  /\ timeLeft \in 0..ConnTimeout
  /\ tickIn \in 1..PollInterval
  /\ ticked \in BOOLEAN
  /\ untried \in [Connectors -> 0..TriedWithin + 1]

(* Run takes its first round at once.                                      *)
HostInit ==
  /\ up \in [Connectors -> BOOLEAN]
  /\ retryIn = [c \in Connectors |-> 0]
  /\ backoff = [c \in Connectors |-> 0]
  /\ dueNow = Connectors
  /\ running = {} /\ sourceSeen = {} /\ timeLeft = 0
  /\ tickIn = PollInterval /\ ticked = FALSE
  /\ untried = [c \in Connectors |-> 0]

------------------------------------------------------------------------------

(* A source stops or resumes answering.                                    *)
SourceFlips(c) ==
  /\ up' = [up EXCEPT ![c] = ~@]
  /\ sourceSeen' = IF c \in running THEN sourceSeen \cup {up'[c]} ELSE sourceSeen
  /\ untried' = [untried EXCEPT ![c] = 0]
  /\ UNCHANGED <<retryIn, backoff, dueNow, running, timeLeft, tickIn, ticked>>

(* A round takes `now` once and skips the connectors whose window has not  *)
(* ended by then, even if it ends during the round.                        *)
RunOnce ==
  /\ running = {} /\ dueNow = {} /\ ticked
  /\ dueNow' = {c \in Connectors : retryIn[c] = 0}
  /\ ticked' = FALSE
  /\ UNCHANGED <<up, retryIn, backoff, running, sourceSeen, timeLeft, tickIn, untried>>

RunConnector(c) ==
  /\ running = {} /\ c \in dueNow
  /\ dueNow' = dueNow \ {c}
  /\ running' = {c} /\ sourceSeen' = {up[c]} /\ timeLeft' = ConnTimeout
  /\ UNCHANGED <<up, retryIn, backoff, tickIn, ticked, untried>>

(* Mutant of NextBackoff: the cap is gone.                                 *)
NextBackoffUncapped(b) == IF b = 0 THEN 1 ELSE 2 * b

(* The first window is a second, each failure doubles it up to the cap.    *)
NextBackoff(b) == Capped(IF b = 0 THEN 1 ELSE 2 * b, MaxBackoff)

ZeroAt(S, f) == [c \in Connectors |-> IF c \in S THEN 0 ELSE f[c]]

BackOff ==
  /\ backoff' = [c \in Connectors |-> IF c \in running THEN NextBackoff(backoff[c]) ELSE backoff[c]]
  /\ retryIn' = [c \in Connectors |-> IF c \in running THEN backoff'[c] ELSE retryIn[c]]

RunEnds ==
  /\ running' = {} /\ sourceSeen' = {} /\ timeLeft' = 0
  /\ UNCHANGED <<up, dueNow, tickIn, ticked>>

(* The health check of a source that was down at some time of the run.     *)
CheckFails ==
  /\ running # {} /\ FALSE \in sourceSeen
  /\ BackOff /\ RunEnds
  /\ UNCHANGED untried

(* The source answered and was asked, but the collection, the discovery or *)
(* a delivery to the sink fails; what the collection returned, with or     *)
(* without an error, has been delivered unless the sink refused it.  Some  *)
(* sources end every run so: Collect of azure returns ErrUnsupported.      *)
WorkFails ==
  /\ running # {} /\ TRUE \in sourceSeen
  /\ BackOff /\ RunEnds
  /\ untried' = ZeroAt(running, untried)

Succeeds ==
  /\ running # {} /\ TRUE \in sourceSeen
  /\ backoff' = ZeroAt(running, backoff)
  /\ retryIn' = ZeroAt(running, retryIn)
  /\ untried' = ZeroAt(running, untried)
  /\ RunEnds

(* A tick passes when no step is overdue: the loop does not dawdle between *)
(* connectors, a run ends within its limit.  A firing of the ticker that   *)
(* finds one waiting is dropped.                                           *)
SecondPasses ==
  /\ IF running = {} THEN dueNow = {} /\ ~ticked ELSE timeLeft > 0
  /\ timeLeft' = IF running = {} THEN 0 ELSE timeLeft - 1
  /\ retryIn' = [c \in Connectors |-> IF retryIn[c] = 0 THEN 0 ELSE retryIn[c] - 1]
  /\ tickIn' = IF tickIn = 1 THEN PollInterval ELSE tickIn - 1
  /\ ticked' = (ticked \/ tickIn = 1)
  /\ untried' = [c \in Connectors |-> IF up[c] THEN Capped(untried[c] + 1, TriedWithin + 1) ELSE 0]
  /\ UNCHANGED <<up, backoff, dueNow, running, sourceSeen>>

HostNext ==
  \/ RunOnce \/ CheckFails \/ WorkFails \/ Succeeds \/ SecondPasses
  \/ \E c \in Connectors : SourceFlips(c) \/ RunConnector(c)

HostSpec == HostInit /\ [][HostNext]_hostVars

------------------------------------------------------------------------------
(* Properties                                                              *)

(* A failure loses no work for good (host.go:247 "断连不丢任务"): a source       *)
(* that has answered all along for TriedWithin ticks is asked again within *)
(* them, whatever its backoff had grown to, for whatever reason, however   *)
(* many firings of the ticker were dropped and whatever the other sources  *)
(* do meanwhile.  What the run then makes of its answer is another matter. *)
AnsweringIsTried == \A c \in Connectors : untried[c] <= TriedWithin
===============================================================================
