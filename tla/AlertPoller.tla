------------------------------ MODULE AlertPoller ------------------------------
(***************************************************************************)
(* Pulling alerts (cmd/opscopilot/pull_alerts.go): every instance has a    *)
(* poller; its loop runs while the instance leads (leader_gated.go).  A    *)
(* round fetches the list of active alerts and puts into the import queue  *)
(* those it has not seen with that content.  What it has seen stays in its *)
(* memory while it does not lead.                                          *)
(*                                                                         *)
(* The content of an alert is a version: each change of the alert, its     *)
(* disappearance and return included (the return has another activeAt),    *)
(* is a new one.  The queue takes one unprocessed row per alert            *)
(* (IngestQueue.tla has the whole of it).                                  *)
(***************************************************************************)
EXTENDS Integers

CONSTANTS
  Pollers,
  PolledAlerts,
  Unlisted,           \* the content of an alert that is not listed
  MaxAlertChanges,    \* bound on what happens to an alert
  MaxPollFaults       \* bound on failures, restarts and changes of the leader

ASSUME PollerAssumption ==
  /\ Unlisted \notin Nat /\ MaxAlertChanges \in Nat /\ MaxPollFaults \in Nat

VARIABLES
  listed,       \* per alert: its content in the list of Prometheus
  changes,      \* per alert: the last version it had
  poller,       \* per poller: "off", "waiting", "walking" or "leaving" (walking, its loop cancelled)
  seen,         \* per poller and alert: the content it has put into the queue
  fetched,      \* per poller and alert: the content in the list of this round
  left,         \* per poller: the alerts of this round still to be looked at
  row,          \* per alert: the content of its unprocessed row in the queue
  imported,     \* per alert: the contents the queue accepted
  walked,       \* per poller: the alerts of its last complete round
  pollFaults

pollerVars ==
  <<listed, changes, poller, seen, fetched, left, row, imported, walked, pollFaults>>

AlertContents == 1..MaxAlertChanges \cup {Unlisted}

PollerTypeOK ==
  /\ listed \in [PolledAlerts -> AlertContents]
  /\ changes \in [PolledAlerts -> 0..MaxAlertChanges]
  /\ poller \in [Pollers -> {"off", "waiting", "walking", "leaving"}]
  /\ seen \in [Pollers -> [PolledAlerts -> AlertContents]]
  /\ fetched \in [Pollers -> [PolledAlerts -> AlertContents]]
  /\ \A p \in Pollers : left[p] \subseteq {a \in PolledAlerts : fetched[p][a] # Unlisted}
  /\ row \in [PolledAlerts -> AlertContents]
  /\ imported \in [PolledAlerts -> SUBSET (1..MaxAlertChanges)]
  /\ walked \in [Pollers -> SUBSET PolledAlerts]
  /\ pollFaults \in 0..MaxPollFaults

NothingListed == [a \in PolledAlerts |-> Unlisted]

PollerInit ==
  /\ listed = NothingListed /\ changes = [a \in PolledAlerts |-> 0]
  /\ poller = [p \in Pollers |-> "off"]
  /\ seen = [p \in Pollers |-> NothingListed]
  /\ fetched = [p \in Pollers |-> NothingListed]
  /\ left = [p \in Pollers |-> {}]
  /\ row = NothingListed
  /\ imported = [a \in PolledAlerts |-> {}]
  /\ walked = [p \in Pollers |-> {}]
  /\ pollFaults = 0

PollFault == pollFaults < MaxPollFaults /\ pollFaults' = pollFaults + 1

------------------------------------------------------------------------------
(* Around the poller                                                       *)

(* An alert appears, changes or goes.                                      *)
AlertChanges(a) ==
  /\ \/ /\ changes[a] < MaxAlertChanges
        /\ changes' = [changes EXCEPT ![a] = @ + 1]
        /\ listed' = [listed EXCEPT ![a] = changes'[a]]
     \/ listed[a] # Unlisted /\ listed' = [listed EXCEPT ![a] = Unlisted] /\ UNCHANGED changes
  /\ UNCHANGED <<poller, seen, fetched, left, row, imported, walked, pollFaults>>

(* A worker of the queue has processed the row of the alert.               *)
RowProcessed(a) ==
  /\ row[a] # Unlisted
  /\ row' = [row EXCEPT ![a] = Unlisted]
  /\ UNCHANGED <<listed, changes, poller, seen, fetched, left, imported, walked, pollFaults>>

(* The instance gains or loses leadership.  The cancelled context ends a   *)
(* fetch; a round that has its list goes on to its end.                    *)
PollerStarts(p) ==
  /\ poller[p] = "off"
  /\ poller' = [poller EXCEPT ![p] = "waiting"]
  /\ UNCHANGED <<listed, changes, seen, fetched, left, row, imported, walked, pollFaults>>

PollerStops(p) ==
  /\ PollFault
  /\ \/ poller[p] = "waiting" /\ poller' = [poller EXCEPT ![p] = "off"]
     \/ poller[p] = "walking" /\ poller' = [poller EXCEPT ![p] = "leaving"]
  /\ UNCHANGED <<listed, changes, seen, fetched, left, row, imported, walked>>

PollerRestarts(p) ==
  /\ PollFault
  /\ poller' = [poller EXCEPT ![p] = "off"]
  /\ seen' = [seen EXCEPT ![p] = NothingListed]
  /\ fetched' = [fetched EXCEPT ![p] = NothingListed]
  /\ left' = [left EXCEPT ![p] = {}]
  /\ walked' = [walked EXCEPT ![p] = {}]
  /\ UNCHANGED <<listed, changes, row, imported>>

------------------------------------------------------------------------------
(* pollOnce                                                                *)

(* A fetch that fails ends the round and leaves everything as it is.       *)
FetchAlerts(p) ==
  /\ poller[p] = "waiting"
  /\ poller' = [poller EXCEPT ![p] = "walking"]
  /\ fetched' = [fetched EXCEPT ![p] = listed]
  /\ left' = [left EXCEPT ![p] = {a \in PolledAlerts : listed[a] # Unlisted}]
  /\ UNCHANGED <<listed, changes, seen, row, imported, walked, pollFaults>>

Walking(p) == poller[p] \in {"walking", "leaving"}

RoundEnds(p) == poller' = [poller EXCEPT ![p] = IF @ = "leaving" THEN "off" ELSE "waiting"]

Accept(a, content) ==
  /\ row' = [row EXCEPT ![a] = content]
  /\ imported' = [imported EXCEPT ![a] = @ \cup {content}]

(* An alert that was seen with this content is left; any other is offered  *)
(* to the queue, which refuses it while the alert has an unprocessed row:  *)
(* seen in both cases.                                                     *)
Offer(p, a) ==
  /\ Walking(p) /\ a \in left[p]
  /\ left' = [left EXCEPT ![p] = @ \ {a}]
  /\ IF seen[p][a] = fetched[p][a]
     THEN UNCHANGED <<seen, row, imported>>
     ELSE /\ seen' = [seen EXCEPT ![p][a] = fetched[p][a]]
          /\ IF row[a] = Unlisted THEN Accept(a, fetched[p][a]) ELSE UNCHANGED <<row, imported>>
  /\ UNCHANGED <<listed, changes, poller, fetched, walked, pollFaults>>

(* Mutant of OfferFails: the alert is marked before it is offered.         *)
OfferMarkedFirst(p, a) ==
  /\ Walking(p) /\ a \in left[p] /\ seen[p][a] # fetched[p][a]
  /\ PollFault
  /\ seen' = [seen EXCEPT ![p][a] = fetched[p][a]]
  /\ left' = [left EXCEPT ![p] = {}]
  /\ fetched' = [fetched EXCEPT ![p] = NothingListed]
  /\ RoundEnds(p)
  /\ UNCHANGED <<listed, changes, row, imported, walked>>

(* An error of Enqueue, whose row may be there all the same, ends the      *)
(* round: the alert is not marked, the rest is not looked at and nothing   *)
(* is forgotten.                                                           *)
OfferFails(p, a) ==
  /\ Walking(p) /\ a \in left[p] /\ seen[p][a] # fetched[p][a]
  /\ PollFault
  /\ \/ row[a] = Unlisted /\ Accept(a, fetched[p][a])
     \/ UNCHANGED <<row, imported>>
  /\ left' = [left EXCEPT ![p] = {}]
  /\ fetched' = [fetched EXCEPT ![p] = NothingListed]
  /\ RoundEnds(p)
  /\ UNCHANGED <<listed, changes, seen, walked>>

(* At the end of the list what is not on it is forgotten.                  *)
Forget(p) ==
  /\ Walking(p) /\ left[p] = {}
  /\ seen' = [seen EXCEPT ![p] =
       [a \in PolledAlerts |-> IF fetched[p][a] = Unlisted THEN Unlisted ELSE @[a]]]
  /\ walked' = [walked EXCEPT ![p] = {a \in PolledAlerts : fetched[p][a] # Unlisted}]
  /\ fetched' = [fetched EXCEPT ![p] = NothingListed]
  /\ RoundEnds(p)
  /\ UNCHANGED <<listed, changes, left, row, imported, pollFaults>>

PollerNext ==
  \/ \E a \in PolledAlerts : AlertChanges(a) \/ RowProcessed(a)
  \/ \E p \in Pollers :
       \/ PollerStarts(p) \/ PollerStops(p) \/ PollerRestarts(p)
       \/ FetchAlerts(p) \/ Forget(p)
       \/ \E a \in PolledAlerts : Offer(p, a) \/ OfferFails(p, a)

PollerSpec == PollerInit /\ [][PollerNext]_pollerVars

------------------------------------------------------------------------------
(* Properties                                                              *)

(* No alert of a complete round was passed over: each was accepted by the  *)
(* queue with some content, in this round or before, however many rounds   *)
(* broke off in between, wherever the leader moved and whatever the error  *)
(* of Enqueue hid (pull_alerts.go:230-252).                                *)
WalkedIsImported == \A p \in Pollers : \A a \in walked[p] : imported[a] # {}
===============================================================================
