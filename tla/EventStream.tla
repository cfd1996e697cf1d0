------------------------------ MODULE EventStream ------------------------------
(***************************************************************************)
(* Live updates of the incident page: the store wrapper that broadcasts    *)
(* after a write and the hub with its buffered subscribers                 *)
(* (cmd/opscopilot/sse.go), the stream handler (rest_stream.go) and the    *)
(* page, which takes a frame as a sign to load the list again              *)
(* (web/src/views/IncidentsView.tsx, web/src/api/sse.ts).                  *)
(*                                                                         *)
(* The list of incidents is the number of writes so far.                   *)
(***************************************************************************)
EXTENDS Integers, FiniteSets, FiniteSetsExt

CONSTANTS
  StoreWriters,       \* goroutines of this instance that write incidents
  Consoles,           \* open incident pages
  FrameBuffer,        \* sseSubBuffer
  MaxSubscribers,     \* maxSSESubscribers
  MaxStoreWrites,     \* bound on the writes
  MaxCuts             \* bound on lost connections and failed loads

ASSUME StreamAssumption ==
  /\ FrameBuffer \in Nat \ {0} /\ MaxSubscribers \in Nat
  /\ MaxStoreWrites \in Nat /\ MaxCuts \in Nat

VARIABLES
  writes,       \* the list in the store
  unsent,       \* per writer: the write it has not broadcast yet, or 0
  hub,          \* "open" or "closed"
  subscribed,   \* the consoles with a subscription
  joined,       \* per console: the writes there were when it subscribed
  buffered,     \* per console: the frames in its buffer
  timer,        \* the consoles whose 300 ms reload timer runs
  loads,        \* per console: what the loads on their way have read
  shown,        \* per console: the list on the page
  loaded,       \* per console: the newest list a load has brought
  loadError,    \* the consoles that show an error of a load
  owed,         \* per console: the newest write broadcast to its subscription
  cuts

streamVars ==
  <<writes, unsent, hub, subscribed, joined, buffered, timer, loads, shown, loaded, loadError, owed, cuts>>

StreamTypeOK ==
  /\ writes \in 0..MaxStoreWrites
  /\ unsent \in [StoreWriters -> 0..writes]
  /\ hub \in {"open", "closed"}
  /\ subscribed \subseteq Consoles /\ Cardinality(subscribed) <= MaxSubscribers
  /\ hub = "closed" => subscribed = {}
  /\ buffered \in [Consoles -> 0..FrameBuffer]
  /\ timer \subseteq Consoles
  /\ loads \in [Consoles -> SUBSET (0..writes)]
  /\ \A c \in Consoles : shown[c] <= loaded[c] /\ loaded[c] \in 0..writes
  /\ loadError \subseteq Consoles
  /\ owed \in [Consoles -> 0..writes] /\ joined \in [Consoles -> 0..writes]
  /\ cuts \in 0..MaxCuts

(* A page loads the list when it is opened, and then subscribes.           *)
StreamInit ==
  /\ writes = 0 /\ unsent = [w \in StoreWriters |-> 0]
  /\ hub = "open" /\ subscribed = {} /\ joined = [c \in Consoles |-> 0]
  /\ buffered = [c \in Consoles |-> 0]
  /\ timer = {}
  /\ loads = [c \in Consoles |-> {0}]
  /\ shown = [c \in Consoles |-> 0] /\ loaded = shown
  /\ loadError = {}
  /\ owed = [c \in Consoles |-> 0]
  /\ cuts = 0

StreamBreaks == cuts < MaxCuts /\ cuts' = cuts + 1

pageVars == <<timer, loads, shown, loaded, loadError>>

------------------------------------------------------------------------------
(* The store wrapper and the hub                                           *)

Written == writes < MaxStoreWrites /\ writes' = writes + 1

(* Create, UpsertExternal, AttachCluster and MergeInto: the write, to be   *)
(* broadcast.                                                              *)
LoudWrite(w) ==
  /\ unsent[w] = 0
  /\ Written
  /\ unsent' = [unsent EXCEPT ![w] = writes']
  /\ UNCHANGED <<hub, subscribed, joined, buffered, owed, cuts, pageVars>>

(* TransitionWithSLA and SetSLA, which the wrapper does not override, and  *)
(* every write of another instance: this hub hears nothing of it.          *)
SilentWrite ==
  /\ Written
  /\ UNCHANGED <<unsent, hub, subscribed, joined, buffered, owed, cuts, pageVars>>

(* A frame into every buffer that has room; elsewhere it is dropped.       *)
Publish(w) ==
  /\ unsent[w] # 0
  /\ buffered' = [c \in Consoles |->
       IF c \in subscribed /\ buffered[c] < FrameBuffer THEN buffered[c] + 1 ELSE buffered[c]]
  /\ owed' = [c \in Consoles |-> IF c \in subscribed THEN Max({owed[c], unsent[w]}) ELSE owed[c]]
  /\ unsent' = [unsent EXCEPT ![w] = 0]
  /\ UNCHANGED <<writes, hub, subscribed, joined, cuts, pageVars>>

Subscribe(c) ==
  /\ c \notin subscribed
  /\ hub = "open" /\ Cardinality(subscribed) < MaxSubscribers
  /\ subscribed' = subscribed \cup {c}
  /\ joined' = [joined EXCEPT ![c] = writes]
  /\ UNCHANGED <<writes, unsent, hub, buffered, owed, cuts, pageVars>>

Unsubscribe(gone) ==
  /\ subscribed' = subscribed \ gone
  /\ buffered' = [c \in Consoles |-> IF c \in gone THEN 0 ELSE buffered[c]]
  /\ owed' = [c \in Consoles |-> IF c \in gone THEN 0 ELSE owed[c]]

(* The handler returns (the client is gone, or a write failed) and cancels *)
(* its subscription: what is in the buffer is lost.                        *)
StreamCut(c) ==
  /\ c \in subscribed /\ StreamBreaks
  /\ Unsubscribe({c})
  /\ UNCHANGED <<writes, unsent, hub, joined, pageVars>>

HubClose ==
  /\ hub = "open" /\ hub' = "closed"
  /\ Unsubscribe(subscribed)
  /\ UNCHANGED <<writes, unsent, joined, cuts, pageVars>>

------------------------------------------------------------------------------
(* The page                                                                *)

(* Mutant of Frame: a page that is loading takes the frame for dealt with. *)
FrameWhileLoading(c) ==
  /\ buffered[c] > 0
  /\ buffered' = [buffered EXCEPT ![c] = @ - 1]
  /\ timer' = IF loads[c] = {} THEN timer \cup {c} ELSE timer
  /\ UNCHANGED <<writes, unsent, hub, subscribed, joined, loads, shown, loaded, loadError, owed, cuts>>

(* A frame starts the timer, unless it runs already.                       *)
Frame(c) ==
  /\ buffered[c] > 0
  /\ buffered' = [buffered EXCEPT ![c] = @ - 1]
  /\ timer' = timer \cup {c}
  /\ UNCHANGED <<writes, unsent, hub, subscribed, joined, loads, shown, loaded, loadError, owed, cuts>>

StartLoad(c) ==
  /\ loads' = [loads EXCEPT ![c] = @ \cup {writes}]
  /\ loadError' = loadError \ {c}

TimerFires(c) ==
  /\ c \in timer /\ timer' = timer \ {c}
  /\ StartLoad(c)
  /\ UNCHANGED <<writes, unsent, hub, subscribed, joined, buffered, shown, loaded, owed, cuts>>

(* Without a stream the page polls.                                        *)
PollList(c) ==
  /\ c \notin subscribed
  /\ StartLoad(c)
  /\ UNCHANGED <<writes, unsent, hub, subscribed, joined, buffered, timer, shown, loaded, owed, cuts>>

(* Answers come in any order, and the last one is shown.                   *)
LoadAnswers(c, list) ==
  /\ list \in loads[c]
  /\ loads' = [loads EXCEPT ![c] = @ \ {list}]
  /\ shown' = [shown EXCEPT ![c] = list]
  /\ loaded' = [loaded EXCEPT ![c] = Max({@, list})]
  /\ UNCHANGED <<writes, unsent, hub, subscribed, joined, buffered, timer, loadError, owed, cuts>>

LoadFails(c, list) ==
  /\ list \in loads[c] /\ StreamBreaks
  /\ loads' = [loads EXCEPT ![c] = @ \ {list}]
  /\ loadError' = loadError \cup {c}
  /\ UNCHANGED <<writes, unsent, hub, subscribed, joined, buffered, timer, shown, loaded, owed>>

StreamNext ==
  \/ \E w \in StoreWriters : LoudWrite(w) \/ Publish(w)
  \/ SilentWrite \/ HubClose
  \/ \E c \in Consoles :
       \/ Subscribe(c) \/ StreamCut(c) \/ Frame(c) \/ TimerFires(c) \/ PollList(c)
       \/ \E list \in loads[c] : LoadAnswers(c, list) \/ LoadFails(c, list)

StreamSpec == StreamInit /\ [][StreamNext]_streamVars

------------------------------------------------------------------------------
(* Properties                                                              *)

ConsoleAtRest(c) == buffered[c] = 0 /\ c \notin timer /\ loads[c] = {}

(* sse.go:13, a dropped frame does no harm since the next one brings the   *)
(* whole list: a page at rest has loaded the list of every write broadcast *)
(* to its subscription, also those whose frame found the buffer full, or   *)
(* shows an error.                                                         *)
BroadcastsAreLoaded ==
  \A c \in Consoles : ConsoleAtRest(c) => loaded[c] >= owed[c] \/ c \in loadError

(* sse.go:5, whatever changes is broadcast to all connected consoles: a    *)
(* page at rest whose stream is up, with no broadcast outstanding, shows   *)
(* the list as it is, if anything was written since it subscribed.         *)
ConsolesSeeEveryChange ==
  (\A w \in StoreWriters : unsent[w] = 0) =>
    \A c \in subscribed :
      ConsoleAtRest(c) /\ writes > joined[c] => shown[c] = writes \/ c \in loadError
===============================================================================
