---------------------------- MODULE NotifyChannels ----------------------------
(***************************************************************************)
(* The notification channels of every instance: the configured rows in     *)
(* PostgreSQL (cmd/opscopilot/notify_channels.go), the registry an         *)
(* instance sends through (internal/notify/notify.go), and the reload of   *)
(* the registry after a change of the rows (assembly.go, rest_notify.go).  *)
(*                                                                         *)
(* A reload takes the registry's mutex once per call: it clears, puts the  *)
(* console back, reads the enabled rows and registers them one by one.     *)
(* Nothing keeps two requests on one instance from reloading at a time.    *)
(* A channel stands for its row with its URL and its severity.             *)
(***************************************************************************)
EXTENDS Integers, FiniteSets

CONSTANTS
  Gateways,         \* the instances
  Channels,         \* configurable channels
  Console,          \* the built-in channel
  Requests,         \* requests of the REST API handled at a time
  MinSeverity,      \* the rank below which a channel is not interested
  MaxEdits          \* bound on the changes of the rows

ASSUME ChannelAssumption ==
  /\ Console \notin Channels
  /\ MinSeverity \in [Channels -> 1..3]
  /\ MaxEdits \in Nat

VARIABLES
  rows,             \* the enabled rows of notify_channel
  registry,         \* Registry.channels of every instance
  editing,          \* per request: the step of its reload and the rows it read
  edits             \* changes so far

channelVars == <<rows, registry, editing, edits>>

ChannelTypeOK ==
  /\ rows \subseteq Channels
  /\ registry \in [Gateways -> SUBSET (Channels \cup {Console})]
  /\ editing \in [Requests -> [at : {"none", "clear", "console", "list", "register"},
                               on : Gateways, read : SUBSET Channels]]
  /\ edits \in 0..MaxEdits

ChannelInit ==
  /\ rows \in SUBSET Channels
  /\ registry = [g \in Gateways |-> rows \cup {Console}]
  /\ editing \in [Requests -> [at : {"none"}, on : Gateways, read : {{}}]]
  /\ edits = 0

(* channelAccepts: the console takes everything.                           *)
Accepts(c, severity) == c = Console \/ severity >= MinSeverity[c]

ChannelsFor(g, severity) == {c \in registry[g] : Accepts(c, severity)}

------------------------------------------------------------------------------
(* Upsert, SetEnabled or Delete of a row, on the instance that got the     *)
(* request; a write that fails ends the request.                           *)
Edit(r) ==
  /\ editing[r].at = "none"
  /\ edits < MaxEdits
  /\ edits' = edits + 1
  /\ \E c \in Channels :
       rows' \in {rows \cup {c}, rows \ {c}}
  /\ editing' = [editing EXCEPT ![r].at = "clear"]
  /\ UNCHANGED registry

Reload(r, from, to, reg) ==
  /\ editing[r].at = from
  /\ editing' = [editing EXCEPT ![r].at = to]
  /\ registry' = [registry EXCEPT ![editing[r].on] = reg]
  /\ UNCHANGED <<rows, edits>>

Clear(r) == Reload(r, "clear", "console", {})

RegisterConsole(r) ==
  Reload(r, "console", "list", registry[editing[r].on] \cup {Console})

(* ListEnabled; when it fails the request ends with the console alone.     *)
ListEnabled(r) ==
  /\ editing[r].at = "list"
  /\ editing' = [editing EXCEPT ![r].at = "register", ![r].read = rows]
  /\ UNCHANGED <<rows, registry, edits>>

Register(r) ==
  /\ editing[r].at = "register"
  /\ \E c \in editing[r].read :
       /\ registry' = [registry EXCEPT ![editing[r].on] = @ \cup {c}]
       /\ editing' = [editing EXCEPT ![r].read = @ \ {c}]
  /\ UNCHANGED <<rows, edits>>

ReloadEnds(r) ==
  /\ \/ editing[r].at = "register" /\ editing[r].read = {}
     \/ editing[r].at = "list"
  /\ editing' = [editing EXCEPT ![r].at = "none"]
  /\ UNCHANGED <<rows, registry, edits>>

ReloadStep(r) ==
  Clear(r) \/ RegisterConsole(r) \/ ListEnabled(r) \/ Register(r) \/ ReloadEnds(r)

ChannelNext == \E r \in Requests : Edit(r) \/ ReloadStep(r)

ChannelSpec == ChannelInit /\ [][ChannelNext]_channelVars
===============================================================================
