----------------------------- MODULE TimelinePaging -----------------------------
(***************************************************************************)
(* The timeline of an incident (cmd/opscopilot/rest_timeline.go): alerts,  *)
(* changes and actions are fetched and merged anew for every page, and the *)
(* cursor is an offset in the merged list.  A reader walks the pages while *)
(* verdicts are flushed, changes are recorded, clusters are attached or    *)
(* leave memory, and a source fails now and then.                          *)
(***************************************************************************)
EXTENDS Integers, FiniteSets, SequencesExt, Orders

CONSTANTS
  TimelineClusters, \* clusters an incident may have, each with one node
  TimelineLimit,    \* items of a page
  SourceCap,        \* timelineSourceCap
  MaxTimelineItems, \* bound on what is ever written
  MaxTimelineClock  \* bound on the time

ASSUME TimelineAssumption ==
  /\ TimelineLimit \in Nat \ {0} /\ SourceCap \in Nat \ {0}
  /\ MaxTimelineItems \in Nat /\ MaxTimelineClock \in Nat

VARIABLES
  timelineNow,          \* the time
  written,      \* rows of alert_event, change_record and incident_audit
  attached,     \* cluster keys of the incident
  inMemory,     \* clusters of the noise engine's view
  reading          \* the reader: offset, items read, what it could see at first,
                \* whether a page was partial, and the clusters behind its pages

timelineVars == <<timelineNow, written, attached, inMemory, reading>>

Kinds == {"change", "action", "alert_in", "alert_out"}

Item == [ts : Nat, kind : Kinds, of : TimelineClusters, id : Nat]

TimelineTypeOK ==
  /\ timelineNow \in Nat /\ written \subseteq Item
  /\ attached \subseteq TimelineClusters /\ inMemory \subseteq TimelineClusters
  /\ reading.offset \in Nat /\ reading.pages \in {"none", "more", "end"}
  /\ ToSet(reading.read) \subseteq written /\ reading.first \subseteq written
  /\ reading.partial \in BOOLEAN /\ reading.domains \subseteq SUBSET TimelineClusters

NoReading == [offset |-> 0, pages |-> "none", read |-> <<>>, first |-> {}, partial |-> FALSE,
           domains |-> {}]

TimelineInit ==
  /\ timelineNow = 0 /\ written = {} /\ reading = NoReading
  /\ attached \in SUBSET TimelineClusters /\ inMemory = TimelineClusters

------------------------------------------------------------------------------
(* One page                                                                *)

Rank(kind) == CASE kind = "change" -> 0 [] kind = "action" -> 1 [] kind = "alert_in" -> 2
                [] OTHER -> 3

(* By time, then kind, then source id: a total order.                      *)
TimelineLess(a, b) ==
  \/ a.ts < b.ts
  \/ a.ts = b.ts /\ Rank(a.kind) < Rank(b.kind)
  \/ a.ts = b.ts /\ Rank(a.kind) = Rank(b.kind) /\ a.id < b.id

(* What a source returns: the verdicts of the attached clusters, oldest    *)
(* first and at most SourceCap; the changes on nodes of attached clusters  *)
(* that are in memory; every action.                                       *)
AlertRows ==
  LET rows == {i \in written : i.kind \in {"alert_in", "alert_out"} /\ i.of \in attached} IN
  {i \in rows : Cardinality({j \in rows : TimelineLess(j, i)}) < SourceCap}

ChangeRows == {i \in written : i.kind = "change" /\ i.of \in attached \cap inMemory /\ i.ts <= timelineNow}

ActionRows == {i \in written : i.kind = "action"}

Rows(source) ==
  CASE source = "alert" -> AlertRows [] source = "change" -> ChangeRows [] OTHER -> ActionRows

Sources == {"alert", "change", "action"}

Truncated == Cardinality(AlertRows) >= SourceCap

(* The merged list of the sources that answer, from the offset on.  A page *)
(* is partial if a source failed or the alerts were cut; a cluster missing *)
(* in memory is logged only.                                               *)
AssembleTimeline(failing, offset) ==
  LET full == Sorted(UNION {Rows(s) : s \in Sources \ failing}, TimelineLess)
      from == IF offset > Len(full) THEN Len(full) ELSE offset
      upto == IF from + TimelineLimit > Len(full) THEN Len(full) ELSE from + TimelineLimit IN
  [items |-> SubSeq(full, from + 1, upto), next |-> upto, more |-> upto < Len(full),
   partial |-> failing # {} \/ ("alert" \notin failing /\ Truncated)]

------------------------------------------------------------------------------

TimePasses ==
  /\ timelineNow < MaxTimelineClock
  /\ timelineNow' = timelineNow + 1
  /\ UNCHANGED <<written, attached, inMemory, reading>>

NextId == Cardinality(written)

(* A verdict, flushed by its queue some time after the alert; a change,    *)
(* reported some time after it occurred.                                   *)
RowIsWritten(kind, ts, c) ==
  /\ kind # "action" /\ ts <= timelineNow /\ NextId < MaxTimelineItems
  /\ written' = written \cup {[ts |-> ts, kind |-> kind, of |-> c, id |-> NextId]}
  /\ UNCHANGED <<timelineNow, attached, inMemory, reading>>

(* An action is audited when it happens; attaching a cluster is one.       *)
ActionIsAudited(c) ==
  /\ NextId < MaxTimelineItems
  /\ written' = written \cup {[ts |-> timelineNow, kind |-> "action", of |-> c, id |-> NextId]}
  /\ attached' \in {attached, attached \cup {c}}
  /\ UNCHANGED <<timelineNow, inMemory, reading>>

(* A cluster is evicted by the guards, or restored with a new leader.      *)
MemoryChanges(c) ==
  /\ inMemory' = IF c \in inMemory THEN inMemory \ {c} ELSE inMemory \cup {c}
  /\ UNCHANGED <<timelineNow, written, attached, reading>>

(* The reader asks for the first page, or follows the cursor.              *)
ReadPage(failing) ==
  /\ reading.pages # "end"
  /\ LET page == AssembleTimeline(failing, reading.offset) IN
       reading' = [offset |-> page.next,
                pages |-> IF page.more THEN "more" ELSE "end",
                read |-> reading.read \o page.items,
                first |-> IF reading.pages = "none" THEN UNION {Rows(s) : s \in Sources}
                          ELSE reading.first,
                partial |-> reading.partial \/ page.partial,
                domains |-> reading.domains \cup {attached \cap inMemory}]
  /\ UNCHANGED <<timelineNow, written, attached, inMemory>>

TimelineNext ==
  \/ TimePasses
  \/ \E kind \in Kinds, ts \in 0..MaxTimelineClock, c \in TimelineClusters :
       RowIsWritten(kind, ts, c)
  \/ \E c \in TimelineClusters : ActionIsAudited(c) \/ MemoryChanges(c)
  \/ \E failing \in SUBSET Sources : ReadPage(failing)

TimelineSpec == TimelineInit /\ [][TimelineNext]_timelineVars

------------------------------------------------------------------------------
(* Properties                                                              *)

(* The claim of the file's header (rest_timeline.go:27 "新事件只会追加在尾          *)
(* 部，不会移动已读页的偏移"): a reader that reached the end through                   *)
(* complete pages, with the same clusters on each, read nothing twice and  *)
(* everything that was there when it began.  A row written later may sort  *)
(* before what was read: a change of the same instant as the action read,  *)
(* or of the same second, to which its time is cut; a verdict flushed late. *)
TimelinePagesAreWhole ==
  reading.pages = "end" /\ ~reading.partial /\ Cardinality(reading.domains) = 1 =>
    /\ Cardinality(ToSet(reading.read)) = Len(reading.read)
    /\ reading.first \subseteq ToSet(reading.read)
===============================================================================
