------------------------------ MODULE AuditPaging ------------------------------
(***************************************************************************)
(* The audit trail and its pages (cmd/opscopilot/audit.go, rest_audit.go): *)
(* entries are appended while a reader walks page by page from the newest  *)
(* to the oldest, with a filter, each page starting after the last entry   *)
(* of the one before (keyset).                                             *)
(*                                                                         *)
(* Filters and cursors compare the wall clock, which may go back; the      *)
(* number of an entry only grows.  PostgreSQL sorts by the wall clock as   *)
(* well.  In memory the stamps are time.Now() values that keep their       *)
(* monotonic reading, and the sort goes by it: by the order in which the   *)
(* entries came.  There the oldest are dropped beyond a limit.             *)
(***************************************************************************)
EXTENDS Integers, Sequences, FiniteSets, SequencesExt, Orders

CONSTANTS
  AuditTimes,       \* readings of the clock
  AuditKinds,       \* what the filters on actor and action tell apart
  AuditLimits,      \* capacities of the memory guard; 0: none
  PageSize,
  MaxEntries        \* bound on the entries

ASSUME AuditAssumption ==
  /\ AuditTimes \subseteq Nat /\ AuditLimits \subseteq Nat
  /\ PageSize \in Nat \ {0} /\ MaxEntries \in Nat

VARIABLES
  entries,       \* a sequence of entries in the order of their numbers
  seq,           \* the last number
  trail,         \* where it is kept: "mem" or "pg"
  auditLimit,    \* of the log in memory
  walk,          \* the filter of the walk and the last entry of the last page
  got,           \* the entries of the pages so far
  due,           \* the matching entries there when the walk began, less those dropped since
  setBack        \* history: in memory, and the clock went back among the entries
                 \* there since the walk began

auditVars == <<entries, seq, trail, auditLimit, walk, got, due, setBack>>

AuditEntries == [at : AuditTimes, kind : AuditKinds, seq : 1..MaxEntries]

(* A filter: a set of kinds and a half-open interval of time.              *)
AuditFilters ==
  [kinds : {{k} : k \in AuditKinds} \cup {AuditKinds}, since : AuditTimes, until : {t + 1 : t \in AuditTimes}]

NoWalk == [state |-> "none"]

AuditTypeOK ==
  /\ entries \in Seq(AuditEntries) /\ seq \in 0..MaxEntries /\ auditLimit \in AuditLimits
  /\ trail \in {"mem", "pg"} /\ setBack \in BOOLEAN
  /\ \A i \in 1..Len(entries) - 1 : entries[i].seq + 1 = entries[i + 1].seq
  /\ entries # <<>> => Last(entries).seq = seq
  /\ auditLimit > 0 => Len(entries) <= auditLimit
  /\ walk.state \in {"none", "first", "more", "end"}
  /\ got \in Seq(AuditEntries) /\ due \subseteq AuditEntries

AuditInit ==
  /\ entries = <<>> /\ seq = 0 /\ auditLimit \in AuditLimits
  /\ trail \in IF auditLimit = 0 THEN {"mem", "pg"} ELSE {"mem"}
  /\ setBack = FALSE
  /\ walk = NoWalk /\ got = <<>> /\ due = {}

(* Append, which stamps the entry and drops the oldest beyond the limit.   *)
AppendEntry(at, kind) ==
  /\ seq < MaxEntries
  /\ seq' = seq + 1
  /\ LET all == Append(entries, [at |-> at, kind |-> kind, seq |-> seq'])
         excess == IF auditLimit > 0 /\ Len(all) > auditLimit THEN Len(all) - auditLimit ELSE 0
     IN  /\ entries' = SubSeq(all, excess + 1, Len(all))
         /\ due' = due \ ToSet(SubSeq(all, 1, excess))
  /\ setBack' = (setBack \/ (trail = "mem" /\ \E e \in ToSet(entries) \cup ToSet(got) : at < e.at))
  /\ UNCHANGED <<trail, auditLimit, walk, got>>

------------------------------------------------------------------------------
(* ListPage                                                                *)

Matches(filter, e) == e.kind \in filter.kinds /\ filter.since <= e.at /\ e.at < filter.until

Newer(e, f) == e.at > f.at \/ (e.at = f.at /\ e.seq > f.seq)

(* The order of a page: ORDER BY occurred_at DESC, id DESC, or in memory   *)
(* auditEntryLessDESC, whose stamps both carry the monotonic reading.      *)
Listed(e, f) == IF trail = "mem" THEN e.seq > f.seq ELSE Newer(e, f)

(* Mutant of AfterCursor: the number does not break ties of the time.      *)
AfterCursorTime(e, last) == e.at < last.at

(* The cursor was text: only its wall clock is left.                       *)
AfterCursor(e, last) == Newer(last, e)

(* What a page is cut from: the matching entries after the cursor, newest  *)
(* first.                                                                  *)
Rest == Sorted({e \in ToSet(entries) :
                  /\ Matches(walk.filter, e)
                  /\ walk.state = "more" => AfterCursor(e, walk.last)}, Listed)

BeginWalk(filter) ==
  /\ walk.state \in {"none", "end"}
  /\ walk' = [state |-> "first", filter |-> filter]
  /\ got' = <<>>
  /\ due' = {e \in ToSet(entries) : Matches(filter, e)}
  /\ setBack' = (trail = "mem" /\ \E e, f \in ToSet(entries) : e.seq < f.seq /\ f.at < e.at)
  /\ UNCHANGED <<entries, seq, trail, auditLimit>>

(* A page of at most PageSize entries; a cursor only if there are more.    *)
ListPage ==
  /\ walk.state \in {"first", "more"}
  /\ IF Len(Rest) > PageSize
     THEN /\ got' = got \o SubSeq(Rest, 1, PageSize)
          /\ walk' = [state |-> "more", filter |-> walk.filter, last |-> Rest[PageSize]]
     ELSE /\ got' = got \o Rest
          /\ walk' = [state |-> "end", filter |-> walk.filter]
  /\ UNCHANGED <<entries, seq, trail, auditLimit, due, setBack>>

AuditNext ==
  \/ \E at \in AuditTimes, kind \in AuditKinds : AppendEntry(at, kind)
  \/ \E filter \in AuditFilters : BeginWalk(filter)
  \/ ListPage

AuditSpec == AuditInit /\ [][AuditNext]_auditVars

------------------------------------------------------------------------------
(* Properties                                                              *)

(* A walk returns matching entries only.  Entries appended and dropped     *)
(* during it, on whatever side of the cursor the clock puts them, do not   *)
(* shift its pages (audit.go:139-147): it returns in order, never twice,   *)
(* and at its end every matching entry that was there all the time.  Not   *)
(* so in memory once the clock was set back among these entries: sorted    *)
(* by one reading and cut by the other, pages repeat and skip.             *)
WalksAreExact ==
  /\ walk.state # "none" => \A e \in ToSet(got) : Matches(walk.filter, e)
  /\ ~setBack =>
       /\ \A i, j \in 1..Len(got) : i < j => Newer(got[i], got[j])
       /\ walk.state = "end" => due \subseteq ToSet(got)
===============================================================================
