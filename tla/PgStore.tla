------------------------------- MODULE PgStore -------------------------------
(***************************************************************************)
(* The PostgreSQL incident store (internal/incident/pg_*.go) and the       *)
(* archive transaction of the retention sweeper, statement by statement    *)
(* under READ COMMITTED.  inc and cluster are what is committed.           *)
(*                                                                         *)
(* A call is one execution of a method.  Its statements read what is       *)
(* committed when they start; what it writes becomes visible, and its      *)
(* locks are freed, at its commit, which is one step with the last         *)
(* statement.  A statement that would wait for a lock is not enabled.  The *)
(* row locks are those of PostgreSQL: FOR UPDATE; NO KEY UPDATE, which an  *)
(* UPDATE takes; and KEY SHARE, which a foreign key takes on the incident  *)
(* a cluster is put on.                                                    *)
(***************************************************************************)
EXTENDS IncidentStore

CONSTANTS
  Calls,        \* the calls that are ever made
  Retries       \* bound: externalGenRetries

ASSUME PgAssumption ==
  /\ Retries \in Nat \ {0}
  /\ NoIncident \notin Series \cup Clusters

VARIABLE call   \* of each call: the statement it is at, and its locals

pgVars == <<svars, call>>

Ends == {"committed", "failed"}

Statements == {"new", "update",
               "look", "pick", "refresh", "insert",
               "owner", "link", "touch",
               "target", "move", "close", "mark",
               "delete"} \cup Ends

Call == [at : Statements,
         i : Ids \cup {NoIncident},              \* the incident it is about
         t : Ids \cup {NoIncident},              \* the target of a merge
         k : Clusters \cup {NoIncident},         \* the cluster to attach
         s : Series \cup {NoIncident},           \* the series to upsert
         to : States \cup {"none"},
         by : Actors \cup {"nobody"},
         gens : SUBSET Generations,              \* the rows its SELECT found
         moved : SUBSET Clusters,                \* rows updated, not committed
         gone : SUBSET Ids,                      \* rows deleted under way
         tries : 0..Retries]

NewCall == [at |-> "new", i |-> NoIncident, t |-> NoIncident, k |-> NoIncident,
            s |-> NoIncident, to |-> "none", by |-> "nobody",
            gens |-> {}, moved |-> {}, gone |-> {}, tries |-> 0]

Running(x) == call[x].at \notin {"new"} \cup Ends

PgInit ==
  /\ Init
  /\ call = [x \in Calls |-> NewCall]

Proceeds(x, c) == call' = [call EXCEPT ![x] = c]
Commits(x) == Proceeds(x, [NewCall EXCEPT !.at = "committed"])

(* An error, a refusal, a deadline, the victim of a deadlock: rolled back. *)
(* A call that returns early because nothing is left to do ends here too.  *)
Fail(x) ==
  /\ Running(x)
  /\ Proceeds(x, [NewCall EXCEPT !.at = "failed"])
  /\ UNCHANGED svars

------------------------------------------------------------------------------
(* Row locks                                                               *)

ForUpdate(c, r) == c.at \in {"update", "refresh", "insert", "delete"} /\ c.i = r

NoKeyUpdate(c, r) == c.at = "mark" /\ c.i = r /\ r \notin c.gone

KeyShare(c, r) ==
  \/ c.at = "touch" /\ c.i = r
  \/ c.at \in {"close", "mark"} /\ c.moved # {} /\ c.t = r

Others(x) == {call[y] : y \in Calls \ {x}}

(* What x has to wait for before it may take a lock on r.                  *)
MayUpdate(x, r) ==                 \* FOR UPDATE
  \A d \in Others(x) : ~ForUpdate(d, r) /\ ~NoKeyUpdate(d, r) /\ ~KeyShare(d, r)
MayChange(x, r) ==                 \* NO KEY UPDATE
  \A d \in Others(x) : ~ForUpdate(d, r) /\ ~NoKeyUpdate(d, r)
MayRefer(x, r) ==                  \* KEY SHARE
  \A d \in Others(x) : ~ForUpdate(d, r)

------------------------------------------------------------------------------
(* Transition: SELECT state FOR UPDATE and planTransition; UPDATE          *)

(* Mutant of TransitionSelect: the state is read without a lock.           *)
TransitionSelectUnlocked(x, i, to, by) ==
  /\ call[x].at = "new"
  /\ CanTransition(inc[i].state, to)
  /\ Proceeds(x, [NewCall EXCEPT !.at = "update", !.i = i, !.to = to, !.by = by])
  /\ UNCHANGED svars

TransitionSelect(x, i, to, by) ==
  /\ call[x].at = "new"
  /\ MayUpdate(x, i)
  /\ CanTransition(inc[i].state, to)
  /\ Proceeds(x, [NewCall EXCEPT !.at = "update", !.i = i, !.to = to, !.by = by])
  /\ UNCHANGED svars

TransitionUpdate(x) ==
  /\ call[x].at = "update"
  /\ inc' = [inc EXCEPT ![call[x].i] = Apply(@, call[x].to, call[x].by)]
  /\ Commits(x)
  /\ UNCHANGED cluster

------------------------------------------------------------------------------
(* UpsertExternal: SELECT ... ORDER BY generation DESC LIMIT 1 FOR UPDATE; *)
(* then an UPDATE of the current generation or an INSERT of the next       *)

UpsertLook(x, s) ==
  /\ \/ call[x].at = "new"
     \/ call[x].at = "look" /\ s = call[x].s
  /\ Proceeds(x, [NewCall EXCEPT !.at = "pick", !.s = s, !.gens = Gens(s),
                                 !.tries = call[x].tries])
  /\ UNCHANGED svars

(* The rows the SELECT found that are not deleted by now.                  *)
Live(c) == {g \in c.gens : <<c.s, g>> \notin c.gone}

(* The SELECT waits for the lock on its first row.  What it gets is that   *)
(* row as it is then, or the next one if it was deleted; the order and     *)
(* what it left out are of the time it started.                            *)
UpsertPick(x) ==
  /\ call[x].at = "pick"
  /\ \/ /\ Live(call[x]) = {}                                        \* pgx.ErrNoRows
        /\ Proceeds(x, [call[x] EXCEPT !.at = "insert"])
     \/ \E g \in Live(call[x]) :
          LET r == <<call[x].s, g>>
          IN  /\ \A h \in Live(call[x]) : h <= g
              /\ MayUpdate(x, r)
              /\ Proceeds(x, [call[x] EXCEPT
                                !.i = r,
                                !.at = IF Unresolved(r) THEN "refresh" ELSE "insert"])
  /\ UNCHANGED svars

UpsertRefresh(x) ==
  /\ call[x].at = "refresh"
  /\ Commits(x)
  /\ UNCHANGED svars

(* The generation it inserts: the first, or the one after the row it read. *)
NextGen(c) == IF c.i = NoIncident THEN 1 ELSE c.i[2] + 1

(* A unique violation: everything is rolled back and tried again, up to a  *)
(* bound.  Otherwise the new generation is committed.                      *)
UpsertInsert(x) ==
  /\ call[x].at = "insert"
  /\ NextGen(call[x]) \in Generations
  /\ LET r == <<call[x].s, NextGen(call[x])>>
     IN  \/ /\ ~Exists(r)
            /\ inc' = [inc EXCEPT ![r] = Fresh("external", "auto")]
            /\ Commits(x)
            /\ UNCHANGED cluster
         \/ /\ Exists(r)
            /\ IF call[x].tries + 1 < Retries
               THEN Proceeds(x, [NewCall EXCEPT !.at = "look", !.s = call[x].s,
                                                !.tries = call[x].tries + 1])
               ELSE Proceeds(x, [NewCall EXCEPT !.at = "failed"])
            /\ UNCHANGED svars

Upsert(x) == UpsertPick(x) \/ UpsertRefresh(x) \/ UpsertInsert(x)

------------------------------------------------------------------------------
(* AttachCluster: SELECT the incident; SELECT the cluster's owner; INSERT; *)
(* UPDATE updated_at                                                       *)

AttachFind(x, i, k) ==
  /\ call[x].at = "new"
  /\ Exists(i)
  /\ Proceeds(x, [NewCall EXCEPT !.at = "owner", !.i = i, !.k = k])
  /\ UNCHANGED svars

AttachOwner(x) ==
  /\ call[x].at = "owner"
  /\ cluster[call[x].k] = NoIncident
  /\ Proceeds(x, [call[x] EXCEPT !.at = "link"])
  /\ UNCHANGED svars

(* The unique index on the cluster waits for the same key under way; the   *)
(* foreign key needs the row that was found.                               *)
AttachLink(x) ==
  /\ call[x].at = "link"
  /\ cluster[call[x].k] = NoIncident
  /\ \A d \in Others(x) : ~(d.at = "touch" /\ d.k = call[x].k)
  /\ call[x].i \notin call[x].gone
  /\ MayRefer(x, call[x].i)
  /\ Proceeds(x, [call[x] EXCEPT !.at = "touch"])
  /\ UNCHANGED svars

AttachTouch(x) ==
  /\ call[x].at = "touch"
  /\ MayChange(x, call[x].i)
  /\ cluster' = [cluster EXCEPT ![call[x].k] = call[x].i]
  /\ Commits(x)
  /\ UNCHANGED inc

Attach(x) == AttachOwner(x) \/ AttachLink(x) \/ AttachTouch(x)

------------------------------------------------------------------------------
(* MergeInto: SELECT source; SELECT target; UPDATE the source's clusters;  *)
(* UPDATE the source; UPDATE the target's updated_at                       *)

MergeSource(x, i, t) ==
  /\ call[x].at = "new"
  /\ i # t
  /\ Exists(i)
  /\ ~(inc[i].mergedInto = t /\ inc[i].state = "resolved")
  /\ Proceeds(x, [NewCall EXCEPT !.at = "target", !.i = i, !.t = t])
  /\ UNCHANGED svars

MergeTarget(x) ==
  /\ call[x].at = "target"
  /\ Exists(call[x].t)
  /\ Proceeds(x, [call[x] EXCEPT !.at = "move", !.gone = @ \ {call[x].t}])
  /\ UNCHANGED svars

(* The clusters on the row that was read as the source.                    *)
Owned(c) == {k \in Clusters : cluster[k] = c.i /\ c.i \notin c.gone}

MergeMove(x) ==
  /\ call[x].at = "move"
  /\ \A d \in Others(x) : d.moved \cap Owned(call[x]) = {}
  /\ Owned(call[x]) # {} => call[x].t \notin call[x].gone /\ MayRefer(x, call[x].t)
  /\ Proceeds(x, [call[x] EXCEPT !.at = "close", !.moved = Owned(call[x])])
  /\ UNCHANGED svars

(* Without the row, the UPDATE is one of no rows.                          *)
MergeClose(x) ==
  /\ call[x].at = "close"
  /\ call[x].i \notin call[x].gone => MayChange(x, call[x].i)
  /\ Proceeds(x, [call[x] EXCEPT !.at = "mark"])
  /\ UNCHANGED svars

MergeMark(x) ==
  /\ call[x].at = "mark"
  /\ call[x].t \notin call[x].gone => MayChange(x, call[x].t)
  /\ inc' = IF call[x].i \in call[x].gone
            THEN inc
            ELSE [inc EXCEPT ![call[x].i].state = "resolved",
                             ![call[x].i].mergedInto = call[x].t]
  /\ cluster' = [k \in Clusters |-> IF k \in call[x].moved THEN call[x].t ELSE cluster[k]]
  /\ Commits(x)

Merge(x) == MergeTarget(x) \/ MergeMove(x) \/ MergeClose(x) \/ MergeMark(x)

------------------------------------------------------------------------------
(* sweepOnce, for a batch of one: SELECT FOR UPDATE with the condition on  *)
(* the state again; DELETE, which cascades to the clusters                 *)

(* Mutant of SweepSelect: the candidates are not locked.                   *)
SweepSelectUnlocked(x, i) ==
  /\ call[x].at = "new"
  /\ inc[i].state = "resolved"
  /\ Proceeds(x, [NewCall EXCEPT !.at = "delete", !.i = i])
  /\ UNCHANGED svars

SweepSelect(x, i) ==
  /\ call[x].at = "new"
  /\ inc[i].state = "resolved"
  /\ MayUpdate(x, i)
  /\ Proceeds(x, [NewCall EXCEPT !.at = "delete", !.i = i])
  /\ UNCHANGED svars

(* The cascade waits for the rows a merge is moving away.                  *)
SweepDelete(x) ==
  LET i == call[x].i
  IN  /\ call[x].at = "delete"
      /\ \A d \in Others(x) : \A k \in d.moved : cluster[k] # i
      /\ inc' = [inc EXCEPT ![i] = Absent]
      /\ cluster' = [k \in Clusters |-> IF cluster[k] = i THEN NoIncident ELSE cluster[k]]
      /\ call' = [y \in Calls |->
                    IF y = x THEN [NewCall EXCEPT !.at = "committed"]
                    ELSE IF Running(y) THEN [call[y] EXCEPT !.gone = @ \cup {i}]
                    ELSE call[y]]

------------------------------------------------------------------------------
(* Create is one statement, which commits by itself.                       *)
Begin(x) ==
  \/ \E i \in Ids, to \in States : TransitionSelect(x, i, to, "human")
  \/ \E i \in Ids : TransitionSelect(x, i, "resolved", "system")
  \/ \E s \in Series : UpsertLook(x, s)
  \/ \E i \in Ids, k \in Clusters : AttachFind(x, i, k)
  \/ \E i, t \in Ids : MergeSource(x, i, t)
  \/ \E i \in Ids : SweepSelect(x, i)

PgNext ==
  \/ \E i \in Ids : Create(i) /\ UNCHANGED call
  \/ \E x \in Calls : Begin(x)
  \/ \E x \in Calls : TransitionUpdate(x) \/ Upsert(x) \/ Attach(x) \/ Merge(x)
  \/ \E x \in Calls : SweepDelete(x) \/ Fail(x)

PgSpec == PgInit /\ [][PgNext]_pgVars

------------------------------------------------------------------------------
(* Properties                                                              *)

(* The locks are held as PostgreSQL would grant them, and the rows that    *)
(* are locked exist.                                                       *)
LocksOK ==
  \A x \in Calls, r \in Ids :
    LET c == call[x]
    IN  /\ ForUpdate(c, r) => MayUpdate(x, r)
        /\ NoKeyUpdate(c, r) => MayChange(x, r)
        /\ KeyShare(c, r) => MayRefer(x, r)
        /\ ForUpdate(c, r) \/ NoKeyUpdate(c, r) \/ KeyShare(c, r) => Exists(r)

PgTypeOK ==
  /\ TypeOK
  /\ call \in [Calls -> Call]
  /\ LocksOK

(* What a call read without a lock has changed under it.  For an upsert: a *)
(* generation of its series was archived while it ran.  For a merge: one   *)
(* of the two was; or a cluster arrived at the source after its clusters   *)
(* were moved; or somebody else has merged it there.                       *)
Overtaken(c) ==
  \/ c.at \in {"refresh", "insert"} /\ \E g \in Generations : <<c.s, g>> \in c.gone
  \/ c.at = "mark" /\ \/ c.i \in c.gone \/ c.t \in c.gone
                      \/ Owned(c) # c.moved
                      \/ inc[c.i].mergedInto = c.t /\ inc[c.i].state = "resolved"

(* The step of the contract that the last statement of a call stands for.  *)
Promised(c) ==
  \/ c.at = "update" /\ Transition(c.i, c.to, c.by)
  \/ c.at = "refresh" /\ Refresh(c.s, c.i)
  \/ c.at = "insert" /\ Recur(c.s, <<c.s, NextGen(c)>>)
  \/ c.at = "touch" /\ AttachCluster(c.i, c.k)
  \/ c.at = "mark" /\ MergeInto(c.i, c.t)
  \/ c.at = "delete" /\ Archive(c.i)

Committing(x) == Running(x) /\ call'[x].at = "committed"

(* Each call that commits does, at its commit, what the contract says of   *)
(* its method, in every interleaving of the statements, unless it was      *)
(* overtaken; and every other step is one of the contract too, or changes  *)
(* nothing that is stored (the locks of pg_crud.go:62, pg_external.go:89   *)
(* and retention.go:143).                                                  *)
CommitsKeepTheContract ==
  [][/\ \A x \in Calls : Committing(x) => Promised(call[x]) \/ Overtaken(call[x])
     /\ \/ \E x \in Calls : Committing(x) /\ Overtaken(call[x])
        \/ Next
        \/ UNCHANGED svars]_pgVars
==============================================================================
