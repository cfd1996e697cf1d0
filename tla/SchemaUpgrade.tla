----------------------------- MODULE SchemaUpgrade -----------------------------
(***************************************************************************)
(* The schema of the database and the ledger of its version: the upgrade   *)
(* command (cmd/opscopilot/upgrade.go), which may run in several places    *)
(* and die at any point, the building of a whole schema without a ledger   *)
(* (scripts/migrate), golang-migrate (external), which may die as well,    *)
(* and the gate every server passes at its start (schema_gate.go).         *)
(*                                                                         *)
(* golang-migrate marks a version dirty before it applies it, and clean    *)
(* after; neither the gate nor the upgrade looks at the mark.              *)
(***************************************************************************)
EXTENDS Integers, FiniteSets, FiniteSetsExt

CONSTANTS
  Upgraders,        \* runs of `opscopilot upgrade`
  Binaries,         \* the SchemaMaxVersion of the server binaries
  Latest,           \* the newest migration; an upgrade binary supports it
  Statements,       \* statements of a migration
  MaxVersionGap,
  MaxUpgradeFaults  \* bound on failed statements and deaths

ASSUME SchemaAssumption ==
  /\ Latest \in Nat \ {0} /\ Statements \in Nat \ {0} /\ Binaries \subseteq 1..Latest
  /\ MaxVersionGap \in Nat /\ MaxUpgradeFaults \in Nat

VARIABLES
  applied,        \* per migration: how many of its statements the schema has
  shape,          \* of schema_migrations: "absent", "own", "golang" or "bare"
  versionRows,    \* the versions in its rows
  dirty,          \* the mark of golang-migrate's single row
  golang,         \* its run, one at a time: it holds a lock
  halfway,        \* history: the versions it marked and did not get done
  upgrade,        \* per run: [at |-> step, version |-> .., done |-> statements]
  gate,           \* per server binary: the answer it got at its start
  upgradeFaults

golangVars == <<dirty, golang, halfway>>
ledgerVars == <<shape, versionRows, golangVars>>
schemaVars == <<applied, ledgerVars, upgrade, gate, upgradeFaults>>

Migrations == 1..Latest
UpgradeAbsent == [at |-> "idle", version |-> 0, done |-> 0]

SchemaTypeOK ==
  /\ applied \in [Migrations -> 0..Statements]
  /\ shape \in {"absent", "own", "golang", "bare"}
  /\ versionRows \subseteq Migrations /\ (shape = "absent" => versionRows = {})
  /\ dirty \in BOOLEAN /\ halfway \subseteq Migrations
  /\ golang \in [at : {"idle", "next", "applying"}, version : 0..Latest, done : 0..Statements]
  /\ (dirty \/ golang.at # "idle") => shape = "golang"
  /\ upgrade \in [Upgraders -> [at : {"idle", "read", "backed up", "applying"},
                                version : 0..Latest, done : 0..Statements]]
  /\ gate \in [Binaries -> {"not asked", "silent", "warned", "refused"}]
  /\ upgradeFaults \in 0..MaxUpgradeFaults

SchemaInit ==
  /\ applied = [v \in Migrations |-> 0]
  /\ shape \in {"absent", "bare"} /\ versionRows = {}
  /\ dirty = FALSE /\ golang = UpgradeAbsent /\ halfway = {}
  /\ upgrade = [u \in Upgraders |-> UpgradeAbsent]
  /\ gate = [b \in Binaries |-> "not asked"]
  /\ upgradeFaults = 0

SchemaFault == upgradeFaults < MaxUpgradeFaults /\ upgradeFaults' = upgradeFaults + 1

(* readSchemaVersion: the greatest row, 0 without a table or a row.        *)
SchemaVersion == Max(versionRows \cup {0})

Complete(v) == applied[v] = Statements

------------------------------------------------------------------------------

(* The run reads the version; with nothing pending it has nothing to do.   *)
(* The pending migrations are those above that version.                    *)
ReadVersion(u) ==
  /\ upgrade[u].at = "idle" /\ SchemaVersion < Latest
  /\ upgrade' = [upgrade EXCEPT ![u] = [at |-> "read", version |-> SchemaVersion + 1, done |-> 0]]
  /\ UNCHANGED <<applied, ledgerVars, gate, upgradeFaults>>

(* The backup comes before every write; its failure ends the run.          *)
BackUp(u) ==
  /\ upgrade[u].at = "read"
  /\ \/ upgrade' = [upgrade EXCEPT ![u].at = "backed up"] /\ UNCHANGED upgradeFaults
     \/ upgrade' = [upgrade EXCEPT ![u] = UpgradeAbsent] /\ SchemaFault
  /\ UNCHANGED <<applied, ledgerVars, gate>>

(* The ledger is created unless there is one, of whatever shape.           *)
EnsureLedger(u) ==
  /\ upgrade[u].at = "backed up"
  /\ upgrade' = [upgrade EXCEPT ![u].at = "applying"]
  /\ shape' = IF shape = "absent" THEN "own" ELSE shape
  /\ UNCHANGED <<applied, versionRows, golangVars, gate, upgradeFaults>>

(* One statement; it is idempotent (IF NOT EXISTS).                        *)
ApplyStatement(u) ==
  LET v == upgrade[u].version
      n == upgrade[u].done + 1 IN
  /\ upgrade[u].at = "applying" /\ n <= Statements
  /\ applied' = [applied EXCEPT ![v] = Max({@, n})]
  /\ upgrade' = [upgrade EXCEPT ![u].done = n]
  /\ UNCHANGED <<ledgerVars, gate, upgradeFaults>>

(* The row of a version: golang-migrate's ledger has a single one, which   *)
(* is rewritten, clean, in a transaction; the others get a row more.       *)
Registered(v) == IF shape = "golang" THEN {v} ELSE versionRows \cup {v}

(* Mutant of RegisterVersion: the version is registered before the last    *)
(* statement.                                                              *)
RegisterEarly(u) ==
  LET v == upgrade[u].version IN
  /\ upgrade[u].at = "applying" /\ upgrade[u].done = Statements - 1 /\ v \notin versionRows
  /\ versionRows' = Registered(v)
  /\ UNCHANGED <<applied, shape, golangVars, upgrade, gate, upgradeFaults>>

RegisterVersion(u) ==
  LET v == upgrade[u].version IN
  /\ upgrade[u].at = "applying" /\ upgrade[u].done = Statements
  /\ versionRows' = Registered(v)
  /\ upgrade' = [upgrade EXCEPT ![u] =
                   IF v = Latest THEN UpgradeAbsent ELSE [@ EXCEPT !.version = v + 1, !.done = 0]]
  /\ dirty' = (dirty /\ shape # "golang")
  /\ UNCHANGED <<applied, shape, golang, halfway, gate, upgradeFaults>>

(* A statement, a registration or the connection fails, or the run dies.   *)
UpgradeBreaks(u) ==
  /\ upgrade[u].at = "applying" /\ SchemaFault
  /\ upgrade' = [upgrade EXCEPT ![u] = UpgradeAbsent]
  /\ UNCHANGED <<applied, ledgerVars, gate>>

(* scripts/migrate applies the files from the first on and keeps no ledger; *)
(* it may fail at any statement.                                           *)
MigrateAll ==
  /\ \E v \in Migrations, n \in 0..Statements :
       applied' = [w \in Migrations |-> IF w < v THEN Statements
                                        ELSE IF w = v THEN Max({n, applied[w]}) ELSE applied[w]]
  /\ UNCHANGED <<ledgerVars, upgrade, gate, upgradeFaults>>

(* golang-migrate (external).  It makes its ledger, refuses a dirty one and *)
(* goes on from the version there.                                         *)
GolangReads ==
  /\ golang.at = "idle" /\ shape \in {"absent", "golang"} /\ ~dirty /\ SchemaVersion < Latest
  /\ shape' = "golang"
  /\ golang' = [at |-> "next", version |-> SchemaVersion + 1, done |-> 0]
  /\ UNCHANGED <<applied, versionRows, dirty, halfway, upgrade, gate, upgradeFaults>>

(* The row of the next version, dirty, comes before its first statement, ... *)
GolangMarks ==
  LET v == golang.version IN
  /\ golang.at = "next"
  /\ golang' = [golang EXCEPT !.at = "applying"]
  /\ versionRows' = {v} /\ dirty' = TRUE /\ halfway' = halfway \cup {v}
  /\ UNCHANGED <<applied, shape, upgrade, gate, upgradeFaults>>

GolangApplies ==
  LET n == golang.done + 1 IN
  /\ golang.at = "applying" /\ n <= Statements
  /\ applied' = [applied EXCEPT ![golang.version] = Max({@, n})]
  /\ golang' = [golang EXCEPT !.done = n]
  /\ UNCHANGED <<shape, versionRows, dirty, halfway, upgrade, gate, upgradeFaults>>

(* ... and the clean row after the last.                                   *)
GolangRegisters ==
  LET v == golang.version IN
  /\ golang.at = "applying" /\ golang.done = Statements
  /\ golang' = IF v = Latest THEN UpgradeAbsent ELSE [at |-> "next", version |-> v + 1, done |-> 0]
  /\ versionRows' = {v} /\ dirty' = FALSE /\ halfway' = halfway \ {v}
  /\ UNCHANGED <<applied, shape, upgrade, gate, upgradeFaults>>

GolangBreaks ==
  /\ golang.at # "idle" /\ SchemaFault
  /\ golang' = UpgradeAbsent
  /\ UNCHANGED <<applied, shape, versionRows, dirty, halfway, upgrade, gate>>

(* The domain tables come with the first migration.                        *)
Untracked == SchemaVersion = 0 /\ applied[1] > 0

GateAnswer(b) ==
  IF SchemaVersion > b THEN "refused"
  ELSE IF SchemaVersion = b THEN "silent"
  ELSE IF Untracked \/ b - SchemaVersion <= MaxVersionGap THEN "warned"
  ELSE "refused"

(* A server starts, again and again; an unreadable ledger lets it pass.    *)
StartupSchemaGate(b) ==
  /\ gate' \in {[gate EXCEPT ![b] = GateAnswer(b)], [gate EXCEPT ![b] = "warned"]}
  /\ UNCHANGED <<applied, ledgerVars, upgrade, upgradeFaults>>

SchemaNext ==
  \/ MigrateAll
  \/ GolangReads \/ GolangMarks \/ GolangApplies \/ GolangRegisters \/ GolangBreaks
  \/ \E u \in Upgraders :
       \/ ReadVersion(u) \/ BackUp(u) \/ EnsureLedger(u) \/ ApplyStatement(u)
       \/ RegisterVersion(u) \/ UpgradeBreaks(u)
  \/ \E b \in Binaries : StartupSchemaGate(b)

SchemaSpec == SchemaInit /\ [][SchemaNext]_schemaVars

------------------------------------------------------------------------------
(* Properties                                                              *)

(* The ledger is backed by the schema (upgrade.go:140 "版本未记录——修复后重         *)
(* 跑"): every migration up to the version read has all its statements,     *)
(* with runs dying halfway and several runs at once, on its own ledger, a  *)
(* bare one and golang-migrate's; so a server the gate let pass in silence *)
(* has its whole schema, and keeps it while newer migrations come.  All    *)
(* but the versions golang-migrate marked and did not get done: the gate   *)
(* and the upgrade take them as applied, and a newer row hides the mark.   *)
LedgerIsBacked ==
  /\ \A v \in 1..SchemaVersion : Complete(v) \/ v \in halfway
  /\ \A b \in Binaries : gate[b] = "silent" => \A v \in 1..b : Complete(v) \/ v \in halfway
===============================================================================
