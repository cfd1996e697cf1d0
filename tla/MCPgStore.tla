------------------------------ MODULE MCPgStore ------------------------------
(***************************************************************************)
(* The PostgreSQL store with small sets, for TLC.  Before the calls whose  *)
(* statements interleave there is a history: a few steps of the contract,  *)
(* which are calls that ran alone.                                         *)
(***************************************************************************)
EXTENDS PgStore, TLC

CONSTANT MaxHistory         \* bound: steps before the first call

VARIABLE history            \* the steps of the history, MaxHistory once it is over

Symmetry == Permutations(Calls)

MCInit == PgInit /\ history = 0

MCNext ==
  \/ history < MaxHistory /\ Next /\ history' = history + 1 /\ UNCHANGED call
  \/ PgNext /\ history' = MaxHistory

MCSpec == MCInit /\ [][MCNext]_<<pgVars, history>>
=============================================================================
