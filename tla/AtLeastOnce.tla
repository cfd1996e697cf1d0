----------------------------- MODULE AtLeastOnce -----------------------------
(***************************************************************************)
(* What the ingest queue promises to the rest of the system, without       *)
(* owners, leases or batches: a message accepted into the queue is settled *)
(* only after some complete run of its handler, or it becomes a dead       *)
(* letter after too many failures, and neither verdict is ever revised.    *)
(* A handler may run more than once for one message, even after the        *)
(* verdict (a slow duplicate), which is why the promise is "at least       *)
(* once" and no more.                                                      *)
(***************************************************************************)
CONSTANT Rows                     \* the messages that can ever be accepted

VARIABLES
  phase,                          \* what became of each message
  handled                         \* whether a run of its handler completed

avars == <<phase, handled>>

Phases == {"absent", "pending", "done", "dead", "purged"}

Init ==
  /\ phase = [r \in Rows |-> "absent"]
  /\ handled = [r \in Rows |-> FALSE]

Move(r, from, to) ==
  /\ phase[r] = from
  /\ phase' = [phase EXCEPT ![r] = to]
  /\ UNCHANGED handled

Accept(r) == Move(r, "absent", "pending")

(* The handler of an accepted message runs to completion, once more or for *)
(* the first time.                                                         *)
Handle(r) ==
  /\ phase[r] # "absent"
  /\ handled' = [handled EXCEPT ![r] = TRUE]
  /\ UNCHANGED phase

Settle(r) == handled[r] /\ Move(r, "pending", "done")

Bury(r) == Move(r, "pending", "dead")

Purge(r) == Move(r, "dead", "purged")

Next == \E r \in Rows : Accept(r) \/ Handle(r) \/ Settle(r) \/ Bury(r) \/ Purge(r)

Spec == Init /\ [][Next]_avars
==============================================================================
