------------------------------ MODULE SessionFlow ------------------------------
(***************************************************************************)
(* The review session of an incident (cmd/opscopilot/session_flow.go): the *)
(* turns in PostgreSQL are the truth (session_pg.go), an envelope in Redis *)
(* is a copy that is rewritten after every turn and rebuilt when it is     *)
(* gone (internal/sessionstore), and the answers come from a language      *)
(* model that is shown the turns.                                          *)
(*                                                                         *)
(* Any instance serves any request.  Turns are numbered under the row lock *)
(* of the session, so what a snapshot sees is a prefix of the turns, and   *)
(* the envelope is the length of a prefix.                                 *)
(***************************************************************************)
EXTENDS Integers, Sequences, SequencesExt

CONSTANTS
  Asks,             \* requests that add a turn
  Reads,            \* requests that read the session
  NoEnvelope,
  HistoryTurns,     \* the turns a prompt has at most
  MaxMishaps        \* bound on failures and on envelopes that expire

ASSUME SessionAssumption ==
  /\ Asks \cap Reads = {} /\ NoEnvelope \notin Nat
  /\ HistoryTurns \in Nat \ {0} /\ MaxMishaps \in Nat

VARIABLES
  turns,            \* the truth: a sequence of <<request, role>>
  envelope,         \* the copy: how many turns it has, or NoEnvelope
  request,          \* per request: the step it is at
  snapshot,         \* per request: the turns it read for the envelope
  prompt,           \* per request: the turns the model was shown
  model,            \* the language model: "configured" or "none"
  excused,          \* a refresh failed or was overtaken since the last fresh one
  mishaps

sessionVars == <<turns, envelope, request, snapshot, prompt, model, excused, mishaps>>

SessionRequests == Asks \cup Reads

Steps == {"start", "copy", "save", "prompt", "chat", "copyagain", "saveagain", "done"}

SessionTypeOK ==
  /\ turns \in Seq(Asks \X {"user", "assistant"})
  /\ envelope \in {NoEnvelope} \cup 0..Len(turns)
  /\ request \in [SessionRequests -> Steps]
  /\ \A r \in SessionRequests : snapshot[r] \in 0..Len(turns)
  /\ \A r \in Asks : Len(prompt[r]) <= HistoryTurns
  /\ model \in {"configured", "none"} /\ excused \in BOOLEAN /\ mishaps \in 0..MaxMishaps

SessionInit ==
  /\ turns = <<>> /\ envelope = NoEnvelope
  /\ request = [r \in SessionRequests |-> "start"]
  /\ snapshot = [r \in SessionRequests |-> 0]
  /\ prompt = [r \in Asks |-> <<>>]
  /\ model \in {"configured", "none"}
  /\ excused = FALSE /\ mishaps = 0

Mishap == mishaps < MaxMishaps /\ mishaps' = mishaps + 1

At(r, from, to) == request[r] = from /\ request' = [request EXCEPT ![r] = to]

------------------------------------------------------------------------------
(* AddTurn                                                                 *)

(* appendTurn: the row of the session is locked and gives the number.      *)
Appended(r, role) == Append(turns, <<r, role>>)

(* The question is appended; an error ends the request, and the error of   *)
(* a commit may hide a turn that is there.                                 *)
AppendQuestion(r) ==
  /\ \/ At(r, "start", "copy") /\ turns' = Appended(r, "user") /\ UNCHANGED <<mishaps, excused>>
     \/ /\ At(r, "start", "done") /\ Mishap
        /\ turns' \in {turns, Appended(r, "user")}
        /\ excused' = TRUE
  /\ UNCHANGED <<envelope, snapshot, prompt, model>>

(* refreshHot: a snapshot of the truth ...                                 *)
ReadTruth(r, from, to, without) ==
  /\ \/ /\ At(r, from, to)
        /\ snapshot' = [snapshot EXCEPT ![r] = Len(turns)]
        /\ UNCHANGED <<mishaps, excused>>
     \/ At(r, from, without) /\ Mishap /\ excused' = TRUE /\ UNCHANGED snapshot
  /\ UNCHANGED <<turns, envelope, prompt, model>>

(* ... that overwrites the envelope; a failure leaves what was there.      *)
SaveEnvelope(r, from, to) ==
  /\ At(r, from, to)
  /\ \/ /\ envelope' = snapshot[r]
        /\ excused' = (snapshot[r] < Len(turns))
        /\ UNCHANGED mishaps
     \/ Mishap /\ excused' = TRUE /\ UNCHANGED envelope
  /\ UNCHANGED <<turns, snapshot, prompt, model>>

Copy(r) == ReadTruth(r, "copy", "save", "prompt")

Save(r) == SaveEnvelope(r, "save", "prompt")

(* buildPromptDoc: the last turns of the truth, which ought to end with    *)
(* the question; none if they cannot be read.  Without a model the request *)
(* ends here, its answer pending.                                          *)
BuildPrompt(r) ==
  /\ \/ model = "none" /\ At(r, "prompt", "done") /\ UNCHANGED <<prompt, mishaps>>
     \/ /\ model = "configured"
        /\ At(r, "prompt", "chat")
        /\ \/ /\ prompt' = [prompt EXCEPT ![r] =
                   IF Len(turns) > HistoryTurns
                   THEN SubSeq(turns, Len(turns) - HistoryTurns + 1, Len(turns)) ELSE turns]
              /\ UNCHANGED mishaps
           \/ Mishap /\ UNCHANGED prompt
  /\ UNCHANGED <<turns, envelope, snapshot, model, excused>>

(* The model answers and the answer is stored, or the request ends with    *)
(* the answer pending.                                                     *)
Answer(r) ==
  /\ \/ /\ At(r, "chat", "copyagain")
        /\ turns' = Appended(r, "assistant")
        /\ UNCHANGED <<mishaps, excused>>
     \/ At(r, "chat", "done") /\ Mishap /\ UNCHANGED <<turns, excused>>
     \/ /\ At(r, "chat", "done") /\ Mishap
        /\ turns' = Appended(r, "assistant")
        /\ excused' = TRUE
  /\ UNCHANGED <<envelope, snapshot, prompt, model>>

(* Mutant of CopyAgain: the envelope is left as it is.                     *)
CopyNever(r) ==
  /\ At(r, "copyagain", "done")
  /\ UNCHANGED <<turns, envelope, snapshot, prompt, model, excused, mishaps>>

CopyAgain(r) == ReadTruth(r, "copyagain", "saveagain", "done")

SaveAgain(r) == SaveEnvelope(r, "saveagain", "done")

------------------------------------------------------------------------------
(* ReadSession                                                             *)

(* An envelope is returned as it is; a read of Redis that fails counts as  *)
(* no envelope, and so does one of another schema version.                 *)
ReadSession(r) ==
  /\ \/ envelope # NoEnvelope /\ At(r, "start", "done") /\ UNCHANGED mishaps
     \/ envelope = NoEnvelope /\ At(r, "start", "copyagain") /\ UNCHANGED mishaps
     \/ envelope # NoEnvelope /\ At(r, "start", "copyagain") /\ Mishap
  /\ UNCHANGED <<turns, envelope, snapshot, prompt, model, excused>>

(* The time to live of the envelope ends, or Redis loses it.               *)
Expire ==
  /\ envelope # NoEnvelope
  /\ Mishap
  /\ envelope' = NoEnvelope
  /\ UNCHANGED <<turns, request, snapshot, prompt, model, excused>>

SessionNext ==
  \/ \E r \in Asks :
       \/ AppendQuestion(r) \/ Copy(r) \/ Save(r) \/ BuildPrompt(r) \/ Answer(r)
  \/ \E r \in Reads : ReadSession(r)
  \/ \E r \in SessionRequests : CopyAgain(r) \/ SaveAgain(r)
  \/ Expire

SessionSpec == SessionInit /\ [][SessionNext]_sessionVars

------------------------------------------------------------------------------
(* Properties                                                              *)

Refreshing(r) == request[r] \in {"copy", "save", "copyagain", "saveagain"}

(* The envelope falls behind the truth for a reason only: a request is on  *)
(* its way to refresh it, or since the last fresh one a refresh failed, or *)
(* was overtaken by a later one and saved its older snapshot over it.      *)
(* Otherwise what POST stored is what GET shows (session_flow.go:47).      *)
LagIsExplained ==
  envelope # NoEnvelope /\ envelope < Len(turns) =>
    excused \/ \E r \in SessionRequests : Refreshing(r)
===============================================================================
