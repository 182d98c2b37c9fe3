---------------------------- MODULE Conversation ----------------------------
(* What the CLI of a turn knows of its conversation.  A send writes the     *)
(* user's message, then either resumes the Grok session captured so far or  *)
(* replays recent messages into the prompt (grokoo_session, grokoo_runner). *)
(* SessionRuns models the life of runs and rows; here a run is its CLI and  *)
(* the events its worker handles, and matters for what it is told, for the  *)
(* session id it reports and for the messages it leaves.                    *)
EXTENDS Integers, FiniteSets

CONSTANTS
  MaxTurns,     \* turns of the session (bounds the behaviour)
  HistoryMax,   \* HISTORY_MAX_MESSAGES
  LateWorkers,  \* may a worker have events left when the next turn is sent?
  Forgets,      \* may the CLI lose the sessions it stored?
  None

ASSUME ConversationAssumption ==
  /\ MaxTurns \in Nat \ {0} /\ HistoryMax \in Nat \ {0}
  /\ LateWorkers \in BOOLEAN /\ Forgets \in BOOLEAN /\ None \notin Nat

Turns == 1..MaxTurns
(* Messages in the order of their ids: at most two for a turn.  0 stands    *)
(* for the system prompt, in what a CLI knows.                              *)
Messages == 1..2 * MaxTurns

VARIABLES
  row,        \* state of the session record
  turnCount,  \* its turn_count
  grokId,     \* its grok_session_id: the turn whose CLI began it, or None
  author,     \* the messages: whose turn and role, in the order of creation
  phase,      \* a turn: unsent, sent, running, over (no events left), closed
  resume,     \* the Grok session its CLI is told to resume, or None
  prompt,     \* the messages its prompt file holds
  known,      \* the messages its CLI knows
  id,         \* the Grok session its CLI works in
  done,       \* did its result event say success?
  streaming,  \* output_format: streaming-json, or json
  reports,    \* does the installed CLI report the id of its session?
  stored      \* the messages each Grok session holds, None if it is lost

record == <<row, turnCount, grokId, author>>
turn   == <<phase, resume, prompt, known, id, done>>
cli    == <<streaming, reports>>
vars   == <<record, turn, cli, stored>>

Author == [turn : Turns, role : {"user", "assistant"}]
Count  == Cardinality(DOMAIN author)
Phases == {"unsent", "sent", "running", "over", "closed"}

TypeOK ==
  /\ row \in {"idle", "running", "done", "error"} /\ turnCount \in 0..MaxTurns
  /\ grokId \in Turns \cup {None}
  /\ Count \in 0..2 * MaxTurns /\ author \in [1..Count -> Author]
  /\ \A m, n \in 1..Count : author[m] = author[n] => m = n
  /\ phase \in [Turns -> Phases] /\ done \in [Turns -> BOOLEAN]
  /\ resume \in [Turns -> Turns \cup {None}] /\ id \in [Turns -> Turns \cup {None}]
  /\ prompt \in [Turns -> SUBSET (Messages \cup {0})] /\ known \in [Turns -> SUBSET (Messages \cup {0})]
  /\ cli \in BOOLEAN \X BOOLEAN /\ stored \in [Turns -> (SUBSET (Messages \cup {0})) \cup {None}]

Init ==
  /\ row = "idle" /\ turnCount = 0 /\ grokId = None /\ author = [m \in {} |-> None]
  /\ phase = [t \in Turns |-> "unsent"] /\ done = [t \in Turns |-> FALSE]
  /\ resume = [t \in Turns |-> None] /\ id = resume
  /\ prompt = [t \in Turns |-> {}] /\ known = prompt
  /\ streaming \in BOOLEAN /\ reports \in BOOLEAN /\ stored = [t \in Turns |-> None]

-----------------------------------------------------------------------------
(* A message is created at the end of the list.                             *)
WithMessage(t, r) ==
  [m \in 1..Count + 1 |-> IF m \in DOMAIN author THEN author[m] ELSE [turn |-> t, role |-> r]]

(* _history_for_prompt: the last messages, the user's new one among them.   *)
History(n) == {m \in 1..n : m > n - HistoryMax}

(* Slip: the system prompt goes out with the first turn only.               *)
PromptFirstOnly(first, resuming) ==
  (IF first THEN {0} ELSE {}) \cup (IF resuming THEN {} ELSE History(Count + 1)) \cup {Count + 1}

(* _compose_prompt: system prompt, history and message.                     *)
Prompt(first, resuming) ==
  (IF first \/ ~resuming THEN {0} ELSE {})
    \cup (IF resuming THEN {} ELSE History(Count + 1)) \cup {Count + 1}

(* send_message and _launch.                                                *)
Send(t) ==
  LET first    == turnCount = 0
      resuming == ~first /\ grokId # None
  IN
  /\ row # "running" /\ phase[t] = "unsent" /\ \A u \in 1..t - 1 : phase[u] # "unsent"
  /\ LateWorkers \/ \A u \in 1..t - 1 : phase[u] \in {"over", "closed"}
  /\ row' = "running" /\ author' = WithMessage(t, "user")
  /\ phase' = [phase EXCEPT ![t] = "sent"]
  /\ resume' = [resume EXCEPT ![t] = IF resuming THEN grokId ELSE None]
  /\ prompt' = [prompt EXCEPT ![t] = Prompt(first, resuming)]
  /\ UNCHANGED <<turnCount, grokId, known, id, done, cli, stored>>

(* The CLI reads its prompt, and goes on in the session it resumes or in a  *)
(* copy of it.                                                              *)
CliStarts(t) ==
  LET before == IF resume[t] = None THEN {} ELSE stored[resume[t]] IN
  /\ phase[t] = "sent" /\ before # None /\ phase' = [phase EXCEPT ![t] = "running"]
  /\ known' = [known EXCEPT ![t] = before \cup prompt[t]]
  /\ \E s \in {t, resume[t]} \ {None} :
       id' = [id EXCEPT ![t] = s] /\ stored' = [stored EXCEPT ![s] = known'[t]]
  /\ UNCHANGED <<record, resume, prompt, done, cli>>

(* Slip: the first id is kept.                                              *)
CapturedFirst(t) == IF reports /\ grokId = None THEN id[t] ELSE grokId

(* _capture_session_id, at the init event and at the result.                *)
Captured(t) == IF reports THEN id[t] ELSE grokId

InitEvent(t) ==
  /\ streaming /\ phase[t] = "running" /\ grokId' = Captured(t)
  /\ UNCHANGED <<row, turnCount, author, turn, cli, stored>>

(* Text is the turn's one assistant message, which the CLI stores too.      *)
Says(t) ==
  /\ author' = WithMessage(t, "assistant")
  /\ known' = [known EXCEPT ![t] = @ \cup {Count + 1}]
  /\ stored' = [stored EXCEPT ![id[t]] = IF @ = None THEN None ELSE @ \cup {Count + 1}]

(* Slip: each event makes a message.                                        *)
TextAgain(t) ==
  /\ streaming /\ phase[t] = "running" /\ Says(t)
  /\ UNCHANGED <<row, turnCount, grokId, phase, resume, prompt, id, done, cli>>

Text(t) ==
  /\ streaming /\ phase[t] = "running" /\ Says(t)
  /\ \A m \in 1..Count : author[m] # [turn |-> t, role |-> "assistant"]
  /\ UNCHANGED <<row, turnCount, grokId, phase, resume, prompt, id, done, cli>>

(* The result event.                                                        *)
Result(t) ==
  /\ streaming /\ phase[t] = "running" /\ phase' = [phase EXCEPT ![t] = "over"]
  /\ grokId' = Captured(t) /\ row' = "done" /\ done' = [done EXCEPT ![t] = TRUE]
  /\ UNCHANGED <<turnCount, author, resume, prompt, known, id, cli, stored>>

(* The json format: _handle_final_json and the end of _execute, one commit. *)
(* Of a turn that was stopped nothing is read.                              *)
FinalObject(t) ==
  /\ ~streaming /\ phase[t] = "running" /\ row = "running" /\ Says(t)
  /\ phase' = [phase EXCEPT ![t] = "closed"] /\ turnCount' = turnCount + 1
  /\ grokId' = Captured(t) /\ row' = "done" /\ done' = [done EXCEPT ![t] = TRUE]
  /\ UNCHANGED <<resume, prompt, id, cli>>

(* An error event; or the output ends without a result.                     *)
Fails(t) ==
  /\ phase[t] \in {"sent", "running"} /\ phase' = [phase EXCEPT ![t] = "over"]
  /\ row' \in {row, "error"}
  /\ UNCHANGED <<turnCount, grokId, author, resume, prompt, known, id, done, cli, stored>>

(* The end of _execute: the turn counts, whatever became of it, and settles *)
(* a row that still runs.                                                   *)
Finish(t) ==
  /\ phase[t] = "over" /\ phase' = [phase EXCEPT ![t] = "closed"]
  /\ turnCount' = turnCount + 1
  /\ row' \in IF row = "running" THEN {"done", "error"} ELSE {row}
  /\ UNCHANGED <<grokId, author, resume, prompt, known, id, done, cli, stored>>

(* An exception ends the worker: _run_worker writes error; no turn counts.  *)
Raise(t) ==
  /\ phase[t] \in {"sent", "running"} /\ phase' = [phase EXCEPT ![t] = "closed"]
  /\ row' = "error"
  /\ UNCHANGED <<turnCount, grokId, author, resume, prompt, known, id, done, cli, stored>>

(* action_stop, or the reaper.  The worker goes on with what the CLI wrote. *)
Stop ==
  /\ row = "running" /\ row' \in {"idle", "error"}
  /\ UNCHANGED <<turnCount, grokId, author, turn, cli, stored>>

(* The CLI's store in the user's home is pruned or wiped.                   *)
Forget ==
  /\ Forgets /\ \E s \in Turns : stored[s] # None /\ stored' = [stored EXCEPT ![s] = None]
  /\ UNCHANGED <<record, turn, cli>>

Next ==
  \/ Stop \/ Forget
  \/ \E t \in Turns :
       \/ Send(t) \/ CliStarts(t) \/ InitEvent(t) \/ Text(t)
       \/ Result(t) \/ FinalObject(t) \/ Fails(t) \/ Finish(t) \/ Raise(t)

Spec == Init /\ [][Next]_vars

(***************************************************************************)
(* Properties                                                              *)
(***************************************************************************)
(* "Conversation continuity -- resumes the Grok session id when emitted;    *)
(* otherwise replays recent history": whatever turns were stopped, failed  *)
(* or said nothing of their session, a CLI that starts knows every message *)
(* of a turn that ended well among the last HistoryMax.  Needs a worker to *)
(* be through with its events before the next send, and a CLI that reports *)
(* its session every time or never.                                        *)
Continuity ==
  \A t \in Turns : phase[t] = "running" =>
    \A m \in History(Count) :
      done[author[m].turn] /\ author[m].turn < t => m \in known[t]

(* "The full system prompt is included on the first turn or whenever we    *)
(* are not resuming": no CLI works without it, whichever session, of       *)
(* whichever earlier turn, it was told to resume.                          *)
SystemPromptKnown == \A t \in Turns : phase[t] = "running" => 0 \in known[t]

(* A session that could not be resumed is not resumed again: the code does  *)
(* not keep to this.                                                        *)
DeadIdDropped ==
  [][\A t, u \in Turns :
       Send(t) /\ u < t /\ resume[u] # None /\ stored[resume[u]] = None /\ known[u] = {}
       => resume'[t] # resume[u]]_vars
=============================================================================
