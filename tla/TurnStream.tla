----------------------------- MODULE TurnStream -----------------------------
(* How the worker turns the CLI's event stream into the one assistant       *)
(* message of the turn and into bus notifications (grokoo_runner.py).       *)
(*                                                                          *)
(* The CLI is external: any event may follow any other.  An event is        *)
(* handled block by block and committed as a whole; notifications queued    *)
(* meanwhile are sent by the commit.  An exception ends the turn and        *)
(* commits what the failed handler had written.  The row is shared with     *)
(* Stop and the reaper (SessionRuns), of which only the write is kept here. *)
EXTENDS Naturals, Sequences

CONSTANTS
  Ids,        \* ids the CLI gives its tool calls; "tool-N" is written N
  None,
  MaxText,    \* text blocks of a turn (bound)
  MaxCalls    \* tool calls of a turn (bound)

ASSUME StreamAssumption ==
  MaxText \in Nat /\ MaxCalls \in Nat /\ None \notin Ids \cup Nat

VARIABLES
  streaming, \* output_format: streaming-json or json
  row,       \* state of the session
  made,      \* st["msg_id"]: does the assistant record exist?
  text,      \* its body: blocks of text
  calls,     \* its tool_calls
  toolIdx,   \* st["tool_idx"], None for an absent key
  event,     \* the kind of event being handled
  touched,   \* _handle_assistant's local
  queued,    \* last message payload queued by the open transaction
  wire,      \* last message payload sent
  terminal,  \* last of done and error sent
  over       \* has the worker ended, and by an exception?

record == <<made, text, calls>>
vars == <<streaming, row, record, toolIdx, event, touched, queued, wire, terminal, over>>

Keys    == Ids \cup (0..MaxCalls)
Chip    == [id : Keys, status : {"running", "done", "error"}, result : BOOLEAN]
Payload == [text : 0..MaxText, calls : Seq(Chip)]

ASSUME PayloadAssumption == None \notin Payload

TypeOK ==
  /\ streaming \in BOOLEAN
  /\ row \in {"running", "idle", "done", "error"}
  /\ made \in BOOLEAN /\ text \in 0..MaxText
  /\ calls \in Seq(Chip) /\ Len(calls) <= MaxCalls
  /\ toolIdx \in [Keys -> 1..MaxCalls \cup {None}]
  /\ event \in {"none", "assistant", "user"} /\ touched \in BOOLEAN
  /\ queued \in Payload \cup {None} /\ wire \in Payload \cup {None}
  /\ terminal \in {"done", "error", None}
  /\ over \in {"no", "finished", "raised"}

Init ==
  /\ streaming \in BOOLEAN
  /\ row = "running" /\ made = FALSE /\ text = 0 /\ calls = <<>>
  /\ toolIdx = [k \in Keys |-> None]
  /\ event = "none" /\ touched = FALSE
  /\ queued = None /\ wire = None /\ terminal = None /\ over = "no"

Snapshot(t, c) == [text |-> t, calls |-> c]

(* A commit sends what the transaction queued.                              *)
Sent(payload) == wire' = IF payload = None THEN wire ELSE payload

Waiting == over = "no" /\ event = "none"

-----------------------------------------------------------------------------
(* Assistant and user events, block by block.                               *)
BeginEvent(kind) ==
  /\ Waiting /\ streaming
  /\ event' = kind /\ touched' = FALSE /\ queued' = None
  /\ UNCHANGED <<streaming, row, record, toolIdx, wire, terminal, over>>

TextBlock ==
  /\ event = "assistant" /\ text < MaxText
  /\ made' = TRUE /\ text' = text + 1 /\ touched' = TRUE
  /\ UNCHANGED <<streaming, row, calls, toolIdx, event, queued, wire, terminal, over>>

Fresh(key) == [id |-> key, status |-> "running", result |-> FALSE]

(* Slip: the index is the number of chips before, not the new one's place.  *)
UpsertToolCallOffByOne(id) ==
  LET key == IF id = None THEN Len(calls) ELSE id
      at  == toolIdx[key]
      new == IF at = None THEN Append(calls, Fresh(key)) ELSE calls
  IN
  /\ event = "assistant" /\ Len(new) <= MaxCalls
  /\ made' = TRUE /\ calls' = new
  /\ toolIdx' = IF at = None THEN [toolIdx EXCEPT ![key] = Len(calls)] ELSE toolIdx
  /\ queued' = Snapshot(text, new)
  /\ UNCHANGED <<streaming, row, text, event, touched, wire, terminal, over>>

(* Slip: a repeated call starts over.                                       *)
UpsertToolCallAfresh(id) ==
  LET key == IF id = None THEN Len(calls) ELSE id
      at  == toolIdx[key]
      new == IF at = None THEN Append(calls, Fresh(key)) ELSE [calls EXCEPT ![at] = Fresh(key)]
  IN
  /\ event = "assistant" /\ Len(new) <= MaxCalls
  /\ made' = TRUE /\ calls' = new
  /\ toolIdx' = IF at = None THEN [toolIdx EXCEPT ![key] = Len(new)] ELSE toolIdx
  /\ queued' = Snapshot(text, new)
  /\ UNCHANGED <<streaming, row, text, event, touched, wire, terminal, over>>

(* _upsert_tool_call: a call without an id is named after its position; a   *)
(* repeated one keeps its result and status.                                *)
UpsertToolCall(id) ==
  LET key == IF id = None THEN Len(calls) ELSE id
      at  == toolIdx[key]
      new == IF at = None THEN Append(calls, Fresh(key)) ELSE calls
  IN
  /\ event = "assistant" /\ Len(new) <= MaxCalls
  /\ made' = TRUE /\ calls' = new
  /\ toolIdx' = IF at = None THEN [toolIdx EXCEPT ![key] = Len(new)] ELSE toolIdx
  /\ queued' = Snapshot(text, new)
  /\ UNCHANGED <<streaming, row, text, event, touched, wire, terminal, over>>

(* Slip: results are matched by arrival: the last call gets the result.     *)
PatchToolResultLast(id) ==
  LET at == Len(calls) IN
  /\ event = "user" /\ id \in Keys /\ toolIdx[id] # None
  /\ \E st \in {"done", "error"} :
       calls' = [calls EXCEPT ![at] = [id |-> id, status |-> st, result |-> TRUE]]
  /\ queued' = Snapshot(text, calls')
  /\ UNCHANGED <<streaming, row, made, text, toolIdx, event, touched, wire, terminal, over>>

(* _patch_tool_result; a result for an unknown id is dropped.               *)
PatchToolResult(id) ==
  LET at == toolIdx[id] IN
  /\ event = "user" /\ id \in Keys /\ at # None
  /\ \E st \in {"done", "error"} :
       calls' = [calls EXCEPT ![at].status = st, ![at].result = TRUE]
  /\ queued' = Snapshot(text, calls')
  /\ UNCHANGED <<streaming, row, made, text, toolIdx, event, touched, wire, terminal, over>>

(* Slip: text is shown with the next tool call only.                        *)
EndEventQuiet ==
  /\ event # "none" /\ event' = "none"
  /\ Sent(queued)
  /\ UNCHANGED <<streaming, row, record, toolIdx, touched, queued, terminal, over>>

(* After the last block: one notification for the text, and the commit.     *)
EndEvent ==
  /\ event # "none" /\ event' = "none"
  /\ Sent(IF touched THEN Snapshot(text, calls) ELSE queued)
  /\ UNCHANGED <<streaming, row, record, toolIdx, touched, queued, terminal, over>>

-----------------------------------------------------------------------------
(* result and error events.                                                 *)
(* A text of the result event is used only if nothing was streamed.         *)
ResultEvent(hasText) ==
  LET t == IF hasText /\ text = 0 /\ MaxText > 0 THEN 1 ELSE text IN
  /\ Waiting /\ streaming
  /\ row' = "done" /\ terminal' = "done"
  /\ made' = (made \/ hasText) /\ text' = t
  /\ Sent(IF t = text THEN None ELSE Snapshot(t, calls))
  /\ UNCHANGED <<streaming, calls, toolIdx, event, touched, queued, over>>

(* _fail, of an error event or a failed result.                             *)
FailEvent ==
  /\ Waiting /\ streaming
  /\ row' = "error" /\ terminal' = "error"
  /\ UNCHANGED <<streaming, record, toolIdx, event, touched, queued, wire, over>>

-----------------------------------------------------------------------------
(* The end of the turn.                                                     *)
(* A handler raises between two blocks, or the deadline passes: what was    *)
(* written and queued is committed with the error.                          *)
Raise ==
  /\ over = "no" /\ over' = "raised"
  /\ row' = "error" /\ terminal' = "error"
  /\ Sent(IF event = "none" THEN None ELSE queued)
  /\ event' = "none"
  /\ UNCHANGED <<streaming, record, toolIdx, touched, queued>>

(* json mode, if the row is still running: the final object carries an      *)
(* error, a text t, or nothing; output that is not JSON is taken as text.   *)
FinalObject(failed, t) == (~streaming /\ row = "running") \/ (~failed /\ t = text)

(* Slip: a nonzero status is recorded but not announced.                    *)
FinishSilent(rc, failed, t) ==
  LET settled == IF failed \/ (row = "running" /\ rc # 0) THEN "error"
                 ELSE IF row = "running" THEN "done" ELSE row
  IN
  /\ Waiting /\ over' = "finished"
  /\ FinalObject(failed, t)
  /\ row' = settled
  /\ terminal' = IF failed \/ (row = "running" /\ rc = 0) THEN settled ELSE terminal
  /\ text' = t /\ made' = (made \/ t # text)
  /\ Sent(IF t = text THEN None ELSE Snapshot(t, calls))
  /\ UNCHANGED <<streaming, calls, toolIdx, event, touched, queued>>

(* After the loop: _handle_final_json in json mode, then the row, if still  *)
(* running, is settled by the exit status and the verdict announced.        *)
Finish(rc, failed, t) ==
  LET settled == IF failed \/ (row = "running" /\ rc # 0) THEN "error"
                 ELSE IF row = "running" THEN "done" ELSE row
  IN
  /\ Waiting /\ over' = "finished"
  /\ FinalObject(failed, t)
  /\ row' = settled
  /\ terminal' = IF failed \/ row = "running" THEN settled ELSE terminal
  /\ text' = t /\ made' = (made \/ t # text)
  /\ Sent(IF t = text THEN None ELSE Snapshot(t, calls))
  /\ UNCHANGED <<streaming, calls, toolIdx, event, touched, queued>>

(* action_stop or the reaper writes the row, without a notification.        *)
RowTaken ==
  /\ Waiting /\ row = "running"
  /\ row' \in {"idle", "error"} /\ terminal' = terminal
  /\ UNCHANGED <<streaming, record, toolIdx, event, touched, queued, wire, over>>

-----------------------------------------------------------------------------
Done == over # "no" /\ UNCHANGED vars

Next ==
  \/ \E kind \in {"assistant", "user"} : BeginEvent(kind)
  \/ TextBlock \/ EndEvent
  \/ \E id \in Ids \cup {None} : UpsertToolCall(id)
  \/ \E id \in Ids \cup {None} : PatchToolResult(id)
  \/ \E hasText \in BOOLEAN : ResultEvent(hasText)
  \/ FailEvent \/ Raise \/ RowTaken
  \/ \E rc \in {0, 1}, failed \in BOOLEAN, t \in {text, 1} :
       t <= MaxText /\ Finish(rc, failed, t)
  \/ Done

Spec == Init /\ [][Next]_vars

(***************************************************************************)
(* Properties                                                              *)
(***************************************************************************)
(* The index never points at the chip of another call, whatever mixture of  *)
(* named, unnamed and repeated calls and results arrived: every chip has    *)
(* its own id, and its id leads to it.                                      *)
IndexIsFaithful ==
  /\ \A i \in 1..Len(calls) : toolIdx[calls[i].id] = i
  /\ \A k \in Keys : toolIdx[k] # None => toolIdx[k] <= Len(calls)

(* A result that was recorded is never lost again: not by a repeated        *)
(* tool_use, not by the results of other calls.                             *)
ResultsAreKept ==
  [][\A i \in 1..Len(calls) : calls[i].result =>
       i <= Len(calls') /\ calls'[i].result /\ calls'[i].id = calls[i].id]_vars

(* Between two events everything committed has also been sent, so a client  *)
(* that only listens shows what a reload would.                             *)
SentIsSaved ==
  event = "none" /\ over # "raised" =>
    IF wire = None THEN text = 0 /\ calls = <<>> ELSE wire = Snapshot(text, calls)

(* A worker that ends on a row it still owns settles it, and the client is  *)
(* told the very verdict it left there, on every path: result, exit status, *)
(* exception, deadline, and the final object of json mode.                  *)
VerdictAnnounced ==
  [][over = "no" /\ over' # "no" /\ row = "running" =>
       row' \in {"done", "error"} /\ terminal' = row']_vars

(* toolsBusy: "True while at least one tool call is still running": no chip *)
(* of a turn that is over looks busy.  (Broken when a result never comes.)  *)
ChipsSettle ==
  over = "finished" => \A i \in 1..Len(calls) : calls[i].status # "running"
=============================================================================
