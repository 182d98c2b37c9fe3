----------------------------- MODULE McpBridge -----------------------------
(* bridge/mcp_server.py: the stdio MCP server the CLI starts for a turn.    *)
(*                                                                          *)
(* One thread reads a line, handles it to the end and reads the next; a     *)
(* tools/call waits for Odoo inside the handler, at most 60 s.  The CLI may *)
(* write several lines before it reads an answer, and goes away at any      *)
(* moment: stop, the deadline and the reaper signal the CLI alone, so the   *)
(* bridge learns of it from the end of its input or from a broken pipe.     *)
(* ToolGateway models what Odoo does with a forwarded call.                 *)
EXTENDS Integers, Sequences, SequencesExt

CONSTANTS
  Tools,     \* names of TOOLS
  Allowed,   \* names in AI_ALLOWED_TOOLS, perhaps of other tools; may be empty
  ReadOnly,  \* _DEFAULT_ALLOWED
  MaxLines,  \* lines the CLI writes (bounds the behaviour)
  NoTool

ASSUME BridgeAssumption == MaxLines \in Nat /\ NoTool \notin Tools

(* request: initialize, ping, tools/list; notice: initialized; call:        *)
(* tools/call; bad: a tools/call whose params make the handler raise;       *)
(* unknown: any other method; noise: a blank line or no JSON; scalar: JSON  *)
(* that is no object (a batch, for instance).                               *)
Kinds == {"request", "notice", "call", "bad", "unknown", "noise", "scalar"}
Line  == {l \in [kind : Kinds, id : BOOLEAN, tool : Tools \cup {NoTool}] :
            /\ l.kind = "call" <=> l.tool # NoTool
            /\ l.kind \in {"notice", "noise", "scalar"} => ~l.id}

VARIABLES
  lines,    \* what the CLI has written, in this order
  pos,      \* lines read
  pc,       \* reading, calling (inside urlopen), over
  answers,  \* what the CLI got: the line, and how it was answered
  gone,     \* has the CLI gone away, its pipes closed?
  late      \* calls with an id that were forwarded after that

vars == <<lines, pos, pc, answers, gone, late>>

Answers == [line : 1..MaxLines, as : {"result", "toolError", "error"}]

TypeOK ==
  /\ lines \in Seq(Line) /\ Len(lines) <= MaxLines /\ pos \in 0..Len(lines)
  /\ pc \in {"reading", "calling", "over"}
  /\ answers \in Seq(Answers) /\ Len(answers) <= pos
  /\ gone \in BOOLEAN /\ late \in 0..MaxLines

Init ==
  /\ lines = <<>> /\ pos = 0 /\ pc = "reading"
  /\ answers = <<>> /\ gone = FALSE /\ late = 0

(* ALLOWED_TOOLS and _visible_tools.                                        *)
Visible == Tools \cap (IF Allowed = {} THEN ReadOnly ELSE Allowed)

-----------------------------------------------------------------------------
(* The CLI.                                                                 *)
Write ==
  /\ ~gone /\ Len(lines) < MaxLines
  /\ \E l \in Line : lines' = Append(lines, l)
  /\ UNCHANGED <<pos, pc, answers, gone, late>>

Leave ==
  /\ ~gone /\ gone' = TRUE
  /\ UNCHANGED <<lines, pos, pc, answers, late>>

-----------------------------------------------------------------------------
(* The bridge.                                                              *)
(* Slip: _send swallows the error of a broken pipe.                         *)
AnswerUnseen(n, a) ==
  /\ answers' = IF gone THEN answers ELSE Append(answers, [line |-> n, as |-> a])
  /\ pc' = "reading"

(* _send, under main's except: writing to a closed pipe raises, and so does *)
(* reporting that, for a message with an id: the process ends.              *)
Answer(n, a) ==
  \/ /\ ~gone /\ pc' = "reading"
     /\ answers' = Append(answers, [line |-> n, as |-> a])
  \/ /\ gone /\ pc' = (IF lines[n].id THEN "over" ELSE "reading")
     /\ UNCHANGED answers

(* An exception of the handler: reported to a message that has an id.       *)
Raise(n) ==
  \/ lines[n].id /\ Answer(n, "error")
  \/ ~lines[n].id /\ pc' = "reading" /\ UNCHANGED answers

(* The call goes out to Odoo: _call_odoo, up to its urlopen.                *)
Forward(n) ==
  /\ pc' = "calling" /\ UNCHANGED answers
  /\ late' = IF gone /\ lines[n].id THEN late + 1 ELSE late

(* Slip: no return after "Unknown tool": the call goes out all the same.    *)
HandleFallsThrough(n) ==
  LET l == lines[n] IN
  \/ l.kind = "request" /\ Answer(n, "result") /\ UNCHANGED late
  \/ l.kind = "call" /\ l.tool \in Visible /\ Forward(n)
  \/ l.kind = "call" /\ l.tool \notin Visible /\ pc' = "calling"
     /\ answers' = Append(answers, [line |-> n, as |-> "error"]) /\ UNCHANGED late

(* _handle of line n.  Only an unknown method and an exception look at the  *)
(* id; anything else is answered, with id null if it has none.  A message   *)
(* that is no object raises once more inside main's except.                 *)
Handle(n) ==
  LET l == lines[n] IN
  \/ l.kind = "request" /\ Answer(n, "result") /\ UNCHANGED late
  \/ l.kind = "call" /\ l.tool \in Visible /\ Forward(n)
  \/ l.kind = "call" /\ l.tool \notin Visible /\ Answer(n, "error") /\ UNCHANGED late
  \/ l.kind \in {"bad", "unknown"} /\ Raise(n) /\ UNCHANGED late
  \/ l.kind \in {"notice", "noise"} /\ pc' = "reading" /\ UNCHANGED <<answers, late>>
  \/ l.kind = "scalar" /\ pc' = "over" /\ UNCHANGED <<answers, late>>

(* Slip: `for line in sys.stdin`: its buffer withholds lines until it is    *)
(* full or the input ends.                                                  *)
ReadAhead ==
  /\ pc = "reading" /\ pos < Len(lines) /\ (gone \/ Len(lines) = MaxLines)
  /\ pos' = pos + 1 /\ Handle(pos') /\ UNCHANGED <<lines, gone>>

(* main: readline returns each line as soon as it is there.                 *)
Read ==
  /\ pc = "reading" /\ pos < Len(lines)
  /\ pos' = pos + 1 /\ Handle(pos') /\ UNCHANGED <<lines, gone>>

(* Odoo has answered, or refused, or 60 s are over, or its answer is of a   *)
(* shape _call_odoo stumbles over.                                          *)
Return ==
  /\ pc = "calling"
  /\ Answer(pos, "result") \/ Answer(pos, "toolError") \/ Raise(pos)
  /\ UNCHANGED <<lines, pos, gone, late>>

(* Slip: the end of the input looks like a blank line.                      *)
EofIsBlank ==
  pc = "reading" /\ gone /\ pos = Len(lines) /\ UNCHANGED vars

Eof ==
  /\ pc = "reading" /\ gone /\ pos = Len(lines) /\ pc' = "over"
  /\ UNCHANGED <<lines, pos, answers, gone, late>>

Bridge == Read \/ Return \/ Eof
Next   == Write \/ Leave \/ Bridge

Spec == Init /\ [][Next]_vars

(* The process runs, and urlopen keeps its timeout.  Nothing is assumed of  *)
(* the CLI: it may stay silent, or never leave.                             *)
FairSpec == Spec /\ WF_vars(Bridge)

(***************************************************************************)
(* Properties                                                              *)
(***************************************************************************)
Answered(n) == \E i \in DOMAIN answers : answers[i].line = n

(* Whatever arrives, answers come in the order of the requests, one for    *)
(* each: while both sides live, every line read that has an id has its     *)
(* answer, but for the call Odoo is working on.                            *)
AnswersMatch ==
  /\ \A i, j \in DOMAIN answers : i < j => answers[i].line < answers[j].line
  /\ ~gone /\ pc # "over" => \A n \in 1..pos :
       lines[n].id => Answered(n) \/ (n = pos /\ pc = "calling")

(* A CLI that is stopped or killed leaves written calls in the pipe.  At   *)
(* most one more of those that carry an id reaches Odoo: the first answer  *)
(* that cannot be delivered ends the bridge.                               *)
AtMostOneLateCall == late <= 1

(* "Iterating a text stream ... deadlocks a request/response stdio         *)
(* protocol like MCP" (main): under FairSpec every request is answered     *)
(* though the CLI writes nothing more, unless it leaves or the bridge has  *)
(* read JSON that is no object.  A call that Odoo never answers is no exception.     *)
RequestsAnswered ==
  \A n \in 1..MaxLines :
    n <= Len(lines) /\ lines[n].id ~>
      Answered(n) \/ gone \/ (\E k \in 1..pos : lines[k].kind = "scalar")

(* No bridge outlives its CLI for ever (under FairSpec).                   *)
EndsWithCli == gone ~> pc = "over"

(* JSON that is no object ends the server, and with it the turn's tools;   *)
(* the code does not keep to this.                                         *)
OnlyEofEnds == pc = "over" => gone
=============================================================================
