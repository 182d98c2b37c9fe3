---------------------------- MODULE ToolGateway ----------------------------
(* Tool calls: bridge/mcp_server.py forwards a tools/call of the CLI to     *)
(* controllers/tools.py, which decides, executes, audits and commits it.    *)
(*                                                                          *)
(* A request is one REPEATABLE READ transaction that takes its snapshot     *)
(* when it authenticates.  The closure passed to _run decides and writes;   *)
(* whatever it raises becomes an error object, so the request commits what  *)
(* was written before.  The audit row is committed on a cursor of its own   *)
(* before that.  A flush that fails to serialize rolls the request back and *)
(* runs it again from its authentication.  The bridge forwards one call at  *)
(* a time and gives one up after 60 s: the request goes on without it.      *)
EXTENDS Integers

CONSTANTS
  Calls,       \* tools/call messages of one turn (bounds the behaviour)
  ReadTools,   \* READ_TOOLS
  WriteTools,  \* WRITE_TOOLS
  WebTools,    \* WEB_TOOLS: not served by the bridge
  Deletes,     \* write tools that can delete a record (orm_unlink)
  Targets,     \* what a call is about: the records of a model
  OwnSession,  \* one of them: the record of the session itself
  Excluded,    \* targets whose model is on the denylist
  MaxTries,    \* attempts of a request that fails to serialize
  LogFails,    \* may writing an audit row fail?
  None

AllTools == ReadTools \cup WriteTools \cup WebTools
Policies == [granted : SUBSET AllTools, zeroTrust : BOOLEAN]
Ops      == [tool : ReadTools \cup WriteTools, target : Targets]
(* "failure": access_denied, validation_rejected or error.                  *)
Outcomes == {"success", "failure"}
Attempts == 1..MaxTries
Effects  == [call : Calls, try : Attempts, kind : {"partial", "full"}]
LogRows  == [call : Calls, try : Attempts, outcome : Outcomes]

ASSUME ToolAssumption ==
  /\ (ReadTools \cup WebTools) \cap WriteTools = {}
  /\ Deletes \subseteq WriteTools

ASSUME GatewayAssumption ==
  /\ MaxTries \in Nat \ {0}
  /\ LogFails \in BOOLEAN
  /\ None \notin Ops /\ None \notin Policies /\ None \notin Outcomes

VARIABLES
  policy,      \* grokoo_tool_ids and zero-trust mode of the user
  alive,       \* does the session record exist?
  tokenOk,     \* is the token of this turn's bridge still the session's?
  advertised,  \* ALLOWED_TOOLS in the bridge's environment
  op,          \* what each call asks for
  bridge,      \* what the bridge makes of it
  req,         \* the request that serves it
  snap,        \* the policy that request reads
  try,         \* its attempt
  dirty,       \* its uncommitted writes
  outcome,     \* what _run makes of the closure
  effects,     \* committed writes
  log          \* grokoo.tool_log

world == <<policy, alive, tokenOk, advertised>>
local == <<snap, try, dirty, outcome>>
vars  == <<world, op, bridge, req, local, effects, log>>

Served == {"received", "running", "executed", "audited"}

TypeOK ==
  /\ policy \in Policies
  /\ alive \in BOOLEAN /\ tokenOk \in BOOLEAN
  /\ advertised \in SUBSET AllTools
  /\ op \in [Calls -> Ops \cup {None}]
  /\ bridge \in [Calls -> {"idle", "waiting", "result", "error"}]
  /\ req \in [Calls -> {"none", "over"} \cup Served]
  /\ snap \in [Calls -> Policies \cup {None}]
  /\ try \in [Calls -> 0..MaxTries]
  /\ dirty \in [Calls -> {"none", "partial", "full"}]
  /\ outcome \in [Calls -> Outcomes \cup {None}]
  /\ effects \in SUBSET Effects
  /\ log \in SUBSET LogRows

(* Slip: zero-trust mode is not applied.                                    *)
EffectiveToolsNoStrip(p) ==
  (IF p.granted = {} THEN ReadTools ELSE p.granted) \cap AllTools

(* _effective_tools: an empty selection grants the read tools; zero-trust   *)
(* mode strips the write tools.                                             *)
EffectiveTools(p) ==
  LET names == (IF p.granted = {} THEN ReadTools ELSE p.granted) \cap AllTools
  IN  IF p.zeroTrust THEN names \ WriteTools ELSE names

(* The turn has just been launched: the bridge got the tools of that moment. *)
Init ==
  /\ policy \in Policies
  /\ alive = TRUE /\ tokenOk = TRUE
  /\ advertised = EffectiveTools(policy)
  /\ op = [c \in Calls |-> None]
  /\ bridge = [c \in Calls |-> "idle"]
  /\ req = [c \in Calls |-> "none"]
  /\ snap = [c \in Calls |-> None]
  /\ try = [c \in Calls |-> 0]
  /\ dirty = [c \in Calls |-> "none"]
  /\ outcome = [c \in Calls |-> None]
  /\ effects = {} /\ log = {}

-----------------------------------------------------------------------------
(* Around the calls: an administrator, the user, the next turn.             *)
SetPolicy ==
  /\ policy' \in Policies
  /\ UNCHANGED <<alive, tokenOk, advertised, op, bridge, req, local, effects, log>>

(* The next turn mints a fresh token, or this one expires.                  *)
TokenLapses ==
  /\ tokenOk /\ tokenOk' = FALSE
  /\ UNCHANGED <<policy, alive, advertised, op, bridge, req, local, effects, log>>

(* An uncommitted delete of the session record holds its row lock.          *)
DeletesSession(c) ==
  /\ req[c] \in {"executed", "audited"} /\ dirty[c] = "full"
  /\ op[c].tool \in Deletes /\ op[c].target = OwnSession

RowLocked == \E c \in Calls : DeletesSession(c)

UserDeletesSession ==
  /\ alive /\ ~RowLocked /\ alive' = FALSE
  /\ UNCHANGED <<policy, tokenOk, advertised, op, bridge, req, local, effects, log>>

-----------------------------------------------------------------------------
(* The bridge.                                                              *)
(* tools/call of an advertised tool; any other is answered on the spot.     *)
Issue(c) ==
  /\ bridge[c] = "idle"
  /\ \A d \in Calls : bridge[d] # "waiting"
  /\ \E o \in Ops : o.tool \in advertised /\ op' = [op EXCEPT ![c] = o]
  /\ bridge' = [bridge EXCEPT ![c] = "waiting"]
  /\ req' = [req EXCEPT ![c] = "received"]
  /\ try' = [try EXCEPT ![c] = 1]
  /\ UNCHANGED <<world, snap, dirty, outcome, effects, log>>

(* urlopen gives up after 60 s.                                             *)
BridgeTimeout(c) ==
  /\ bridge[c] = "waiting"
  /\ bridge' = [bridge EXCEPT ![c] = "error"]
  /\ UNCHANGED <<world, op, req, local, effects, log>>

(* The request is over; its answer r is read if the bridge still waits.     *)
Respond(c, r) ==
  /\ req' = [req EXCEPT ![c] = "over"]
  /\ bridge' = [bridge EXCEPT ![c] = IF @ = "waiting" THEN r ELSE @]
  /\ snap' = [snap EXCEPT ![c] = None]
  /\ dirty' = [dirty EXCEPT ![c] = "none"]
  /\ outcome' = [outcome EXCEPT ![c] = None]
  /\ UNCHANGED <<policy, tokenOk, advertised, op, try>>

-----------------------------------------------------------------------------
(* The request.                                                             *)
(* _auth_method_grokoo_bridge; the first query takes the snapshot.          *)
Authenticate(c) ==
  /\ req[c] = "received" /\ tokenOk /\ alive
  /\ req' = [req EXCEPT ![c] = "running"]
  /\ snap' = [snap EXCEPT ![c] = policy]
  /\ UNCHANGED <<world, op, bridge, try, dirty, outcome, effects, log>>

(* AccessDenied before any handler runs.                                    *)
AuthFails(c) ==
  /\ req[c] = "received" /\ ~(tokenOk /\ alive)
  /\ Respond(c, "error")
  /\ UNCHANGED <<alive, effects, log>>

(* _check_tool and _check_model.                                            *)
Permitted(c) ==
  op[c].tool \in EffectiveTools(snap[c]) /\ op[c].target \notin Excluded

(* _run's closure ends: with writes w of the request not yet committed, and *)
(* outcome o.                                                               *)
Executed(c, w, o) ==
  /\ req[c] = "running"
  /\ req' = [req EXCEPT ![c] = "executed"]
  /\ dirty' = [dirty EXCEPT ![c] = w]
  /\ outcome' = [outcome EXCEPT ![c] = o]
  /\ UNCHANGED <<world, op, bridge, snap, try, effects, log>>

(* _check_tool, the model, the arguments, the allowlists or the access      *)
(* rights say no before anything is written; or the database refuses a      *)
(* statement, which aborts the transaction: _run catches that too, and the  *)
(* commit of an aborted transaction writes nothing.                         *)
Refuse(c) == Executed(c, "none", "failure")

Succeed(c) ==
  /\ req[c] = "running" /\ Permitted(c)
  /\ Executed(c, IF op[c].tool \in WriteTools THEN "full" ELSE "none", "success")

(* Business code raises after it wrote: an ORM constraint after the INSERT, *)
(* a method that fails half-way.  _run catches it; nothing is undone.       *)
RaiseMidway(c) ==
  /\ req[c] = "running" /\ Permitted(c) /\ op[c].tool \in WriteTools
  /\ Executed(c, "partial", "failure")

(* Slip: only what succeeded is audited.                                    *)
AuditSuccessOnly(c) ==
  /\ req[c] = "executed" /\ ~RowLocked
  /\ req' = [req EXCEPT ![c] = "audited"]
  /\ log' = IF alive /\ outcome[c] = "success"
            THEN log \cup {[call |-> c, try |-> try[c], outcome |-> outcome[c]]} ELSE log
  /\ UNCHANGED <<world, op, bridge, local, effects>>

(* _audit on a cursor of its own.  Its foreign key waits for a row lock on  *)
(* the session and fails if the session is gone; failures are swallowed.    *)
Audit(c) ==
  LET entry == [call |-> c, try |-> try[c], outcome |-> outcome[c]] IN
  /\ req[c] = "executed" /\ ~RowLocked
  /\ req' = [req EXCEPT ![c] = "audited"]
  /\ \/ alive /\ log' = log \cup {entry}
     \/ (LogFails \/ ~alive) /\ log' = log
  /\ UNCHANGED <<world, op, bridge, local, effects>>

(* Flush and commit succeed; the result object goes to the bridge.          *)
Commit(c) ==
  /\ req[c] = "audited"
  /\ effects' = IF dirty[c] = "none" THEN effects
                ELSE effects \cup {[call |-> c, try |-> try[c], kind |-> dirty[c]]}
  /\ alive' = (alive /\ ~DeletesSession(c))
  /\ Respond(c, IF outcome[c] = "success" THEN "result" ELSE "error")
  /\ UNCHANGED log

(* Slip: the result is sent although the flush failed.                      *)
FlushFailsUnseen(c) ==
  /\ req[c] = "audited" /\ dirty[c] # "none"
  /\ Respond(c, "result")
  /\ UNCHANGED <<alive, effects, log>>

(* A pending write violates a constraint at the flush: rolled back.         *)
FlushFails(c) ==
  /\ req[c] = "audited" /\ dirty[c] # "none"
  /\ Respond(c, "error")
  /\ UNCHANGED <<alive, effects, log>>

(* Slip: what the attempt wrote is committed before the next attempt.       *)
FlushConflictKeeps(c) ==
  /\ req[c] = "audited" /\ dirty[c] # "none" /\ try[c] < MaxTries
  /\ req' = [req EXCEPT ![c] = "received"]
  /\ try' = [try EXCEPT ![c] = @ + 1]
  /\ effects' = effects \cup {[call |-> c, try |-> try[c], kind |-> dirty[c]]}
  /\ snap' = [snap EXCEPT ![c] = None]
  /\ dirty' = [dirty EXCEPT ![c] = "none"]
  /\ outcome' = [outcome EXCEPT ![c] = None]
  /\ UNCHANGED <<world, op, bridge, log>>

(* Slip: the attempts are not counted.                                      *)
FlushConflictUnbounded(c) ==
  /\ req[c] = "audited" /\ dirty[c] # "none"
  /\ req' = [req EXCEPT ![c] = "received"]
  /\ try' = [try EXCEPT ![c] = @ + 1]
  /\ snap' = [snap EXCEPT ![c] = None]
  /\ dirty' = [dirty EXCEPT ![c] = "none"]
  /\ outcome' = [outcome EXCEPT ![c] = None]
  /\ UNCHANGED <<world, op, bridge, effects, log>>

(* A pending write fails to serialize: rolled back and tried again.         *)
FlushConflict(c) ==
  /\ req[c] = "audited" /\ dirty[c] # "none" /\ try[c] < MaxTries
  /\ req' = [req EXCEPT ![c] = "received"]
  /\ try' = [try EXCEPT ![c] = @ + 1]
  /\ snap' = [snap EXCEPT ![c] = None]
  /\ dirty' = [dirty EXCEPT ![c] = "none"]
  /\ outcome' = [outcome EXCEPT ![c] = None]
  /\ UNCHANGED <<world, op, bridge, effects, log>>

(* The Odoo worker process that serves the request dies.                    *)
Crash(c) ==
  /\ req[c] \in Served
  /\ Respond(c, "error")
  /\ UNCHANGED <<alive, effects, log>>

-----------------------------------------------------------------------------
ServerStep(c) ==
  \/ Authenticate(c) \/ AuthFails(c)
  \/ Refuse(c) \/ Succeed(c) \/ RaiseMidway(c)
  \/ Audit(c) \/ Commit(c) \/ FlushFails(c) \/ FlushConflict(c)

Next ==
  \/ SetPolicy \/ TokenLapses \/ UserDeletesSession
  \/ \E c \in Calls : Issue(c) \/ BridgeTimeout(c) \/ ServerStep(c) \/ Crash(c)

Spec == Init /\ [][Next]_vars

(* Requests are served and urlopen keeps its timeout.                       *)
Fairness == \A c \in Calls : WF_vars(ServerStep(c)) /\ WF_vars(BridgeTimeout(c))

FairSpec == Spec /\ Fairness

(***************************************************************************)
(* Properties                                                              *)
(***************************************************************************)
(* A tools/call changes the database at most once, whatever is retried,    *)
(* given up by the bridge or interrupted by a crash.                       *)
AtMostOnce == \A e, f \in effects : e.call = f.call => e = f

(* No write without its audit row: the row of the very attempt, and its    *)
(* outcome is `success` only if the tool ran to its end.  The log is ahead  *)
(* of the data at every instant, so a crash never leaves an unlogged write. *)
(* The exceptions are a log that cannot be written and a deleted session.   *)
EffectsAreLogged ==
  LogFails \/ ~alive \/
  \A e \in effects : \E l \in log :
    l.call = e.call /\ l.try = e.try /\ (l.outcome = "success" <=> e.kind = "full")

(* The result of a write tool reaches the CLI only when the write is        *)
(* committed, complete, and by the last attempt.                            *)
ResultMeansDone ==
  \A c \in Calls : bridge[c] = "result" /\ op[c].tool \in WriteTools =>
    [call |-> c, try |-> try[c], kind |-> "full"] \in effects

(* "Each write tool must be granted per user, and zero-trust mode strips   *)
(* them": what a request commits, the policy of its snapshot allows, be    *)
(* the advertised tools stale, the policy changed or the request retried.  *)
WritesWereGranted ==
  [][\A c \in Calls : Commit(c) /\ effects' # effects =>
       /\ op[c].tool \in snap[c].granted /\ ~snap[c].zeroTrust
       /\ op[c].target \notin Excluded]_vars

(* The next four are what docstrings and the README say; the code does not  *)
(* keep to them.                                                            *)
(*                                                                          *)
(* tool_log._record: the row outlives "a rollback of the failed operation   *)
(* it describes": a failed operation leaves nothing behind.                *)
FailuresRolledBack ==
  \A e \in effects : ~\E l \in log :
    l.call = e.call /\ l.try = e.try /\ l.outcome = "failure"

(* README: every tool call's outcome, "even denials", is logged.            *)
DenialsLogged ==
  \A c \in Calls : req[c] = "over" /\ bridge[c] = "error" =>
    \E l \in log : l.call = c

(* The logged outcome is the outcome of the call: what is logged as success *)
(* is in the database once the request is over.                            *)
LoggedOutcomeHolds ==
  \A l \in log :
    l.outcome = "success" /\ req[l.call] = "over" /\ op[l.call].tool \in WriteTools =>
      \E e \in effects : e.call = l.call

(* The audit row is written on a cursor that needs nothing from the        *)
(* request's own transaction: a request that executed its tool is over at  *)
(* some time (under FairSpec).                                             *)
RequestEnds == \A c \in Calls : req[c] = "executed" ~> req[c] = "over"
=============================================================================
