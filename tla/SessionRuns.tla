---------------------------- MODULE SessionRuns ----------------------------
(* The life of a chat turn: grokoo.session (models/grokoo_session.py) and   *)
(* grokoo.runner (models/grokoo_runner.py).                                 *)
(*                                                                          *)
(* A send is a request transaction that marks the session row `running` and *)
(* starts, after its commit, a worker thread.  The worker spawns the Grok   *)
(* CLI, records its pid, consumes its event stream until a deadline, and    *)
(* settles the row.  Stop (a request) and the reaper (a cron job) write the *)
(* same row without asking the worker.  Row writes are REPEATABLE READ      *)
(* transactions: two concurrent writers of one row cannot both commit, but  *)
(* a count over several rows is only a snapshot.                            *)
EXTENDS Integers, FiniteSets

CONSTANTS
  Sessions,       \* grokoo.session records
  Owner,          \* the user of each of them (user_id)
  Managers,       \* users whose record rule shows them the sessions of all
  Runs,           \* turns that may ever be attempted (bounds the behaviour)
  Pids,           \* process ids
  None,           \* absence of a run, of a pid (False) or of a file
  MaxConcurrent,  \* grokoo.max_concurrent_runs, 0 = no cap
  HttpWorkers,    \* send requests that can be in progress at once
  Timeout,        \* grokoo.timeout_s, in ticks
  Grace,          \* the reaper's extra margin (120 s), in ticks
  PidReuse,       \* may the system hand out the pid of a reaped process again?
  StreamingRuns   \* the turns launched with output_format streaming-json; the
                  \* others are launched with json

ASSUME NatAssumption ==
  /\ MaxConcurrent \in Nat
  /\ HttpWorkers \in Nat \ {0}
  /\ Timeout \in Nat \ {0}
  /\ Grace \in Nat

ASSUME FlagAssumption == PidReuse \in BOOLEAN /\ StreamingRuns \subseteq Runs

ASSUME FiniteAssumption == IsFiniteSet(Sessions) /\ IsFiniteSet(Runs)

ASSUME NoneAssumption == None \notin Runs \cup Pids \cup Sessions

VARIABLES
  (* the row of each session *)
  state,    \* idle, running, done or error
  lastPid,  \* last_run_pid
  turns,    \* turn_count
  jti,      \* the run whose bridge token is the current one (bridge_jti)
  age,      \* ticks since write_date of a running row, up to Overdue
  (* the scratch directory of each session *)
  files,    \* whose config.toml and grok_prompt.txt are on disk
  (* each run *)
  sess,     \* its session
  phase,    \* where its request or its worker thread is
  proc,     \* its CLI process
  pid,      \* that process's id
  left,     \* ticks to the worker's deadline, while it is in the event loop
  verdict,  \* has the worker handled a result or error event?
  sids      \* runs whose routing session is still in the session store

row     == <<state, lastPid, turns, jti, age>>
process == <<proc, pid>>
local   == <<left, verdict>>
vars    == <<row, files, sess, phase, local, process, sids>>

States   == {"idle", "running", "done", "error"}
(* "starting": files written; "spawned": Popen returned, pid not committed; *)
(* "streaming": in the event loop; "closing": out of it; "failing": in the  *)
(* except clause of _run_worker; "lost": the thread is gone, row untouched. *)
InWorker == {"starting", "spawned", "streaming", "closing", "failing"}
Active   == {"queued"} \cup InWorker
Ended    == {"finished", "failed", "lost", "aborted"}
Phases   == {"unused", "sending"} \cup Active \cup Ended

(* "loading": prompt not read yet; "exited": by itself, with any status;    *)
(* "killed": by a signal; "gone": waited for.                               *)
Procs == {"none", "loading", "live", "exited", "killed", "gone"}

Overdue == Timeout + Grace + 1   \* first age the reaper's `<` comparison takes

Of(s)      == {r \in Runs : sess[r] = s}
RunningSet == {s \in Sessions : state[s] = "running"}
SendingSet == {r \in Runs : phase[r] = "sending"}

Users  == {Owner[s] : s \in Sessions}
Own(u) == {s \in Sessions : Owner[s] = u}
(* search_count runs with the rights of the user who sends: the record      *)
(* rules rule_session_own and rule_session_manager filter what it counts.   *)
Visible(u) == IF u \in Managers THEN Sessions ELSE Own(u)
BelowCap(u) == MaxConcurrent = 0 \/ Cardinality(RunningSet \cap Visible(u)) < MaxConcurrent

LiveSet    == {r \in Runs : proc[r] \in {"loading", "live"}}

TypeOK ==
  /\ state \in [Sessions -> States]
  /\ lastPid \in [Sessions -> Pids \cup {None}]
  /\ turns \in [Sessions -> Nat]
  /\ jti \in [Sessions -> Runs \cup {None}]
  /\ age \in [Sessions -> 0..Overdue]
  /\ files \in [Sessions -> Runs \cup {None}]
  /\ sess \in [Runs -> Sessions \cup {None}]
  /\ phase \in [Runs -> Phases]
  /\ proc \in [Runs -> Procs]
  /\ pid \in [Runs -> Pids \cup {None}]
  /\ left \in [Runs -> 0..Timeout]
  /\ verdict \in [Runs -> BOOLEAN]
  /\ sids \in SUBSET Runs

Init ==
  /\ state = [s \in Sessions |-> "idle"]
  /\ lastPid = [s \in Sessions |-> None]
  /\ turns = [s \in Sessions |-> 0]
  /\ jti = [s \in Sessions |-> None]
  /\ age = [s \in Sessions |-> 0]
  /\ files = [s \in Sessions |-> None]
  /\ sess = [r \in Runs |-> None]
  /\ phase = [r \in Runs |-> "unused"]
  /\ proc = [r \in Runs |-> "none"]
  /\ pid = [r \in Runs |-> None]
  /\ left = [r \in Runs |-> 0]
  /\ verdict = [r \in Runs |-> FALSE]
  /\ sids = {}

(***************************************************************************)
(* Row writes and signals                                                  *)
(***************************************************************************)
(* Slip: a send does not notice that its row was written under it.          *)
RowWrittenUnseen(s, r, to) ==
  /\ age' = [age EXCEPT ![s] = 0]
  /\ phase' = [q \in Runs |-> IF q = r THEN to ELSE phase[q]]

(* A committed write of row s by a transaction, in the course of which run *)
(* r moves to phase `to`: write_date is now, and every other send that had *)
(* read the row fails to serialize (Odoo rolls it back and retries it as a *)
(* new run).  r = None when no run moves.                                  *)
RowWritten(s, r, to) ==
  /\ age' = [age EXCEPT ![s] = 0]
  /\ phase' = [q \in Runs |->
       IF q = r THEN to
       ELSE IF sess[q] = s /\ phase[q] = "sending" THEN "aborted" ELSE phase[q]]

(* os.kill on the recorded pid, if there is one: whichever process has     *)
(* that id now ends (the CLI keeps the default disposition of SIGTERM);    *)
(* ProcessLookupError is swallowed.                                        *)
Signal(p) ==
  proc' = [r \in Runs |-> IF p # None /\ pid[r] = p /\ r \in LiveSet
                          THEN "killed" ELSE proc[r]]

(* The worker leaves the event loop, its locals die with it.               *)
LeaveLoop(r) ==
  /\ left' = [left EXCEPT ![r] = 0]
  /\ verdict' = [verdict EXCEPT ![r] = FALSE]

(* Slip: the routing session is not deleted.                                *)
CleanUpFilesOnly(r) == files' = [files EXCEPT ![sess[r]] = None] /\ sids' = sids

(* The finally clause of _execute: the two files under the session's fixed *)
(* paths, and the routing session of this run.                             *)
CleanUp(r) ==
  /\ files' = [files EXCEPT ![sess[r]] = None]
  /\ sids' = sids \ {r}

(***************************************************************************)
(* send_message and _launch: a request transaction                         *)
(***************************************************************************)
(* Slip: the cap is compared with > instead of >=.                          *)
SendBeginOverCap(r, s) ==
  /\ phase[r] = "unused"
  /\ Cardinality(SendingSet) < HttpWorkers
  /\ state[s] # "running"
  /\ MaxConcurrent = 0 \/ Cardinality(RunningSet \cap Visible(Owner[s])) <= MaxConcurrent
  /\ sess' = [sess EXCEPT ![r] = s]
  /\ phase' = [phase EXCEPT ![r] = "sending"]
  /\ sids' = sids \cup {r}
  /\ UNCHANGED <<row, files, local, process>>

(* The guards of send_message read the snapshot; _launch mints the routing *)
(* session in the file store, outside the transaction.                     *)
SendBegin(r, s) ==
  /\ phase[r] = "unused"
  /\ Cardinality(SendingSet) < HttpWorkers
  /\ state[s] # "running"
  /\ BelowCap(Owner[s])
  /\ sess' = [sess EXCEPT ![r] = s]
  /\ phase' = [phase EXCEPT ![r] = "sending"]
  /\ sids' = sids \cup {r}
  /\ UNCHANGED <<row, files, local, process>>

(* Commit: row `running`, fresh token, and the thread is due to start.     *)
SendCommit(r) ==
  LET s == sess[r] IN
  /\ phase[r] = "sending"
  /\ RowWritten(s, r, "queued")
  /\ state' = [state EXCEPT ![s] = "running"]
  /\ jti' = [jti EXCEPT ![s] = r]
  /\ UNCHANGED <<lastPid, turns, files, sess, local, process, sids>>

(***************************************************************************)
(* _run_worker and _execute: the worker thread                             *)
(***************************************************************************)
WorkerStart(r) ==
  /\ phase[r] = "queued"
  /\ phase' = [phase EXCEPT ![r] = "starting"]
  /\ files' = [files EXCEPT ![sess[r]] = r]
  /\ UNCHANGED <<row, sess, local, process, sids>>

(* Popen raises: the try/finally has not been entered yet.                 *)
SpawnFail(r) ==
  /\ phase[r] = "starting"
  /\ phase' = [phase EXCEPT ![r] = "failing"]
  /\ UNCHANGED <<row, files, sess, local, process, sids>>

FreePid(p) == \A q \in Runs : pid[q] = p => PidReuse /\ proc[q] = "gone"

Spawn(r) ==
  /\ phase[r] = "starting"
  /\ \E p \in Pids : FreePid(p) /\ pid' = [pid EXCEPT ![r] = p]
  /\ phase' = [phase EXCEPT ![r] = "spawned"]
  /\ proc' = [proc EXCEPT ![r] = "loading"]
  /\ UNCHANGED <<row, files, sess, local, sids>>

(* Slip: the deadline includes the reaper's margin.                         *)
RecordPidLate(r) ==
  LET s == sess[r] IN
  /\ phase[r] = "spawned"
  /\ RowWritten(s, r, "streaming")
  /\ lastPid' = [lastPid EXCEPT ![s] = pid[r]]
  /\ left' = [left EXCEPT ![r] = Timeout + Grace]
  /\ UNCHANGED <<state, turns, jti, files, sess, verdict, process, sids>>

(* last_run_pid is committed, then the deadline is set.                    *)
RecordPid(r) ==
  LET s == sess[r] IN
  /\ phase[r] = "spawned"
  /\ RowWritten(s, r, "streaming")
  /\ lastPid' = [lastPid EXCEPT ![s] = pid[r]]
  /\ left' = [left EXCEPT ![r] = Timeout]
  /\ UNCHANGED <<state, turns, jti, files, sess, verdict, process, sids>>

InTime(r) == phase[r] = "streaming" /\ left[r] > 0

(* A system/init event whose session id is new: a row write.               *)
CaptureSessionId(r) ==
  /\ r \in StreamingRuns /\ InTime(r)
  /\ RowWritten(sess[r], r, "streaming")
  /\ UNCHANGED <<state, lastPid, turns, jti, files, sess, local, process, sids>>

(* A result event (done), or a failed result or an error event (error).    *)
Verdict(r) ==
  /\ r \in StreamingRuns /\ InTime(r)
  /\ RowWritten(sess[r], r, "streaming")
  /\ \E v \in {"done", "error"} : state' = [state EXCEPT ![sess[r]] = v]
  /\ verdict' = [verdict EXCEPT ![r] = TRUE]
  /\ UNCHANGED <<lastPid, turns, jti, files, sess, left, process, sids>>

(* A handler raises (an event that is not an object, say): the CLI is left *)
(* running.                                                                *)
EventRaises(r) ==
  /\ r \in StreamingRuns /\ InTime(r)
  /\ phase' = [phase EXCEPT ![r] = "failing"]
  /\ CleanUp(r) /\ LeaveLoop(r)
  /\ UNCHANGED <<row, sess, process>>

(* Slip: the deadline is not enforced on a CLI that is silent but alive.    *)
RunTimeoutIfExited(r) ==
  /\ phase[r] = "streaming" /\ left[r] = 0 /\ r \notin LiveSet
  /\ phase' = [phase EXCEPT ![r] = "failing"]
  /\ CleanUp(r) /\ LeaveLoop(r)
  /\ UNCHANGED <<row, sess, process>>

(* The deadline has passed: the CLI is killed and TimeoutError raised.      *)
RunTimeout(r) ==
  /\ phase[r] = "streaming" /\ left[r] = 0
  /\ phase' = [phase EXCEPT ![r] = "failing"]
  /\ proc' = [proc EXCEPT ![r] = IF r \in LiveSet THEN "killed" ELSE @]
  /\ CleanUp(r) /\ LeaveLoop(r)
  /\ UNCHANGED <<row, sess, pid>>

(* The process has exited: the loop ends on the sentinel or on poll().     *)
Drain(r) ==
  /\ InTime(r) /\ r \notin LiveSet
  /\ phase' = [phase EXCEPT ![r] = "closing"]
  /\ left' = [left EXCEPT ![r] = 0]
  /\ CleanUp(r)
  /\ UNCHANGED <<row, sess, verdict, process>>

(* The CLI closes stdout but lives on: wait(10) expires and it is killed.  *)
DrainAndKill(r) ==
  /\ InTime(r) /\ r \in LiveSet
  /\ phase' = [phase EXCEPT ![r] = "closing"]
  /\ proc' = [proc EXCEPT ![r] = "killed"]
  /\ left' = [left EXCEPT ![r] = 0]
  /\ CleanUp(r)
  /\ UNCHANGED <<row, sess, verdict, pid>>

(* json mode: the final object is valid JSON but not an object.            *)
JsonRaises(r) ==
  /\ r \notin StreamingRuns
  /\ phase[r] = "closing" /\ state[sess[r]] = "running"
  /\ phase' = [phase EXCEPT ![r] = "failing"]
  /\ UNCHANGED <<row, files, sess, local, process, sids>>

(* Slip: a nonzero status settles nothing.                                  *)
SettledIfZero(st, p) == IF st = "running" /\ p # "killed" THEN {"done", "error"} ELSE {st}

(* The states a closing worker may leave in a row it finds in state st: a  *)
(* row that is not `running` stays as it is; a nonzero status, or in json  *)
(* mode an error in the final object, is an error.                         *)
Settled(st, p) ==
  IF st # "running" THEN {st} ELSE IF p = "killed" THEN {"error"} ELSE {"done", "error"}

(* Slip: last_run_pid is not cleared.                                       *)
FinishKeepsPid(r) ==
  LET s == sess[r] IN
  /\ phase[r] = "closing"
  /\ RowWritten(s, r, "finished")
  /\ turns' = [turns EXCEPT ![s] = @ + 1]
  /\ \E st \in Settled(state[s], proc[r]) : state' = [state EXCEPT ![s] = st]
  /\ proc' = [proc EXCEPT ![r] = "gone"]
  /\ LeaveLoop(r)
  /\ UNCHANGED <<lastPid, jti, files, sess, pid, sids>>

(* After the loop: pid forgotten, turn counted, a running row settled.      *)
Finish(r) ==
  LET s == sess[r] IN
  /\ phase[r] = "closing"
  /\ RowWritten(s, r, "finished")
  /\ lastPid' = [lastPid EXCEPT ![s] = None]
  /\ turns' = [turns EXCEPT ![s] = @ + 1]
  /\ \E st \in Settled(state[s], proc[r]) : state' = [state EXCEPT ![s] = st]
  /\ proc' = [proc EXCEPT ![r] = "gone"]
  /\ LeaveLoop(r)
  /\ UNCHANGED <<jti, files, sess, pid, sids>>

(* The except clause of _run_worker.                                       *)
WriteError(r) ==
  LET s == sess[r] IN
  /\ phase[r] = "failing"
  /\ RowWritten(s, r, "failed")
  /\ state' = [state EXCEPT ![s] = "error"]
  /\ LeaveLoop(r)
  /\ UNCHANGED <<lastPid, turns, jti, files, sess, process, sids>>

(* Another transaction wrote the row under an open worker transaction.     *)
(* The flush or the commit raises and the write of the except clause fails *)
(* in the aborted transaction: the thread dies.  Inside the event loop the *)
(* finally clause still runs.  (Stop can be that transaction at any time,  *)
(* so the step has no further guard.)                                      *)
SerializationFailure(r) ==
  /\ phase[r] \in {"spawned", "streaming", "closing", "failing"}
  /\ phase' = [phase EXCEPT ![r] = "lost"]
  /\ IF phase[r] = "streaming" THEN CleanUp(r) ELSE UNCHANGED <<files, sids>>
  /\ LeaveLoop(r)
  /\ UNCHANGED <<row, sess, process>>

(* The Odoo process that hosts the thread is killed or restarted.          *)
Crash(r) ==
  /\ phase[r] \in Active
  /\ phase' = [phase EXCEPT ![r] = "lost"]
  /\ LeaveLoop(r)
  /\ UNCHANGED <<row, files, sess, process, sids>>

(***************************************************************************)
(* action_stop and _cron_reap_stale                                        *)
(***************************************************************************)
Stop(s) ==
  /\ Signal(lastPid[s])
  /\ state' = [state EXCEPT ![s] = "idle"]
  /\ lastPid' = [lastPid EXCEPT ![s] = None]
  /\ RowWritten(s, None, "aborted")
  /\ UNCHANGED <<turns, jti, files, sess, local, pid, sids>>

(* Slips: the cutoff leaves the timeout out; only rows with a pid are seen. *)
StaleEarly(s)   == state[s] = "running" /\ age[s] > Grace
StaleWithPid(s) == state[s] = "running" /\ age[s] > Timeout + Grace /\ lastPid[s] # None

Stale(s) == state[s] = "running" /\ age[s] > Timeout + Grace

Reap(s) ==
  /\ Stale(s)
  /\ Signal(lastPid[s])
  /\ state' = [state EXCEPT ![s] = "error"]
  /\ lastPid' = [lastPid EXCEPT ![s] = None]
  /\ RowWritten(s, None, "aborted")
  /\ UNCHANGED <<turns, jti, files, sess, local, pid, sids>>

(***************************************************************************)
(* The CLI process and the clock                                           *)
(***************************************************************************)
CliReadsPrompt(r) ==
  /\ proc[r] = "loading"
  /\ proc' = [proc EXCEPT ![r] = "live"]
  /\ UNCHANGED <<row, files, sess, phase, local, pid, sids>>

CliExit(r) ==
  /\ r \in LiveSet
  /\ proc' = [proc EXCEPT ![r] = "exited"]
  /\ UNCHANGED <<row, files, sess, phase, local, pid, sids>>

(* An exited process nobody waits for any more is collected by the next    *)
(* Popen, or by init once Odoo is gone; only then is its pid free.         *)
Collect(r) ==
  /\ proc[r] \in {"exited", "killed"} /\ phase[r] \in {"failed", "lost"}
  /\ proc' = [proc EXCEPT ![r] = "gone"]
  /\ UNCHANGED <<row, files, sess, phase, local, pid, sids>>

(* The age of a row matters only while the row is `running`.               *)
Tick ==
  /\ age' = [s \in Sessions |->
       IF s \in RunningSet /\ age[s] < Overdue THEN age[s] + 1 ELSE age[s]]
  /\ left' = [r \in Runs |-> IF InTime(r) THEN left[r] - 1 ELSE left[r]]
  /\ UNCHANGED <<state, lastPid, turns, jti, files, sess, verdict, phase,
                 process, sids>>

-----------------------------------------------------------------------------
WorkerStep(r) ==
  \/ WorkerStart(r) \/ SpawnFail(r) \/ Spawn(r) \/ RecordPid(r)
  \/ RunTimeout(r) \/ Drain(r) \/ Finish(r) \/ WriteError(r)

RunStep(r) ==
  \/ SendCommit(r) \/ WorkerStep(r)
  \/ CaptureSessionId(r) \/ Verdict(r) \/ EventRaises(r)
  \/ DrainAndKill(r) \/ JsonRaises(r)
  \/ SerializationFailure(r) \/ Crash(r)
  \/ CliReadsPrompt(r) \/ CliExit(r) \/ Collect(r)

Next ==
  \/ \E r \in Runs, s \in Sessions : SendBegin(r, s)
  \/ \E r \in Runs : RunStep(r)
  \/ \E s \in Sessions : Stop(s) \/ Reap(s)
  \/ Tick

Spec == Init /\ [][Next]_vars

(* A started thread is scheduled, time passes, and the cron job runs.      *)
(* Nothing is assumed of the CLI, of the user or of crashes.               *)
Fairness ==
  /\ WF_vars(Tick)
  /\ \A r \in Runs : WF_vars(WorkerStep(r))
  /\ \A s \in Sessions : WF_vars(Reap(s))

FairSpec == Spec /\ Fairness

(***************************************************************************)
(* Safety                                                                  *)
(***************************************************************************)
(* A row that says `running` is backed by the run that set it: that run is *)
(* still on its way to settling the row, or its thread was lost and only   *)
(* the reaper (or Stop) will.  No other interleaving of old workers, stops *)
(* and sends leaves a slot occupied by nobody.                             *)
RunningIsBacked ==
  \A s \in RunningSet :
    jti[s] # None /\ sess[jti[s]] = s /\ phase[jti[s]] \in Active \cup {"lost"}

(* The cap of send_message is the soft cap of one SlotPool per user: the    *)
(* running rows of a user grow only by requests that checked them, and the  *)
(* bound SoftCap of the pool holds of these rows (CapKept).                 *)
Pool(u) == INSTANCE SlotPool WITH
  Sessions <- Own(u), Requests <- Runs,
  running <- RunningSet \cap Own(u),
  open <- {r \in SendingSet : sess[r] \in Own(u)},
  done <- {r \in Runs : phase[r] \notin {"unused", "sending"} /\ sess[r] \in Own(u)}

ImplementsPool ==
  /\ \A u \in Users : Pool(u)!Init
  /\ [][\A u \in Users : Pool(u)!Next \/ UNCHANGED Pool(u)!vars]_vars

(* send_message: "simultaneous bursts may briefly exceed the cap".  In the  *)
(* rows of every user they do so by less than the requests open at once.    *)
CapKept == \A u \in Users : Pool(u)!SoftCap

(* The check of `state` and the write of `running` are atomic although     *)
(* they are far apart: no send is accepted on a row that another one has   *)
(* made `running` in the meantime.                                         *)
AcceptsOnlyFree ==
  [][\A r \in Runs : SendCommit(r) => state[sess[r]] # "running"]_vars

(* The reaper never fires on a run that still has time left, whatever row  *)
(* writes refreshed or did not refresh write_date.                         *)
ReapsOnlyOverdue ==
  [][\A s \in Sessions : Reap(s) => \A r \in Of(s) : ~InTime(r)]_vars

(* A signal sent to the recorded pid can hit the CLI of another session    *)
(* only after a turn of this session failed or lost its worker: only those *)
(* ends leave a pid in the row that the system may have handed out again.  *)
StraysOnlyAfterFailure ==
  \A s \in Sessions, r \in LiveSet :
    lastPid[s] # None /\ pid[r] = lastPid[s] /\ sess[r] # s =>
      \E q \in Of(s) : phase[q] \in {"failing", "failed", "lost"}

(* A run that left the event loop by itself has removed its own files and  *)
(* its routing session, however the runs of its session interleaved.       *)
TurnCleanedUp ==
  \A r \in Runs : phase[r] \in {"closing", "finished"} =>
    r \notin sids /\ \A s \in Sessions : files[s] # r

(***************************************************************************)
(* Liveness (under FairSpec)                                               *)
(***************************************************************************)
(* A crashed run cannot wedge a slot: a running row is settled or reaped.  *)
NoWedge == \A s \in Sessions : state[s] = "running" ~> state[s] # "running"

(* A worker thread ends, even when its CLI goes silent and never exits.    *)
RunEnds == \A r \in Runs : phase[r] \in Active ~> phase[r] \in Ended

(***************************************************************************)
(* What comments, docstrings and help texts say.  The code does not keep   *)
(* to these; the README tells how each is broken.                          *)
(***************************************************************************)
(* action_stop: "Terminate the running CLI subprocess for this session":   *)
(* no CLI of a stopped session is left running.                            *)
StopTerminatesCli ==
  \A s \in Sessions : state[s] = "idle" => Of(s) \cap LiveSet = {}

(* action_stop signals "the running CLI subprocess for this session": never *)
(* a process of another session.                                           *)
SignalsStayInSession ==
  \A s \in Sessions, r \in LiveSet :
    lastPid[s] # None /\ pid[r] = lastPid[s] => sess[r] = s

(* grokoo_max_concurrent_runs: "Maximum number of AI runs allowed to       *)
(* execute at the same time", bursts apart.                                *)
CapBoundsLiveRuns ==
  MaxConcurrent > 0 => Cardinality(LiveSet) <= MaxConcurrent - 1 + HttpWorkers

(* send_message: a "Soft global cap on concurrent CLI runs", which only      *)
(* simultaneous bursts exceed.                                              *)
CapIsGlobal ==
  MaxConcurrent > 0 =>
    Cardinality(RunningSet) + Cardinality(SendingSet) <= MaxConcurrent - 1 + HttpWorkers

(* _write_prompt: the prompt file "is removed after the run".              *)
PromptRemovedAfterRun ==
  \A r \in Runs : phase[r] \in {"finished", "failed"} =>
    \A s \in Sessions : files[s] # r

(* _write_config: the files are those "for this turn" when the CLI of the  *)
(* turn opens them.                                                        *)
OwnPromptRead ==
  [][\A r \in Runs : CliReadsPrompt(r) => files[sess[r]] = r]_vars

(* _execute: the closing worker settles the row because there was "No      *)
(* explicit result event".                                                 *)
SettlesOnlyWithoutResult ==
  [][\A r \in Runs : Finish(r) /\ verdict[r] => state' = state]_vars
=============================================================================
