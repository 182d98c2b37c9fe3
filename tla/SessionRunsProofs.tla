------------------------- MODULE SessionRunsProofs -------------------------
(* The safety of SessionRuns for any number of sessions, runs and pids and  *)
(* for every timeout, cap, output format and pid policy.                    *)
EXTENDS TurnTokens, FiniteSetTheorems, TLAPS

USE DEF InWorker, Active, Ended, Phases, Procs, States

(***************************************************************************)
(* Type correctness                                                        *)
(***************************************************************************)
(* The row write and the worker's clean-up preserve the types they touch.  *)
LEMMA RowWrittenType ==
  ASSUME TypeOK, NEW s, NEW r, NEW to \in Phases, RowWritten(s, r, to)
  PROVE  age' \in [Sessions -> 0..Overdue] /\ phase' \in [Runs -> Phases]
<1>1. 0 \in 0..Overdue
  BY NatAssumption DEF Overdue
<1>2. age' \in [Sessions -> 0..Overdue]
  BY <1>1 DEF TypeOK, RowWritten
<1>3. phase' \in [Runs -> Phases]
  BY DEF TypeOK, RowWritten
<1> QED BY <1>2, <1>3

LEMMA CleanUpType ==
  ASSUME TypeOK, NEW r \in Runs, CleanUp(r)
  PROVE  files' \in [Sessions -> Runs \cup {None}] /\ sids' \in SUBSET Runs
BY DEF TypeOK, CleanUp

LEMMA LeaveLoopType ==
  ASSUME TypeOK, NEW r \in Runs, LeaveLoop(r)
  PROVE  left' \in [Runs -> 0..Timeout] /\ verdict' \in [Runs -> BOOLEAN]
BY NatAssumption DEF TypeOK, LeaveLoop

LEMMA CountedType ==
  ASSUME NEW S, NEW f \in [S -> Nat], NEW x
  PROVE  [f EXCEPT ![x] = f[x] + 1] \in [S -> Nat]
<1>1. CASE x \in S
  BY <1>1
<1>2. CASE x \notin S
  BY <1>2
<1> QED BY <1>1, <1>2

LEMMA SignalType ==
  ASSUME TypeOK, NEW p, Signal(p)
  PROVE  proc' \in [Runs -> Procs]
BY DEF TypeOK, Signal

(* Every step of a run preserves the types.                                *)
LEMMA RunStepType ==
  ASSUME TypeOK, NEW r \in Runs, RunStep(r)
  PROVE  TypeOK'
<1>1. CASE SendCommit(r)
  BY <1>1, RowWrittenType DEF TypeOK, SendCommit, local, process
<1>2. CASE WorkerStart(r)
  BY <1>2 DEF TypeOK, WorkerStart, row, local, process
<1>3. CASE SpawnFail(r)
  BY <1>3 DEF TypeOK, SpawnFail, row, local, process
<1>4. CASE Spawn(r)
  BY <1>4 DEF TypeOK, Spawn, row, local
<1>5. CASE RecordPid(r)
  <2>1. left' \in [Runs -> 0..Timeout]
    BY <1>5, NatAssumption DEF TypeOK, RecordPid
  <2> QED BY <1>5, <2>1, RowWrittenType DEF TypeOK, RecordPid, process
<1>6. CASE CaptureSessionId(r)
  BY <1>6, RowWrittenType DEF TypeOK, CaptureSessionId, local, process
<1>7. CASE Verdict(r)
  <2>1. age' \in [Sessions -> 0..Overdue] /\ phase' \in [Runs -> Phases]
    BY <1>7, RowWrittenType DEF Verdict
  <2>2. PICK v \in {"done", "error"} : state' = [state EXCEPT ![sess[r]] = v]
    BY <1>7 DEF Verdict
  <2>3. state' \in [Sessions -> States]
    BY <2>2 DEF TypeOK
  <2>4. verdict' \in [Runs -> BOOLEAN]
    BY <1>7 DEF Verdict, TypeOK
  <2> QED BY <1>7, <2>1, <2>3, <2>4 DEF TypeOK, Verdict, process
<1>8. CASE EventRaises(r)
  BY <1>8, CleanUpType, LeaveLoopType DEF TypeOK, EventRaises, row, process
<1>9. CASE RunTimeout(r)
  BY <1>9, CleanUpType, LeaveLoopType DEF TypeOK, RunTimeout, row
<1>10. CASE Drain(r)
  BY <1>10, NatAssumption, CleanUpType DEF TypeOK, Drain, row, process
<1>11. CASE DrainAndKill(r)
  BY <1>11, NatAssumption, CleanUpType DEF TypeOK, DrainAndKill, row
<1>12. CASE JsonRaises(r)
  BY <1>12 DEF TypeOK, JsonRaises, row, local, process
<1>13. CASE Finish(r)
  <2>1. state' \in [Sessions -> States]
    <3>1. PICK st \in Settled(state[sess[r]], proc[r]) :
                 state' = [state EXCEPT ![sess[r]] = st]
      BY <1>13 DEF Finish
    <3>2. sess[r] \in Sessions => st \in States
      BY <3>1 DEF TypeOK, Settled
    <3> QED BY <3>1, <3>2 DEF TypeOK
  <2>2. /\ lastPid' \in [Sessions -> Pids \cup {None}]
        /\ turns' \in [Sessions -> Nat]
        /\ proc' \in [Runs -> Procs]
    <3>1. lastPid' = [lastPid EXCEPT ![sess[r]] = None]
      BY <1>13 DEF Finish
    <3>2. turns' = [turns EXCEPT ![sess[r]] = turns[sess[r]] + 1]
      BY <1>13 DEF Finish
    <3>3. proc' = [proc EXCEPT ![r] = "gone"]
      BY <1>13 DEF Finish
    <3>4. turns' \in [Sessions -> Nat]
      BY <3>2, CountedType DEF TypeOK
    <3>5. lastPid' \in [Sessions -> Pids \cup {None}]
      BY <3>1 DEF TypeOK
    <3>6. proc' \in [Runs -> Procs]
      BY <3>3 DEF TypeOK
    <3> QED BY <3>4, <3>5, <3>6
  <2> QED BY <1>13, <2>1, <2>2, RowWrittenType, LeaveLoopType DEF TypeOK, Finish
<1>14. CASE WriteError(r)
  BY <1>14, RowWrittenType, LeaveLoopType DEF TypeOK, WriteError, process
<1>15. CASE SerializationFailure(r)
  BY <1>15, CleanUpType, LeaveLoopType
  DEF TypeOK, SerializationFailure, row, process
<1>16. CASE Crash(r)
  BY <1>16, LeaveLoopType DEF TypeOK, Crash, row, process
<1>17. CASE CliReadsPrompt(r)
  BY <1>17 DEF TypeOK, CliReadsPrompt, row, local
<1>18. CASE CliExit(r)
  BY <1>18 DEF TypeOK, CliExit, row, local
<1>19. CASE Collect(r)
  BY <1>19 DEF TypeOK, Collect, row, local
<1> QED
  BY <1>1, <1>2, <1>3, <1>4, <1>5, <1>6, <1>7, <1>8, <1>9, <1>10, <1>11, <1>12,
     <1>13, <1>14, <1>15, <1>16, <1>17, <1>18, <1>19 DEF RunStep, WorkerStep

LEMMA TypeStep == TypeOK /\ [Next]_vars => TypeOK'
<1> SUFFICES ASSUME TypeOK, [Next]_vars PROVE TypeOK'
  OBVIOUS
<1>1. ASSUME NEW r \in Runs, NEW s \in Sessions, SendBegin(r, s) PROVE TypeOK'
  BY <1>1 DEF TypeOK, SendBegin, row, local, process
<1>2. ASSUME NEW r \in Runs, RunStep(r) PROVE TypeOK'
  BY <1>2, RunStepType
<1>3. ASSUME NEW s \in Sessions, Stop(s) PROVE TypeOK'
  BY <1>3, RowWrittenType, SignalType DEF TypeOK, Stop, local
<1>4. ASSUME NEW s \in Sessions, Reap(s) PROVE TypeOK'
  BY <1>4, RowWrittenType, SignalType DEF TypeOK, Reap, local
<1>5. CASE Tick
  <2>1. age' \in [Sessions -> 0..Overdue]
    BY <1>5, NatAssumption DEF TypeOK, Tick, Overdue
  <2>2. left' \in [Runs -> 0..Timeout]
    BY <1>5, NatAssumption DEF TypeOK, Tick, InTime
  <2> QED BY <1>5, <2>1, <2>2 DEF TypeOK, Tick, process
<1>6. CASE UNCHANGED vars
  BY <1>6 DEF TypeOK, vars, row, local, process
<1> QED BY <1>1, <1>2, <1>3, <1>4, <1>5, <1>6 DEF Next

LEMMA TypeCorrectInit == Init => TypeOK
BY NatAssumption DEF Init, TypeOK, Overdue

(* Type correctness of rows, runs, scratch files and routing sessions.     *)
THEOREM TypeCorrect == Spec => []TypeOK
BY TypeCorrectInit, TypeStep, PTL DEF Spec

(***************************************************************************)
(* A running row is backed by a run                                        *)
(***************************************************************************)
(* An open send has a session and its row is free: whoever writes the row  *)
(* under it makes it fail.                                                 *)
OpenSendsFree ==
  \A r \in Runs : phase[r] = "sending" =>
    sess[r] \in Sessions /\ state[sess[r]] # "running"

(* A run has a session as soon as it is more than an unused name.          *)
Assigned == \A r \in Runs : phase[r] # "unused" => sess[r] \in Sessions

(* RunningIsBacked alone is not inductive: a commit must know its session, *)
(* and a settling worker must know which row it settles.                   *)
BackedInv == TypeOK /\ Assigned /\ OpenSendsFree /\ RunningIsBacked

(* What a row write does to phases.                                        *)
LEMMA RowWrittenPhases ==
  ASSUME TypeOK, NEW s, NEW r, NEW to, RowWritten(s, r, to)
  PROVE  /\ r \in Runs => phase'[r] = to
         /\ \A q \in Runs : q # r =>
              /\ phase[q] # "sending" => phase'[q] = phase[q]
              /\ phase'[q] = "sending" => phase[q] = "sending" /\ sess[q] # s
              /\ phase'[q] # "unused" => phase[q] # "unused"
BY DEF TypeOK, RowWritten

(* Nobody's session changes once it is assigned.                           *)
LEMMA AssignedStep ==
  ASSUME BackedInv, TypeOK', Next
  PROVE  Assigned'
<1>1. ASSUME NEW r \in Runs, NEW s \in Sessions, SendBegin(r, s) PROVE Assigned'
  BY <1>1 DEF BackedInv, TypeOK, Assigned, SendBegin
<1>2. ASSUME NEW r \in Runs, RunStep(r) PROVE Assigned'
  <2>1. sess' = sess
    BY <1>2 DEF RunStep, WorkerStep, SendCommit, WorkerStart, SpawnFail, Spawn,
      RecordPid, CaptureSessionId, Verdict, EventRaises, RunTimeout, Drain,
      DrainAndKill, JsonRaises, Finish, WriteError, SerializationFailure, Crash,
      CliReadsPrompt, CliExit, Collect
  <2>2. \A q \in Runs : phase'[q] # "unused" => phase[q] # "unused"
    BY <1>2, RowWrittenPhases DEF BackedInv, TypeOK, RunStep, WorkerStep, SendCommit,
      WorkerStart, SpawnFail, Spawn, RecordPid, InTime, CaptureSessionId, Verdict,
      EventRaises, RunTimeout, Drain, DrainAndKill, JsonRaises, Finish, WriteError,
      SerializationFailure, Crash, CliReadsPrompt, CliExit, Collect
  <2> QED BY <2>1, <2>2 DEF BackedInv, Assigned
<1>3. ASSUME NEW s \in Sessions, Stop(s) \/ Reap(s) PROVE Assigned'
  <2>1. RowWritten(s, None, "aborted") /\ sess' = sess
    BY <1>3 DEF Stop, Reap
  <2> QED BY <2>1, RowWrittenPhases, NoneAssumption DEF BackedInv, Assigned
<1>4. CASE Tick
  BY <1>4 DEF BackedInv, Assigned, Tick
<1> QED BY <1>1, <1>2, <1>3, <1>4 DEF Next

(* A step that writes row s and no other leaves every other open send on a *)
(* free row, and no send open on s.                                        *)
LEMMA RowWriteFrees ==
  ASSUME BackedInv, NEW s, NEW r, NEW to, to # "sending", RowWritten(s, r, to),
         sess' = sess, \A x \in Sessions : x # s => state'[x] = state[x]
  PROVE  OpenSendsFree'
<1> SUFFICES ASSUME NEW q \in Runs, phase'[q] = "sending"
             PROVE  sess'[q] \in Sessions /\ state'[sess'[q]] # "running"
  BY DEF OpenSendsFree
<1>1. phase[q] = "sending" /\ sess[q] # s
  BY RowWrittenPhases DEF BackedInv
<1> QED BY <1>1 DEF BackedInv, OpenSendsFree

(* A step that opens no send, assigns no session and writes no state.      *)
LEMMA NoRowWriteFrees ==
  ASSUME BackedInv, sess' = sess, state' = state,
         \A q \in Runs : phase'[q] = "sending" => phase[q] = "sending"
  PROVE  OpenSendsFree'
BY DEF BackedInv, OpenSendsFree

LEMMA OpenSendsStep ==
  ASSUME BackedInv, Next
  PROVE  OpenSendsFree'
<1> USE DEF BackedInv
<1>1. ASSUME NEW r \in Runs, NEW s \in Sessions, SendBegin(r, s)
      PROVE  OpenSendsFree'
  BY <1>1 DEF TypeOK, OpenSendsFree, SendBegin, row
<1>2. ASSUME NEW r \in Runs, RunStep(r) PROVE OpenSendsFree'
  <2>1. CASE SendCommit(r)
    BY <2>1, RowWriteFrees DEF SendCommit, TypeOK
  <2>2. CASE RecordPid(r) \/ CaptureSessionId(r)
    BY <2>2, RowWriteFrees DEF RecordPid, CaptureSessionId
  <2>3. CASE Verdict(r)
    BY <2>3, RowWriteFrees DEF Verdict, TypeOK
  <2>4. CASE Finish(r)
    <3>1. PICK st : state' = [state EXCEPT ![sess[r]] = st]
      BY <2>4 DEF Finish
    <3>2. \A x \in Sessions : x # sess[r] => state'[x] = state[x]
      BY <3>1 DEF TypeOK
    <3> QED BY <2>4, <3>2, RowWriteFrees DEF Finish
  <2>5. CASE WriteError(r)
    BY <2>5, RowWriteFrees DEF WriteError, TypeOK
  <2>6. CASE WorkerStart(r) \/ SpawnFail(r) \/ Spawn(r) \/ RunTimeout(r) \/ Drain(r)
    BY <2>6, NoRowWriteFrees DEF TypeOK, WorkerStart, SpawnFail, Spawn, RunTimeout,
      Drain, row
  <2>7. CASE \/ EventRaises(r) \/ DrainAndKill(r) \/ JsonRaises(r)
            \/ SerializationFailure(r) \/ Crash(r)
    BY <2>7, NoRowWriteFrees DEF TypeOK, EventRaises, DrainAndKill, JsonRaises,
      SerializationFailure, Crash, row
  <2>8. CASE CliReadsPrompt(r) \/ CliExit(r) \/ Collect(r)
    BY <2>8, NoRowWriteFrees DEF CliReadsPrompt, CliExit, Collect, row
  <2> QED BY <1>2, <2>1, <2>2, <2>3, <2>4, <2>5, <2>6, <2>7, <2>8
          DEF RunStep, WorkerStep
<1>3. ASSUME NEW s \in Sessions, Stop(s) \/ Reap(s) PROVE OpenSendsFree'
  BY <1>3, RowWriteFrees DEF TypeOK, Stop, Reap
<1>4. CASE Tick
  BY <1>4, NoRowWriteFrees DEF Tick
<1> QED BY <1>1, <1>2, <1>3, <1>4 DEF Next

(* A step keeps a row backed when it leaves jti alone and either frees the *)
(* row of the run that ends or ends no run.                                *)
LEMMA StillBacked ==
  ASSUME BackedInv, jti' = jti, sess' = sess,
         \A s \in Sessions : state'[s] = "running" =>
           /\ state[s] = "running"
           /\ phase[jti[s]] \in Active \cup {"lost"} =>
                phase'[jti[s]] \in Active \cup {"lost"}
  PROVE  RunningIsBacked'
BY DEF BackedInv, RunningIsBacked, RunningSet

LEMMA BackedStep ==
  ASSUME BackedInv, TypeOK', Next
  PROVE  RunningIsBacked'
<1> USE DEF BackedInv
<1>1. ASSUME NEW r \in Runs, NEW s \in Sessions, SendBegin(r, s)
      PROVE  RunningIsBacked'
  BY <1>1, NoneAssumption DEF TypeOK, RunningIsBacked, RunningSet, SendBegin, row
<1>2. ASSUME NEW r \in Runs, RunStep(r) PROVE RunningIsBacked'
  <2>1. CASE SendCommit(r)
    <3> DEFINE s == sess[r]
    <3>1. s \in Sessions /\ jti'[s] = r /\ phase'[r] = "queued" /\ sess' = sess
      BY <2>1, RowWrittenPhases DEF TypeOK, SendCommit, OpenSendsFree
    <3>2. ASSUME NEW x \in Sessions, x # s, state'[x] = "running"
          PROVE  /\ jti'[x] # None /\ sess'[jti'[x]] = x
                 /\ phase'[jti'[x]] \in Active \cup {"lost"}
      <4>1. state[x] = "running" /\ jti'[x] = jti[x]
        BY <2>1, <3>2 DEF TypeOK, SendCommit
      <4>2. jti[x] \in Runs /\ sess[jti[x]] = x /\ jti[x] # r
        BY <3>2, <4>1 DEF TypeOK, RunningIsBacked, RunningSet
      <4>3. phase'[jti[x]] = phase[jti[x]]
        BY <2>1, <4>1, <4>2, RowWrittenPhases
        DEF SendCommit, RunningIsBacked, RunningSet
      <4> QED BY <3>1, <4>1, <4>2, <4>3 DEF RunningIsBacked, RunningSet
    <3> QED BY <3>1, <3>2, NoneAssumption DEF RunningIsBacked, RunningSet
  <2>2. CASE RecordPid(r) \/ CaptureSessionId(r) \/ Verdict(r)
    <3>1. RowWritten(sess[r], r, "streaming") /\ jti' = jti /\ sess' = sess
      BY <2>2 DEF RecordPid, CaptureSessionId, Verdict
    <3>2. \A s \in Sessions : state'[s] = "running" => state[s] = "running"
      BY <2>2 DEF TypeOK, RecordPid, CaptureSessionId, Verdict
    <3> QED BY <3>1, <3>2, StillBacked, RowWrittenPhases
            DEF TypeOK, RunningIsBacked, RunningSet
  <2>3. CASE Finish(r) \/ WriteError(r)
    <3> DEFINE s == sess[r]
    <3>1. /\ jti' = jti /\ sess' = sess /\ s \in Sessions
          /\ RowWritten(s, r, "finished") \/ RowWritten(s, r, "failed")
      BY <2>3 DEF Finish, WriteError, Assigned
    <3>2. state'[s] # "running"
      <4>1. CASE Finish(r)
        BY <3>1, <4>1 DEF TypeOK, Finish, Settled
      <4>2. CASE WriteError(r)
        BY <3>1, <4>2 DEF TypeOK, WriteError
      <4> QED BY <2>3, <4>1, <4>2
    <3>3. \A x \in Sessions : x # s => state'[x] = state[x]
      <4>1. CASE Finish(r)
        <5>1. PICK st : state' = [state EXCEPT ![s] = st]
          BY <4>1 DEF Finish
        <5> QED BY <5>1 DEF TypeOK
      <4>2. CASE WriteError(r)
        BY <4>2 DEF TypeOK, WriteError
      <4> QED BY <2>3, <4>1, <4>2
    <3>4. ASSUME NEW x \in Sessions, state'[x] = "running"
          PROVE  /\ state[x] = "running"
                 /\ phase'[jti[x]] \in Active \cup {"lost"}
      <4>1. x # s /\ state[x] = "running"
        BY <3>2, <3>3, <3>4
      <4>2. jti[x] \in Runs /\ jti[x] # r /\ phase[jti[x]] \in Active \cup {"lost"}
        BY <4>1 DEF TypeOK, RunningIsBacked, RunningSet
      <4>3. phase'[jti[x]] = phase[jti[x]]
        BY <3>1, <4>2, RowWrittenPhases
      <4> QED BY <4>1, <4>2, <4>3
    <3> QED BY <3>1, <3>4, StillBacked
  <2>4. CASE WorkerStart(r) \/ SpawnFail(r) \/ Spawn(r) \/ RunTimeout(r) \/ Drain(r)
    BY <2>4, StillBacked DEF TypeOK, RunningIsBacked, RunningSet, WorkerStart,
      SpawnFail, Spawn, RunTimeout, Drain, row
  <2>5. CASE \/ EventRaises(r) \/ DrainAndKill(r) \/ JsonRaises(r)
            \/ SerializationFailure(r) \/ Crash(r)
    BY <2>5, StillBacked DEF TypeOK, RunningIsBacked, RunningSet, EventRaises,
      DrainAndKill, JsonRaises, SerializationFailure, Crash, row
  <2>6. CASE CliReadsPrompt(r) \/ CliExit(r) \/ Collect(r)
    BY <2>6, StillBacked DEF CliReadsPrompt, CliExit, Collect, row
  <2> QED BY <1>2, <2>1, <2>2, <2>3, <2>4, <2>5, <2>6 DEF RunStep, WorkerStep
<1>3. ASSUME NEW s \in Sessions, Stop(s) \/ Reap(s) PROVE RunningIsBacked'
  <2>1. /\ RowWritten(s, None, "aborted") /\ jti' = jti /\ sess' = sess
        /\ \A x \in Sessions : state'[x] = "running" => state[x] = "running"
    BY <1>3 DEF TypeOK, Stop, Reap
  <2> QED BY <2>1, StillBacked, RowWrittenPhases, NoneAssumption
          DEF TypeOK, RunningIsBacked, RunningSet
<1>4. CASE Tick
  BY <1>4, StillBacked DEF Tick
<1> QED BY <1>1, <1>2, <1>3, <1>4 DEF Next

LEMMA BackedInvariant == Spec => []BackedInv
<1>1. Init => BackedInv
  BY TypeCorrectInit
  DEF Init, BackedInv, Assigned, OpenSendsFree, RunningIsBacked, RunningSet
<1>2. BackedInv /\ [Next]_vars => BackedInv'
  <2> SUFFICES ASSUME BackedInv, [Next]_vars PROVE BackedInv'
    OBVIOUS
  <2>1. TypeOK'
    BY TypeStep DEF BackedInv
  <2>2. CASE Next
    BY <2>1, <2>2, AssignedStep, OpenSendsStep, BackedStep DEF BackedInv
  <2>3. CASE UNCHANGED vars
    BY <2>1, <2>3 DEF BackedInv, Assigned, OpenSendsFree, RunningIsBacked,
      RunningSet, vars, row
  <2> QED BY <2>2, <2>3
<1> QED BY <1>1, <1>2, PTL DEF Spec

(* No row is `running` without a run that answers for it.                  *)
THEOREM RunningRowsAreBacked == Spec => []RunningIsBacked
<1>1. BackedInv => RunningIsBacked
  BY DEF BackedInv
<1> QED BY <1>1, BackedInvariant, PTL

(* A send commits on a row that is still free: the check of `state` and    *)
(* the write of `running` act as one step.                                 *)
THEOREM AcceptsOnlyFreeRows == Spec => AcceptsOnlyFree
<1>1. BackedInv => \A r \in Runs : SendCommit(r) => state[sess[r]] # "running"
  BY DEF BackedInv, OpenSendsFree, SendCommit
<1>2. BackedInv /\ [Next]_vars =>
        [\A r \in Runs : SendCommit(r) => state[sess[r]] # "running"]_vars
  BY <1>1
<1> QED BY <1>2, BackedInvariant, PTL DEF Spec, AcceptsOnlyFree

(***************************************************************************)
(* The reaper and the deadline                                             *)
(***************************************************************************)
(* While a worker has time left, its row was written no longer ago than    *)
(* the worker has been running: recording the pid and setting the deadline *)
(* go together, and later row writes only make the row younger.            *)
DeadlineInv ==
  \A r \in Runs : InTime(r) => left[r] + age[sess[r]] <= Timeout

OverdueInv == BackedInv /\ DeadlineInv

(* Row writes make one row younger and give no worker more time.           *)
LEMMA RowWriteDeadline ==
  ASSUME OverdueInv, NEW s, NEW r, NEW to, RowWritten(s, r, to), sess' = sess,
         to = "streaming" => r \in Runs /\ phase[r] = "streaming",
         \A q \in Runs : left'[q] = left[q] \/ left'[q] = 0
  PROVE  DeadlineInv'
<1> SUFFICES ASSUME NEW q \in Runs, InTime(q)'
             PROVE  left'[q] + age'[sess'[q]] <= Timeout
  BY DEF DeadlineInv
<1>1. phase[q] = "streaming"
  <2>1. phase'[q] = "streaming"
    BY DEF InTime
  <2>2. CASE q = r
    BY <2>1, <2>2, RowWrittenPhases DEF OverdueInv, BackedInv
  <2>3. CASE q # r
    BY <2>1, <2>3 DEF RowWritten, OverdueInv, BackedInv, TypeOK
  <2> QED BY <2>2, <2>3
<1>2. left'[q] = left[q] /\ left[q] > 0 /\ left[q] \in 0..Timeout
  BY DEF InTime, OverdueInv, BackedInv, TypeOK
<1>3. sess[q] \in Sessions /\ age[sess[q]] \in Nat
  BY <1>1, NatAssumption DEF OverdueInv, BackedInv, Assigned, TypeOK, Overdue
<1>4. age'[sess[q]] \in {0, age[sess[q]]}
  BY <1>3 DEF RowWritten, OverdueInv, BackedInv, TypeOK
<1>5. left[q] + age[sess[q]] <= Timeout
  BY <1>1, <1>2 DEF OverdueInv, DeadlineInv, InTime
<1> QED BY <1>2, <1>3, <1>4, <1>5, NatAssumption

(* A step that touches neither ages nor deadlines upwards.                 *)
LEMMA NoRowWriteDeadline ==
  ASSUME OverdueInv, sess' = sess, age' = age,
         \A q \in Runs : phase'[q] = "streaming" => phase[q] = "streaming",
         \A q \in Runs : left'[q] = left[q] \/ left'[q] = 0
  PROVE  DeadlineInv'
BY DEF OverdueInv, DeadlineInv, InTime

LEMMA DeadlineStep ==
  ASSUME OverdueInv, TypeOK', Next
  PROVE  DeadlineInv'
<1> USE DEF OverdueInv, BackedInv
<1>1. ASSUME NEW r \in Runs, NEW s \in Sessions, SendBegin(r, s)
      PROVE  DeadlineInv'
  BY <1>1 DEF TypeOK, DeadlineInv, InTime, SendBegin, row, local
<1>2. ASSUME NEW r \in Runs, RunStep(r) PROVE DeadlineInv'
  <2>1. CASE SendCommit(r) \/ CaptureSessionId(r) \/ Verdict(r)
    BY <2>1, RowWriteDeadline DEF SendCommit, CaptureSessionId, Verdict, InTime, local
  <2>2. CASE RecordPid(r)
    <3> SUFFICES ASSUME NEW q \in Runs, InTime(q)'
                 PROVE  left'[q] + age'[sess'[q]] <= Timeout
      BY DEF DeadlineInv
    <3>1. /\ sess[r] \in Sessions /\ age' = [age EXCEPT ![sess[r]] = 0]
          /\ left' = [left EXCEPT ![r] = Timeout] /\ sess' = sess
      BY <2>2 DEF RecordPid, RowWritten, Assigned
    <3>2. CASE q = r
      BY <3>1, <3>2, NatAssumption DEF TypeOK
    <3>3. CASE q # r
      <4>1. InTime(q) /\ left'[q] = left[q] /\ sess[q] \in Sessions
        BY <2>2, <3>1, <3>3 DEF TypeOK, InTime, RecordPid, RowWritten, Assigned
      <4>2. left[q] + age[sess[q]] <= Timeout /\ left[q] \in 0..Timeout
        BY <4>1 DEF DeadlineInv, TypeOK
      <4>3. age'[sess[q]] \in {0, age[sess[q]]}
        BY <3>1, <4>1 DEF TypeOK
      <4> QED BY <3>1, <4>1, <4>2, <4>3, NatAssumption
    <3> QED BY <3>2, <3>3
  <2>3. CASE Finish(r) \/ WriteError(r)
    <3>1. RowWritten(sess[r], r, "finished") \/ RowWritten(sess[r], r, "failed")
      BY <2>3 DEF Finish, WriteError
    <3>2. sess' = sess /\ \A q \in Runs : left'[q] = left[q] \/ left'[q] = 0
      BY <2>3 DEF TypeOK, Finish, WriteError, LeaveLoop
    <3> QED BY <3>1, <3>2, RowWriteDeadline
  <2>4. CASE WorkerStart(r) \/ SpawnFail(r) \/ Spawn(r) \/ RunTimeout(r) \/ Drain(r)
    BY <2>4, NoRowWriteDeadline DEF TypeOK, WorkerStart, SpawnFail, Spawn,
      RunTimeout, Drain, LeaveLoop, row, local
  <2>5. CASE \/ EventRaises(r) \/ DrainAndKill(r) \/ JsonRaises(r)
            \/ SerializationFailure(r) \/ Crash(r)
    BY <2>5, NoRowWriteDeadline DEF TypeOK, EventRaises, DrainAndKill, JsonRaises,
      SerializationFailure, Crash, LeaveLoop, row, local
  <2>6. CASE CliReadsPrompt(r) \/ CliExit(r) \/ Collect(r)
    BY <2>6, NoRowWriteDeadline DEF CliReadsPrompt, CliExit, Collect, row, local
  <2> QED BY <1>2, <2>1, <2>2, <2>3, <2>4, <2>5, <2>6 DEF RunStep, WorkerStep
<1>3. ASSUME NEW s \in Sessions, Stop(s) \/ Reap(s) PROVE DeadlineInv'
  <2>1. RowWritten(s, None, "aborted") /\ sess' = sess /\ left' = left
    BY <1>3 DEF Stop, Reap, local
  <2> QED BY <2>1, RowWriteDeadline
<1>4. CASE Tick
  <2> SUFFICES ASSUME NEW q \in Runs, InTime(q)'
               PROVE  left'[q] + age'[sess'[q]] <= Timeout
    BY DEF DeadlineInv
  <2>1. sess[q] \in Sessions /\ sess' = sess /\ phase[q] = "streaming"
    BY <1>4 DEF Tick, InTime, Assigned
  <2>2. left[q] \in Nat /\ age[sess[q]] \in Nat
    BY <2>1, NatAssumption DEF TypeOK, Overdue
  <2>3. left[q] > 0 /\ left'[q] = left[q] - 1
    BY <1>4, <2>1, <2>2 DEF Tick, InTime
  <2>4. age'[sess[q]] \in {age[sess[q]], age[sess[q]] + 1}
    BY <1>4, <2>1 DEF Tick
  <2>5. left[q] + age[sess[q]] <= Timeout
    BY <2>1, <2>3 DEF DeadlineInv, InTime
  <2> QED BY <2>1, <2>2, <2>3, <2>4, <2>5, NatAssumption
<1> QED BY <1>1, <1>2, <1>3, <1>4 DEF Next

(* _cron_reap_stale never ends a run whose deadline has not passed: the    *)
(* write_date it compares is never older than the deadline's start.        *)
THEOREM ReapsOnlyOverdueRuns == Spec => ReapsOnlyOverdue
<1> DEFINE Safe == \A s \in Sessions : Reap(s) => \A r \in Of(s) : ~InTime(r)
<1>1. Init => OverdueInv
  BY TypeCorrectInit DEF Init, OverdueInv, BackedInv, Assigned, OpenSendsFree,
    RunningIsBacked, RunningSet, DeadlineInv, InTime
<1>2. BackedInv /\ BackedInv' /\ DeadlineInv /\ [Next]_vars => DeadlineInv'
  <2>1. ASSUME BackedInv, BackedInv', DeadlineInv, UNCHANGED vars PROVE DeadlineInv'
    BY <2>1 DEF DeadlineInv, InTime, vars, row, local
  <2> QED BY <2>1, DeadlineStep DEF OverdueInv, BackedInv
<1>3. BackedInv /\ DeadlineInv => Safe
  <2> SUFFICES ASSUME BackedInv, DeadlineInv, NEW s \in Sessions, Reap(s),
                      NEW r \in Of(s), InTime(r)
               PROVE  FALSE
    OBVIOUS
  <2>1. left[r] \in Nat /\ left[r] > 0 /\ age[s] \in Nat
    BY NatAssumption DEF BackedInv, TypeOK, Of, InTime, Overdue
  <2>2. left[r] + age[s] <= Timeout
    BY DEF DeadlineInv, Of
  <2>3. age[s] > Timeout + Grace
    BY DEF Reap, Stale
  <2> QED BY <2>1, <2>2, <2>3, NatAssumption
<1>4. OverdueInv => DeadlineInv
  BY DEF OverdueInv
<1> HIDE DEF Safe
<1>5. Spec => [][Safe]_vars
  BY <1>1, <1>2, <1>3, <1>4, BackedInvariant, PTL DEF Spec
<1> QED BY <1>5 DEF Safe, ReapsOnlyOverdue

(***************************************************************************)
(* A turn cleans up after itself                                           *)
(***************************************************************************)
(* Files are in their own session's directory, and of a started worker:    *)
(* then the clean-up of a run, which empties the directory of its session, *)
(* removes the files of this run wherever they are.                        *)
FilesInPlace ==
  \A s \in Sessions, r \in Runs : files[s] = r =>
    sess[r] = s /\ phase[r] \notin {"unused", "sending", "queued"}

CleanInv == TypeOK /\ Assigned /\ FilesInPlace /\ TurnCleanedUp

(* A step that leaves the disk and the session store as they are, moves no *)
(* run out of its event loop and none back before its start.               *)
LEMMA NoCleanUp ==
  ASSUME CleanInv, files' = files, sids' \subseteq sids, sess' = sess,
         \A q \in Runs :
           /\ phase'[q] \in {"closing", "finished"} => phase[q] \in {"closing", "finished"}
           /\ phase'[q] \in {"unused", "sending", "queued"} =>
                phase[q] \in {"unused", "sending", "queued"}
  PROVE  FilesInPlace' /\ TurnCleanedUp'
BY DEF CleanInv, FilesInPlace, TurnCleanedUp

(* A run leaves its event loop.                                            *)
LEMMA WithCleanUp ==
  ASSUME CleanInv, NEW r \in Runs, NEW to \in {"closing", "failing", "lost"},
         phase[r] = "streaming", phase' = [phase EXCEPT ![r] = to],
         CleanUp(r), sess' = sess
  PROVE  FilesInPlace' /\ TurnCleanedUp'
<1>1. sess[r] \in Sessions
  BY DEF CleanInv, Assigned
<1>2. \A s \in Sessions : files'[s] = IF s = sess[r] THEN None ELSE files[s]
  BY <1>1 DEF CleanInv, TypeOK, CleanUp
<1>3. \A q \in Runs : phase'[q] = IF q = r THEN to ELSE phase[q]
  BY DEF CleanInv, TypeOK
<1>4. FilesInPlace'
  BY <1>2, <1>3, NoneAssumption DEF CleanInv, FilesInPlace
<1>5. TurnCleanedUp'
  BY <1>2, <1>3, NoneAssumption DEF CleanInv, FilesInPlace, TurnCleanedUp, CleanUp
<1> QED BY <1>4, <1>5

LEMMA CleanRunStep ==
  ASSUME CleanInv, NEW r \in Runs, RunStep(r)
  PROVE  FilesInPlace' /\ TurnCleanedUp'
<1>1. CASE SendCommit(r) \/ RecordPid(r) \/ CaptureSessionId(r) \/ Verdict(r)
          \/ Finish(r) \/ WriteError(r)
  <2>1. PICK to \in {"queued", "streaming", "finished", "failed"} :
          /\ RowWritten(sess[r], r, to)
          /\ to = "queued" => phase[r] = "sending"
          /\ to = "finished" => phase[r] = "closing"
    BY <1>1 DEF SendCommit, RecordPid, CaptureSessionId, Verdict, Finish, WriteError
  <2>2. files' = files /\ sids' = sids /\ sess' = sess
    BY <1>1 DEF SendCommit, RecordPid, CaptureSessionId, Verdict, Finish, WriteError
  <2> QED BY <2>1, <2>2, NoCleanUp DEF RowWritten
<1>2. CASE WorkerStart(r)
  <2>1. /\ \A q \in Runs : phase'[q] = IF q = r THEN "starting" ELSE phase[q]
        /\ \A s \in Sessions : files'[s] = IF s = sess[r] THEN r ELSE files[s]
        /\ sids' = sids /\ sess' = sess
    BY <1>2 DEF CleanInv, TypeOK, WorkerStart
  <2> QED BY <1>2, <2>1 DEF CleanInv, FilesInPlace, TurnCleanedUp, WorkerStart
<1>3. CASE SpawnFail(r) \/ Spawn(r) \/ JsonRaises(r) \/ Crash(r)
  BY <1>3, NoCleanUp DEF CleanInv, TypeOK, SpawnFail, Spawn, JsonRaises, Crash
<1>4. CASE RunTimeout(r) \/ EventRaises(r)
  BY <1>4, WithCleanUp DEF RunTimeout, EventRaises, InTime
<1>5. CASE Drain(r) \/ DrainAndKill(r)
  BY <1>5, WithCleanUp DEF Drain, DrainAndKill, InTime
<1>6. CASE SerializationFailure(r) /\ phase[r] = "streaming"
  BY <1>6, WithCleanUp DEF SerializationFailure
<1>7. CASE SerializationFailure(r) /\ phase[r] # "streaming"
  BY <1>7, NoCleanUp DEF CleanInv, TypeOK, SerializationFailure
<1>8. CASE CliReadsPrompt(r) \/ CliExit(r) \/ Collect(r)
  BY <1>8, NoCleanUp DEF CliReadsPrompt, CliExit, Collect
<1> QED BY <1>1, <1>2, <1>3, <1>4, <1>5, <1>6, <1>7, <1>8 DEF RunStep, WorkerStep

LEMMA CleanStep ==
  ASSUME CleanInv, TypeOK', Assigned', [Next]_vars
  PROVE  CleanInv'
<1>1. ASSUME NEW r \in Runs, NEW s \in Sessions, SendBegin(r, s)
      PROVE  FilesInPlace' /\ TurnCleanedUp'
  <2>1. /\ \A q \in Runs : phase'[q] = IF q = r THEN "sending" ELSE phase[q]
        /\ \A q \in Runs : sess'[q] = IF q = r THEN s ELSE sess[q]
        /\ phase[r] = "unused" /\ files' = files /\ sids' = sids \cup {r}
    BY <1>1 DEF CleanInv, TypeOK, SendBegin
  <2> QED BY <2>1 DEF CleanInv, FilesInPlace, TurnCleanedUp
<1>2. ASSUME NEW r \in Runs, RunStep(r) PROVE FilesInPlace' /\ TurnCleanedUp'
  BY <1>2, CleanRunStep
<1>3. ASSUME NEW s \in Sessions, Stop(s) \/ Reap(s)
      PROVE  FilesInPlace' /\ TurnCleanedUp'
  <2>1. RowWritten(s, None, "aborted") /\ files' = files /\ sids' = sids /\ sess' = sess
    BY <1>3 DEF Stop, Reap
  <2> QED BY <2>1, NoCleanUp, NoneAssumption DEF RowWritten
<1>4. CASE Tick
  BY <1>4, NoCleanUp DEF CleanInv, Tick
<1>5. CASE UNCHANGED vars
  BY <1>5, NoCleanUp DEF CleanInv, vars
<1> QED BY <1>1, <1>2, <1>3, <1>4, <1>5 DEF Next, CleanInv

(* The finally clause of _execute leaves nothing of its turn behind, even  *)
(* when a later turn of the session has written the same file names.       *)
THEOREM TurnsCleanUp == Spec => []TurnCleanedUp
<1>1. Init => CleanInv
  BY TypeCorrectInit, NoneAssumption DEF Init, CleanInv, Assigned, FilesInPlace, TurnCleanedUp
<1>2. CleanInv /\ BackedInv' /\ [Next]_vars => CleanInv'
  BY CleanStep DEF BackedInv
<1>3. CleanInv => TurnCleanedUp
  BY DEF CleanInv
<1> QED BY <1>1, <1>2, <1>3, BackedInvariant, PTL DEF Spec

(***************************************************************************)
(* The recorded pid                                                        *)
(***************************************************************************)
Holding == {"spawned", "streaming", "closing"}
Failed  == {"failing", "failed", "lost"}

(* Two processes that have not been waited for have different pids.        *)
PidsDistinct ==
  \A q, r \in Runs :
    pid[q] # None /\ pid[q] = pid[r] /\ proc[q] # "gone" /\ proc[r] # "gone" => q = r

(* A worker that is going about its turn has not waited for its CLI yet:   *)
(* the pid cannot be handed out again.                                     *)
ProcessHeld == \A r \in Runs : phase[r] \in Holding => proc[r] # "gone"

(* The pid in a row is that of a worker still in or after its event loop,  *)
(* unless a turn of the session failed or lost its worker.                 *)
PidBacked ==
  \A s \in Sessions : lastPid[s] # None =>
    \/ \E q \in Of(s) : phase[q] \in {"streaming", "closing"} /\ pid[q] = lastPid[s]
    \/ \E q \in Of(s) : phase[q] \in Failed

PidInv == TypeOK /\ Assigned /\ PidsDistinct /\ ProcessHeld /\ PidBacked

(* What a step may do that starts no process and records no pid: a worker  *)
(* may fail, or go on and keep its process, or forget the pid of its row.  *)
LEMMA PidsStay ==
  ASSUME PidInv, pid' = pid,
         \A q \in Runs : phase[q] # "unused" => sess'[q] = sess[q],
         \A q \in Runs : proc[q] = "gone" => proc'[q] = "gone",
         \A q \in Runs : phase'[q] \in Holding =>
                            phase[q] \in Holding /\ (proc'[q] = "gone" => proc[q] = "gone"),
         \A s \in Sessions : lastPid'[s] \in {None, lastPid[s]},
         \A q \in Runs : phase[q] \in {"streaming", "closing"} =>
                            \/ phase'[q] \in {"streaming", "closing"} \cup Failed
                            \/ lastPid'[sess[q]] = None,
         \A q \in Runs : phase[q] \in Failed => phase'[q] \in Failed
  PROVE  PidsDistinct' /\ ProcessHeld' /\ PidBacked'
<1>1. PidsDistinct'
  BY DEF PidInv, PidsDistinct
<1>2. ProcessHeld'
  BY DEF PidInv, ProcessHeld
<1>3. ASSUME NEW s \in Sessions, lastPid'[s] # None
      PROVE  \E q \in Runs : /\ sess'[q] = s
                             /\ \/ phase'[q] \in {"streaming", "closing"} /\ pid[q] = lastPid'[s]
                                \/ phase'[q] \in Failed
  <2>1. lastPid'[s] = lastPid[s]
    BY <1>3
  <2>2. PICK q \in Of(s) : \/ phase[q] \in {"streaming", "closing"} /\ pid[q] = lastPid[s]
                           \/ phase[q] \in Failed
    BY <1>3, <2>1 DEF PidInv, PidBacked
  <2>3. q \in Runs /\ sess[q] = s /\ phase[q] # "unused"
    BY <2>2 DEF Of, Failed
  <2>4. sess'[q] = s
    BY <2>3
  <2> QED BY <1>3, <2>1, <2>2, <2>3, <2>4
<1>4. PidBacked'
  BY <1>3 DEF PidBacked, Of
<1> QED BY <1>1, <1>2, <1>4

LEMMA PidRunStep ==
  ASSUME PidInv, NEW r \in Runs, RunStep(r)
  PROVE  PidsDistinct' /\ ProcessHeld' /\ PidBacked'
<1> USE DEF PidInv, Holding, Failed
<1>1. CASE SendCommit(r)
  BY <1>1, PidsStay DEF TypeOK, SendCommit, RowWritten, process
<1>2. CASE CaptureSessionId(r) \/ Verdict(r)
  BY <1>2, PidsStay DEF TypeOK, CaptureSessionId, Verdict, InTime, RowWritten, process
<1>3. CASE WriteError(r)
  BY <1>3, PidsStay DEF TypeOK, WriteError, RowWritten, process
<1>4. CASE Finish(r)
  <2>1. /\ pid' = pid /\ sess' = sess /\ sess[r] \in Sessions
        /\ \A q \in Runs : proc'[q] = IF q = r THEN "gone" ELSE proc[q]
        /\ \A s \in Sessions : lastPid'[s] = IF s = sess[r] THEN None ELSE lastPid[s]
    BY <1>4 DEF TypeOK, Assigned, Finish
  <2>2. \A q \in Runs : phase'[q] = IF q = r THEN "finished"
                        ELSE IF sess[q] = sess[r] /\ phase[q] = "sending" THEN "aborted"
                        ELSE phase[q]
    BY <1>4 DEF Finish, RowWritten
  <2>3. phase[r] = "closing"
    BY <1>4 DEF Finish
  <2> QED BY <2>1, <2>2, <2>3, PidsStay
<1>5. CASE WorkerStart(r) \/ SpawnFail(r) \/ JsonRaises(r)
  BY <1>5, PidsStay DEF TypeOK, WorkerStart, SpawnFail, JsonRaises, row, process
<1>6. CASE Drain(r) \/ DrainAndKill(r) \/ RunTimeout(r) \/ EventRaises(r)
  <2>1. /\ pid' = pid /\ sess' = sess /\ lastPid' = lastPid /\ phase[r] = "streaming"
        /\ \A q \in Runs : proc'[q] # proc[q] => q \in LiveSet /\ proc'[q] = "killed"
    BY <1>6 DEF TypeOK, Drain, DrainAndKill, RunTimeout, EventRaises, InTime, row, process
  <2>2. PICK to \in {"closing", "failing"} : phase' = [phase EXCEPT ![r] = to]
    BY <1>6 DEF Drain, DrainAndKill, RunTimeout, EventRaises
  <2>3. \A q \in Runs : phase'[q] = IF q = r THEN to ELSE phase[q]
    BY <2>2 DEF TypeOK
  <2> QED BY <2>1, <2>3, PidsStay DEF LiveSet
<1>7. CASE SerializationFailure(r) \/ Crash(r)
  BY <1>7, PidsStay DEF TypeOK, SerializationFailure, Crash, row, process
<1>8. CASE CliReadsPrompt(r) \/ CliExit(r) \/ Collect(r)
  BY <1>8, PidsStay DEF TypeOK, ProcessHeld, CliReadsPrompt, CliExit, Collect, LiveSet,
    row
<1>9. CASE Spawn(r)
  <2>1. PICK p \in Pids : FreePid(p) /\ pid' = [pid EXCEPT ![r] = p]
    BY <1>9 DEF Spawn
  <2>2. /\ \A q \in Runs : pid'[q] = IF q = r THEN p ELSE pid[q]
        /\ \A q \in Runs : proc'[q] = IF q = r THEN "loading" ELSE proc[q]
        /\ \A q \in Runs : phase'[q] = IF q = r THEN "spawned" ELSE phase[q]
        /\ phase[r] = "starting" /\ lastPid' = lastPid /\ sess' = sess
    BY <1>9, <2>1 DEF TypeOK, Spawn, row
  <2>3. \A q \in Runs : pid[q] = p => proc[q] = "gone"
    BY <2>1 DEF FreePid
  <2>4. PidsDistinct'
    BY <2>2, <2>3 DEF PidsDistinct
  <2>5. ProcessHeld'
    BY <2>2 DEF ProcessHeld
  <2>6. PidBacked'
    BY <2>2 DEF PidBacked, Of
  <2> QED BY <2>4, <2>5, <2>6
<1>10. CASE RecordPid(r)
  <2>1. /\ pid' = pid /\ proc' = proc /\ sess' = sess /\ sess[r] \in Sessions
        /\ \A s \in Sessions : lastPid'[s] = IF s = sess[r] THEN pid[r] ELSE lastPid[s]
        /\ \A q \in Runs : phase'[q] = IF q = r THEN "streaming"
                            ELSE IF sess[q] = sess[r] /\ phase[q] = "sending" THEN "aborted"
                            ELSE phase[q]
        /\ phase[r] = "spawned"
    BY <1>10 DEF TypeOK, Assigned, RecordPid, RowWritten, process
  <2>2. PidsDistinct'
    BY <2>1 DEF PidsDistinct
  <2>3. ProcessHeld'
    BY <2>1 DEF ProcessHeld
  <2>4. ASSUME NEW s \in Sessions, lastPid'[s] # None
        PROVE  \E q \in Runs : /\ sess[q] = s
                               /\ \/ phase'[q] \in {"streaming", "closing"} /\ pid[q] = lastPid'[s]
                                  \/ phase'[q] \in Failed
    <3>1. CASE s = sess[r]
      BY <2>1, <3>1
    <3>2. CASE s # sess[r]
      <4>1. PICK q \in Of(s) : \/ phase[q] \in {"streaming", "closing"} /\ pid[q] = lastPid[s]
                               \/ phase[q] \in Failed
        BY <2>1, <2>4, <3>2 DEF PidBacked
      <4> QED BY <2>1, <3>2, <4>1 DEF Of
    <3> QED BY <3>1, <3>2
  <2>5. PidBacked'
    BY <2>1, <2>4 DEF PidBacked, Of
  <2> QED BY <2>2, <2>3, <2>5
<1> QED
  BY <1>1, <1>2, <1>3, <1>4, <1>5, <1>6, <1>7, <1>8, <1>9, <1>10 DEF RunStep, WorkerStep

LEMMA PidStep ==
  ASSUME PidInv, TypeOK', Assigned', [Next]_vars
  PROVE  PidInv'
<1> USE DEF PidInv, Holding, Failed
<1>1. ASSUME NEW r \in Runs, NEW s \in Sessions, SendBegin(r, s)
      PROVE  PidsDistinct' /\ ProcessHeld' /\ PidBacked'
  <2>1. /\ \A q \in Runs : phase'[q] = IF q = r THEN "sending" ELSE phase[q]
        /\ \A q \in Runs : sess'[q] = IF q = r THEN s ELSE sess[q]
        /\ phase[r] = "unused" /\ lastPid' = lastPid /\ pid' = pid /\ proc' = proc
    BY <1>1 DEF TypeOK, SendBegin, row, process
  <2> QED BY <2>1, PidsStay
<1>2. ASSUME NEW r \in Runs, RunStep(r)
      PROVE  PidsDistinct' /\ ProcessHeld' /\ PidBacked'
  BY <1>2, PidRunStep
<1>3. ASSUME NEW s \in Sessions, Stop(s) \/ Reap(s)
      PROVE  PidsDistinct' /\ ProcessHeld' /\ PidBacked'
  <2>1. /\ pid' = pid /\ sess' = sess
        /\ \A q \in Runs : proc'[q] # proc[q] => q \in LiveSet /\ proc'[q] = "killed"
        /\ \A x \in Sessions : lastPid'[x] = IF x = s THEN None ELSE lastPid[x]
    BY <1>3 DEF TypeOK, Stop, Reap, Signal
  <2>2. \A q \in Runs : phase'[q] = IF sess[q] = s /\ phase[q] = "sending" THEN "aborted"
                                    ELSE phase[q]
    BY <1>3, NoneAssumption DEF Stop, Reap, RowWritten
  <2> QED BY <2>1, <2>2, PidsStay DEF LiveSet
<1>4. CASE Tick
  BY <1>4, PidsStay DEF Tick, process
<1>5. CASE UNCHANGED vars
  BY <1>5, PidsStay DEF vars, row, process
<1> QED BY <1>1, <1>2, <1>3, <1>4, <1>5 DEF Next

(* A stray signal presupposes a turn of the session that failed or lost its *)
(* worker: while every turn of it goes its way, the recorded pid belongs to *)
(* a process that its worker has not waited for.                           *)
THEOREM StraySignals == Spec => []StraysOnlyAfterFailure
<1>1. Init => PidInv
  BY TypeCorrectInit DEF Init, PidInv, Assigned, PidsDistinct, ProcessHeld, PidBacked,
    Holding
<1>2. PidInv /\ BackedInv' /\ [Next]_vars => PidInv'
  BY PidStep DEF BackedInv
<1>3. PidInv => StraysOnlyAfterFailure
  <2> SUFFICES ASSUME PidInv, NEW s \in Sessions, NEW r \in LiveSet,
                      lastPid[s] # None, pid[r] = lastPid[s], sess[r] # s,
                      ~ \E q \in Of(s) : phase[q] \in Failed
               PROVE  FALSE
    BY DEF StraysOnlyAfterFailure, Failed
  <2>1. PICK q \in Of(s) : phase[q] \in {"streaming", "closing"} /\ pid[q] = lastPid[s]
    BY DEF PidInv, PidBacked
  <2>2. q \in Runs /\ sess[q] = s /\ proc[q] # "gone"
    BY <2>1 DEF PidInv, ProcessHeld, Holding, Of
  <2>3. r \in Runs /\ proc[r] # "gone"
    BY DEF LiveSet
  <2>4. q = r
    BY <2>1, <2>2, <2>3 DEF PidInv, PidsDistinct
  <2> QED BY <2>2, <2>4
<1> QED BY <1>1, <1>2, <1>3, BackedInvariant, PTL DEF Spec

(***************************************************************************)
(* The soft cap                                                            *)
(***************************************************************************)
Rows(u)     == RunningSet \cap Own(u)
Open(u)     == {r \in SendingSet : sess[r] \in Own(u)}
Answered(u) == {r \in Runs : phase[r] \notin {"unused", "sending"} /\ sess[r] \in Own(u)}

(* The instances of FiniteSets count alike.                                *)
LEMMA SameCardinality == \A u, S : Pool(u)!Cardinality(S) = Cardinality(S)
BY DEF Pool!Cardinality, Cardinality

(* A step in which nobody of u enters or leaves the pool.                  *)
LEMMA PoolStutter ==
  ASSUME NEW u, Rows(u)' = Rows(u), Open(u)' = Open(u), Answered(u)' = Answered(u)
  PROVE  UNCHANGED Pool(u)!vars
BY DEF Pool!vars, Rows, Open, Answered

(* A step that neither opens nor answers a send nor writes a state.        *)
LEMMA PoolUntouched ==
  ASSUME NEW u, state' = state, sess' = sess,
         \A q \in Runs : /\ phase'[q] = "sending" <=> phase[q] = "sending"
                         /\ phase'[q] = "unused" <=> phase[q] = "unused"
  PROVE  UNCHANGED Pool(u)!vars
BY PoolStutter DEF Rows, Open, Answered, RunningSet, SendingSet, Own

(* A row write that does not make its row `running` frees at most its slot *)
(* and turns away the sends open on it.                                    *)
LEMMA PoolLeave ==
  ASSUME BackedInv, NEW u, NEW s, NEW r, NEW to, to \notin {"unused", "sending"},
         r \in Runs => phase[r] \notin {"unused", "sending"},
         RowWritten(s, r, to), sess' = sess,
         \A x \in Sessions : state'[x] = "running" => state[x] = "running"
  PROVE  Pool(u)!Next
<1> DEFINE losers == Open(u) \ Open(u)'
           freed == Rows(u) \ Rows(u)'
<1>1. losers \in SUBSET Open(u) /\ Open(u)' = Open(u) \ losers
  BY RowWrittenPhases DEF BackedInv, SendingSet, Open, Own
<1>2. freed \in SUBSET Rows(u) /\ Rows(u)' = Rows(u) \ freed
  BY DEF RunningSet, Rows, Own
<1>3. Answered(u)' = Answered(u) \cup losers
  BY DEF BackedInv, TypeOK, RowWritten, SendingSet, Answered, Open, Own
<1>4. \E L \in SUBSET Open(u), F \in SUBSET Rows(u) : Pool(u)!Leave(F, L)
  <2>1. PICK L \in SUBSET Open(u) : L = losers
    BY <1>1
  <2>2. PICK F \in SUBSET Rows(u) : F = freed
    BY <1>2
  <2>3. Pool(u)!Leave(F, L)
    BY <1>1, <1>2, <1>3, <2>1, <2>2 DEF Pool!Leave, Answered, Open, Rows
  <2> QED BY <2>3
<1> QED BY <1>4 DEF Pool!Next, Open, Rows

(* A commit takes a slot that is free in the pool of the session's user.   *)
LEMMA PoolEnter ==
  ASSUME BackedInv, NEW r \in Runs, SendCommit(r), NEW u, u = Owner[sess[r]]
  PROVE  Pool(u)!Next
<1> DEFINE s == sess[r]
           losers == (Open(u) \ Open(u)') \ {r}
<1>1. s \in Own(u) /\ s \notin Rows(u) /\ r \in Open(u)
  BY DEF BackedInv, OpenSendsFree, SendCommit, RunningSet, SendingSet, Own, Rows, Open
<1>2. losers \in SUBSET Open(u) /\ Open(u)' = Open(u) \ (losers \cup {r})
  BY <1>1, RowWrittenPhases DEF BackedInv, SendingSet, SendCommit, Open, Own
<1>3. Rows(u)' = Rows(u) \cup {s}
  BY <1>1 DEF BackedInv, TypeOK, RunningSet, SendCommit, Rows, Own
<1>4. Answered(u)' = Answered(u) \cup losers \cup {r}
  BY <1>1 DEF BackedInv, TypeOK, RowWritten, SendingSet, Answered, SendCommit, Open, Own
<1>5. \E L \in SUBSET Open(u), x \in Own(u) : Pool(u)!Enter(r, x, L)
  <2>1. PICK L \in SUBSET Open(u) : L = losers
    BY <1>2
  <2>2. PICK x \in Own(u) : x = s
    BY <1>1
  <2>3. Pool(u)!Enter(r, x, L)
    BY <1>1, <1>2, <1>3, <1>4, <2>1, <2>2 DEF Pool!Enter, Answered, Open, Rows
  <2> QED BY <2>3
<1> QED BY <1>5 DEF Pool!Next, Open

(* The same commit in the pool of any other user: nothing happens there.   *)
LEMMA PoolEnterOther ==
  ASSUME BackedInv, NEW r \in Runs, SendCommit(r), NEW u, u # Owner[sess[r]]
  PROVE  UNCHANGED Pool(u)!vars
<1>1. Rows(u)' = Rows(u)
  BY DEF BackedInv, TypeOK, SendCommit, RunningSet, Rows, Own
<1>2. \A q \in Runs : sess[q] \in Own(u) => phase'[q] = phase[q]
  BY DEF SendCommit, RowWritten, Own
<1>3. Open(u)' = Open(u) /\ Answered(u)' = Answered(u)
  BY <1>2 DEF SendCommit, SendingSet, Open, Answered, Own
<1> QED BY <1>1, <1>3, PoolStutter

LEMMA PoolRunStep ==
  ASSUME BackedInv, NEW u, NEW r \in Runs, RunStep(r)
  PROVE  [Pool(u)!Next]_(Pool(u)!vars)
<1> USE DEF BackedInv
<1>1. CASE SendCommit(r)
  BY <1>1, PoolEnter, PoolEnterOther
<1>2. CASE RecordPid(r) \/ CaptureSessionId(r) \/ Verdict(r)
  <2>1. RowWritten(sess[r], r, "streaming") /\ phase[r] \notin {"unused", "sending"}
    BY <1>2 DEF RecordPid, CaptureSessionId, Verdict, InTime
  <2>2. \A x \in Sessions : state'[x] = "running" => state[x] = "running"
    BY <1>2 DEF TypeOK, RecordPid, CaptureSessionId, Verdict
  <2>3. sess' = sess
    BY <1>2 DEF RecordPid, CaptureSessionId, Verdict
  <2> QED BY <2>1, <2>2, <2>3, PoolLeave
<1>3. CASE Finish(r)
  <2>1. PICK st \in Settled(state[sess[r]], proc[r]) :
               state' = [state EXCEPT ![sess[r]] = st]
    BY <1>3 DEF Finish
  <2>2. \A x \in Sessions : state'[x] = "running" => state[x] = "running"
    BY <2>1 DEF TypeOK, Settled
  <2> QED BY <1>3, <2>2, PoolLeave DEF Finish
<1>4. CASE WriteError(r)
  <2>1. \A x \in Sessions : state'[x] = "running" => state[x] = "running"
    BY <1>4 DEF TypeOK, WriteError
  <2> QED BY <1>4, <2>1, PoolLeave DEF WriteError
<1>5. CASE WorkerStart(r) \/ SpawnFail(r) \/ Spawn(r) \/ RunTimeout(r) \/ Drain(r)
  BY <1>5, PoolUntouched DEF TypeOK, WorkerStart, SpawnFail, Spawn, RunTimeout, Drain,
    InTime, row
<1>6. CASE \/ EventRaises(r) \/ DrainAndKill(r) \/ JsonRaises(r)
          \/ SerializationFailure(r) \/ Crash(r)
  BY <1>6, PoolUntouched DEF TypeOK, EventRaises, DrainAndKill, JsonRaises,
    SerializationFailure, Crash, InTime, row
<1>7. CASE CliReadsPrompt(r) \/ CliExit(r) \/ Collect(r)
  BY <1>7, PoolUntouched DEF CliReadsPrompt, CliExit, Collect, row
<1> QED BY <1>1, <1>2, <1>3, <1>4, <1>5, <1>6, <1>7 DEF RunStep, WorkerStep

(* What a user's send counts is at least the user's own running rows, and  *)
(* the requests open for the user are some of those open.                  *)
LEMMA CountsOwn ==
  ASSUME NEW u
  PROVE  /\ BelowCap(u) => MaxConcurrent = 0 \/ Cardinality(Rows(u)) < MaxConcurrent
         /\ Cardinality(SendingSet) < HttpWorkers => Cardinality(Open(u)) < HttpWorkers
<1>1. /\ IsFiniteSet(RunningSet \cap Visible(u)) /\ IsFiniteSet(SendingSet)
      /\ Rows(u) \subseteq RunningSet \cap Visible(u) /\ Open(u) \subseteq SendingSet
  BY FiniteAssumption, FS_Subset DEF RunningSet, SendingSet, Rows, Open, Visible, Own
<1>2. /\ Cardinality(Rows(u)) \in Nat /\ Cardinality(Open(u)) \in Nat
      /\ Cardinality(Rows(u)) <= Cardinality(RunningSet \cap Visible(u))
      /\ Cardinality(Open(u)) <= Cardinality(SendingSet)
      /\ Cardinality(RunningSet \cap Visible(u)) \in Nat /\ Cardinality(SendingSet) \in Nat
  BY <1>1, FS_Subset, FS_CardinalityType
<1> QED BY <1>2, NatAssumption DEF BelowCap

(* A send is a check in the pool of its user, and nothing in the others.   *)
LEMMA PoolCheck ==
  ASSUME BackedInv, NEW u, NEW r \in Runs, NEW s \in Sessions, SendBegin(r, s)
  PROVE  [Pool(u)!Next]_(Pool(u)!vars)
<1>1. Rows(u)' = Rows(u)
  BY DEF SendBegin, Rows, RunningSet, Own, row
<1>2. /\ \A q \in Runs : phase'[q] = IF q = r THEN "sending" ELSE phase[q]
      /\ \A q \in Runs : sess'[q] = IF q = r THEN s ELSE sess[q]
      /\ phase[r] = "unused"
  BY DEF BackedInv, TypeOK, SendBegin
<1>3. Answered(u)' = Answered(u)
  BY <1>2 DEF Answered, Own
<1>4. CASE u = Owner[s]
  <2>1. r \notin Open(u) \cup Answered(u) /\ Open(u)' = Open(u) \cup {r}
    BY <1>2, <1>4 DEF Open, Answered, SendingSet, Own
  <2>2. /\ Cardinality(Open(u)) < HttpWorkers
        /\ MaxConcurrent = 0 \/ Cardinality(Rows(u)) < MaxConcurrent
    BY <1>4, CountsOwn DEF SendBegin
  <2>3. Pool(u)!Check(r)
    BY <1>1, <1>3, <2>1, <2>2, SameCardinality DEF Pool!Check, Open, Answered, Rows
  <2> QED BY <2>3 DEF Pool!Next
<1>5. CASE u # Owner[s]
  <2>1. Open(u)' = Open(u)
    BY <1>2, <1>5 DEF Open, SendingSet, Own
  <2> QED BY <1>1, <1>3, <2>1, PoolStutter
<1> QED BY <1>4, <1>5

LEMMA PoolStep ==
  ASSUME BackedInv, [Next]_vars, NEW u
  PROVE  [Pool(u)!Next]_(Pool(u)!vars)
<1>1. ASSUME NEW r \in Runs, NEW s \in Sessions, SendBegin(r, s)
      PROVE  [Pool(u)!Next]_(Pool(u)!vars)
  BY <1>1, PoolCheck
<1>2. ASSUME NEW r \in Runs, RunStep(r) PROVE [Pool(u)!Next]_(Pool(u)!vars)
  BY <1>2, PoolRunStep
<1>3. ASSUME NEW s \in Sessions, Stop(s) \/ Reap(s) PROVE [Pool(u)!Next]_(Pool(u)!vars)
  <2>1. /\ RowWritten(s, None, "aborted") /\ sess' = sess
        /\ \A x \in Sessions : state'[x] = "running" => state[x] = "running"
    BY <1>3 DEF BackedInv, TypeOK, Stop, Reap
  <2> QED BY <2>1, PoolLeave, NoneAssumption
<1>4. CASE Tick
  BY <1>4, PoolUntouched DEF Tick
<1>5. CASE UNCHANGED vars
  BY <1>5, PoolUntouched DEF vars, row
<1> QED BY <1>1, <1>2, <1>3, <1>4, <1>5 DEF Next

(* The rows and open sends of every user are a SlotPool: what is proved of *)
(* the pool holds of them.                                                 *)
THEOREM RunsImplementPool == Spec => ImplementsPool
<1> DEFINE Starts == \A u \in Users : Pool(u)!Init
           Steps  == \A u \in Users : Pool(u)!Next \/ UNCHANGED Pool(u)!vars
<1>1. Init => Starts
  BY DEF Init, Pool!Init, RunningSet, SendingSet
<1>2. BackedInv /\ [Next]_vars => [Steps]_vars
  BY PoolStep
<1> HIDE DEF Starts, Steps
<1>3. Spec => Starts /\ [][Steps]_vars
  BY <1>1, <1>2, BackedInvariant, PTL DEF Spec
<1> QED BY <1>3 DEF ImplementsPool, Starts, Steps

(***************************************************************************)
(* The bound on the soft cap: what every pool keeps                        *)
(***************************************************************************)
(* Besides SoftCap, the requests open for a user are within the number of   *)
(* HTTP workers: a check that passes leaves the sum below the cap plus the  *)
(* requests open at that moment, and a commit only trades one for the other. *)
CapInv(u) == Cardinality(Open(u)) <= HttpWorkers /\ Pool(u)!SoftCap

(* Removing elements never makes a finite set larger.                       *)
LEMMA ShrinkCardinality ==
  ASSUME NEW S, IsFiniteSet(S), NEW T, T \subseteq S
  PROVE  /\ IsFiniteSet(T)
         /\ Cardinality(T) \in Nat /\ Cardinality(S) \in Nat
         /\ Cardinality(T) <= Cardinality(S)
BY FS_Subset, FS_CardinalityType

(* Adding a new element makes a finite set larger by one.                   *)
LEMMA GrowCardinality ==
  ASSUME NEW S, IsFiniteSet(S), NEW x, x \notin S
  PROVE  /\ IsFiniteSet(S \cup {x})
         /\ Cardinality(S) \in Nat
         /\ Cardinality(S \cup {x}) = Cardinality(S) + 1
BY FS_AddElement, FS_CardinalityType

LEMMA PoolFinite ==
  ASSUME NEW u
  PROVE  /\ IsFiniteSet(Rows(u)) /\ IsFiniteSet(Open(u))
         /\ Cardinality(Rows(u)) \in Nat /\ Cardinality(Open(u)) \in Nat
<1>1. Rows(u) \subseteq Sessions /\ Open(u) \subseteq Runs
  BY DEF Rows, Open, RunningSet, SendingSet
<1> QED BY <1>1, FiniteAssumption, FS_Subset, FS_CardinalityType

(* SoftCap in the terms of SessionRuns.                                     *)
LEMMA SoftCapMeans ==
  ASSUME NEW u
  PROVE  /\ Pool(u)!SoftCap <=>
              (MaxConcurrent > 0 =>
                 Cardinality(Rows(u)) + Cardinality(Open(u)) <= MaxConcurrent - 1 + HttpWorkers)
         /\ (Pool(u)!SoftCap)' <=>
              (MaxConcurrent > 0 =>
                 Cardinality(Rows(u)') + Cardinality(Open(u)') <= MaxConcurrent - 1 + HttpWorkers)
BY SameCardinality DEF Pool!SoftCap, Rows, Open

(* A passing check: the snapshot was below the cap.                         *)
LEMMA CapCheck ==
  ASSUME NEW u, CapInv(u), NEW r, Pool(u)!Check(r)
  PROVE  CapInv(u)'
<1>1. /\ r \notin Open(u) /\ Open(u)' = Open(u) \cup {r} /\ Rows(u)' = Rows(u)
      /\ Cardinality(Open(u)) < HttpWorkers
      /\ MaxConcurrent = 0 \/ Cardinality(Rows(u)) < MaxConcurrent
  BY SameCardinality DEF Pool!Check, Open, Rows
<1>2. /\ Cardinality(Open(u)) \in Nat /\ Cardinality(Rows(u)) \in Nat
      /\ Cardinality(Open(u)') = Cardinality(Open(u)) + 1
  BY <1>1, PoolFinite, GrowCardinality
<1>3. MaxConcurrent > 0 =>
        Cardinality(Rows(u)') + Cardinality(Open(u)') <= MaxConcurrent - 1 + HttpWorkers
  <2>1. Cardinality(Rows(u)') = Cardinality(Rows(u))
    BY <1>1
  <2> QED BY <1>1, <1>2, <2>1, NatAssumption
<1>4. Cardinality(Open(u)') <= HttpWorkers
  BY <1>1, <1>2, NatAssumption
<1> QED BY <1>3, <1>4, SoftCapMeans DEF CapInv

(* A commit trades an open request for a slot.                              *)
LEMMA CapEnter ==
  ASSUME NEW u, CapInv(u), NEW r, NEW s, NEW losers, Pool(u)!Enter(r, s, losers)
  PROVE  CapInv(u)'
<1> DEFINE rest == Open(u) \ (losers \cup {r})
<1>1. /\ r \in Open(u) /\ Open(u)' = rest /\ rest \cup {r} \subseteq Open(u) /\ r \notin rest
      /\ s \notin Rows(u) /\ Rows(u)' = Rows(u) \cup {s}
  BY DEF Pool!Enter, Open, Rows
<1> HIDE DEF rest
<1>2. /\ IsFiniteSet(rest \cup {r}) /\ Cardinality(rest \cup {r}) <= Cardinality(Open(u))
      /\ IsFiniteSet(rest) /\ Cardinality(Open(u)) \in Nat
  <2>1. rest \subseteq Open(u)
    BY <1>1
  <2> QED BY <1>1, <2>1, PoolFinite, ShrinkCardinality
<1>3. /\ Cardinality(rest) \in Nat
      /\ Cardinality(rest \cup {r}) = Cardinality(rest) + 1
  BY <1>1, <1>2, GrowCardinality
<1>4. /\ Cardinality(Rows(u)) \in Nat
      /\ Cardinality(Rows(u)') = Cardinality(Rows(u)) + 1
  BY <1>1, PoolFinite, GrowCardinality
<1>5. Cardinality(Open(u)') = Cardinality(rest) /\ Cardinality(rest) + 1 <= Cardinality(Open(u))
  BY <1>1, <1>2, <1>3
<1>6. MaxConcurrent > 0 =>
        Cardinality(Rows(u)) + Cardinality(Open(u)) <= MaxConcurrent - 1 + HttpWorkers
  BY SoftCapMeans DEF CapInv
<1>7. MaxConcurrent > 0 =>
        Cardinality(Rows(u)') + Cardinality(Open(u)') <= MaxConcurrent - 1 + HttpWorkers
  BY <1>2, <1>3, <1>4, <1>5, <1>6, NatAssumption
<1>8. Cardinality(Open(u)') <= HttpWorkers
  BY <1>2, <1>3, <1>5, NatAssumption DEF CapInv
<1> QED BY <1>7, <1>8, SoftCapMeans DEF CapInv

(* Leaving and losing requests only shrink the pool.                        *)
LEMMA CapLeave ==
  ASSUME NEW u, CapInv(u), NEW freed, NEW losers, Pool(u)!Leave(freed, losers)
  PROVE  CapInv(u)'
<1>1. Rows(u)' \subseteq Rows(u) /\ Open(u)' \subseteq Open(u)
  BY DEF Pool!Leave, Open, Rows
<1>2. /\ Cardinality(Open(u)') <= Cardinality(Open(u))
      /\ Cardinality(Open(u)') \in Nat /\ Cardinality(Open(u)) \in Nat
  BY <1>1, PoolFinite, ShrinkCardinality
<1>3. /\ Cardinality(Rows(u)') <= Cardinality(Rows(u))
      /\ Cardinality(Rows(u)') \in Nat /\ Cardinality(Rows(u)) \in Nat
  BY <1>1, PoolFinite, ShrinkCardinality
<1> QED BY <1>2, <1>3, NatAssumption, SoftCapMeans DEF CapInv

LEMMA CapStep ==
  ASSUME NEW u, CapInv(u), [Pool(u)!Next]_(Pool(u)!vars)
  PROVE  CapInv(u)'
<1>1. CASE UNCHANGED Pool(u)!vars
  <2>1. Rows(u)' = Rows(u) /\ Open(u)' = Open(u)
    BY <1>1 DEF Pool!vars, Rows, Open
  <2> QED BY <2>1, SoftCapMeans DEF CapInv
<1>2. CASE Pool(u)!Next
  BY <1>2, CapCheck, CapEnter, CapLeave DEF Pool!Next
<1> QED BY <1>1, <1>2

(* The cap that send_message checks is exceeded, in the rows of any user,   *)
(* by fewer than the requests that can be open at once.                     *)
THEOREM SoftCapOnRows == Spec => []CapKept
<1> DEFINE Inv == \A u \in Users : CapInv(u)
<1>1. Init => Inv
  <2> SUFFICES ASSUME Init, NEW u \in Users PROVE CapInv(u)
    OBVIOUS
  <2>1. Rows(u) = {} /\ Open(u) = {}
    BY DEF Init, Rows, Open, RunningSet, SendingSet
  <2> QED BY <2>1, FS_EmptySet, NatAssumption, SoftCapMeans DEF CapInv
<1>2. BackedInv /\ Inv /\ [Next]_vars => Inv'
  BY PoolStep, CapStep
<1>3. Inv => CapKept
  BY DEF CapInv, CapKept
<1> HIDE DEF Inv
<1> QED BY <1>1, <1>2, <1>3, BackedInvariant, PTL DEF Spec

(***************************************************************************)
(* A run of TurnTokens is a run of SessionRuns                             *)
(***************************************************************************)
LEMMA TokenNextIsNext == [TokenNext]_tokenVars => [Next]_vars
BY DEF TokenNext, tokenVars, Next, Elapse

LEMMA TokenSpecIsSpec == TokenSpec => Spec
<1>1. TokenInit => Init
  BY DEF TokenInit
<1> QED BY <1>1, TokenNextIsNext, PTL DEF TokenSpec, Spec

(***************************************************************************)
(* The life of a token                                                     *)
(***************************************************************************)
(* A running row has been written since the token of its turn was minted:   *)
(* the reaper's clock is never ahead of the token's.                        *)
ClockBound ==
  \A s \in Sessions : state[s] = "running" /\ tok[jti[s]] > 0
                        => age[s] + tok[jti[s]] <= Ttl

TokenInv == TokenTypeOK /\ BackedInv /\ ClockBound

LEMMA TokenTypeStep ==
  ASSUME TokenTypeOK, [TokenNext]_tokenVars
  PROVE  TokenTypeOK'
<1>1. ASSUME NEW r \in Runs, Mint(r) PROVE TokenTypeOK'
  BY <1>1, TtlAssumption DEF Mint, TokenTypeOK
<1>2. CASE Elapse
  BY <1>2, TtlAssumption DEF Elapse, TokenTypeOK
<1>3. CASE UNCHANGED tok
  BY <1>3 DEF TokenTypeOK
<1> QED BY <1>1, <1>2, <1>3 DEF TokenNext, tokenVars

(* A row write makes its row young, and leaves the other rows' ages.       *)
LEMMA RowWriteClock ==
  ASSUME TokenInv, TypeOK', NEW s, NEW r, NEW to, RowWritten(s, r, to),
         jti' = jti, UNCHANGED tok,
         \A x \in Sessions : state'[x] = "running" => state[x] = "running"
  PROVE  ClockBound'
<1> SUFFICES ASSUME NEW x \in Sessions, state'[x] = "running", tok[jti[x]] > 0
             PROVE  age'[x] + tok[jti[x]] <= Ttl
  BY DEF ClockBound
<1>1. age'[x] \in {0, age[x]} /\ age[x] \in Nat
  BY NatAssumption DEF RowWritten, TokenInv, BackedInv, TypeOK, Overdue
<1>2. age[x] + tok[jti[x]] <= Ttl
  BY DEF TokenInv, ClockBound
<1>3. jti[x] \in Runs
  BY DEF TokenInv, BackedInv, TypeOK, RunningIsBacked, RunningSet
<1>4. tok[jti[x]] \in 0..Ttl
  BY <1>3 DEF TokenInv, TokenTypeOK
<1> QED BY <1>1, <1>2, <1>4, TtlAssumption

(* A step that writes no row.                                              *)
LEMMA NoRowWriteClock ==
  ASSUME TokenInv, UNCHANGED <<row, tok>>
  PROVE  ClockBound'
BY DEF TokenInv, ClockBound, row

LEMMA ClockRunStep ==
  ASSUME TokenInv, TypeOK', NEW r \in Runs, RunStep(r), UNCHANGED tok
  PROVE  ClockBound'
<1> USE DEF TokenInv, BackedInv
<1>1. CASE SendCommit(r)
  <2> SUFFICES ASSUME NEW x \in Sessions, state'[x] = "running", tok[jti'[x]] > 0
               PROVE  age'[x] + tok[jti'[x]] <= Ttl
    BY DEF ClockBound
  <2>1. CASE x = sess[r]
    <3>1. age'[x] = 0 /\ jti'[x] = r
      BY <1>1, <2>1 DEF SendCommit, RowWritten, TypeOK
    <3> QED BY <3>1, TtlAssumption DEF TokenTypeOK
  <2>2. CASE x # sess[r]
    BY <1>1, <2>2 DEF SendCommit, RowWritten, TypeOK, ClockBound
  <2> QED BY <2>1, <2>2
<1>2. CASE RecordPid(r) \/ CaptureSessionId(r) \/ Verdict(r) \/ WriteError(r)
  <2>1. \E to : RowWritten(sess[r], r, to)
    BY <1>2 DEF RecordPid, CaptureSessionId, Verdict, WriteError
  <2>2. \A x \in Sessions : state'[x] = "running" => state[x] = "running"
    BY <1>2 DEF TypeOK, RecordPid, CaptureSessionId, Verdict, WriteError
  <2> QED BY <1>2, <2>1, <2>2, RowWriteClock
          DEF RecordPid, CaptureSessionId, Verdict, WriteError
<1>3. CASE Finish(r)
  <2>1. PICK st \in Settled(state[sess[r]], proc[r]) :
               state' = [state EXCEPT ![sess[r]] = st]
    BY <1>3 DEF Finish
  <2>2. \A x \in Sessions : state'[x] = "running" => state[x] = "running"
    BY <2>1 DEF TypeOK, Settled
  <2> QED BY <1>3, <2>2, RowWriteClock DEF Finish
<1>4. CASE WorkerStart(r) \/ SpawnFail(r) \/ Spawn(r) \/ RunTimeout(r) \/ Drain(r)
  BY <1>4, NoRowWriteClock DEF WorkerStart, SpawnFail, Spawn, RunTimeout, Drain
<1>5. CASE \/ EventRaises(r) \/ DrainAndKill(r) \/ JsonRaises(r)
          \/ SerializationFailure(r) \/ Crash(r)
          \/ CliReadsPrompt(r) \/ CliExit(r) \/ Collect(r)
  BY <1>5, NoRowWriteClock DEF EventRaises, DrainAndKill, JsonRaises,
    SerializationFailure, Crash, CliReadsPrompt, CliExit, Collect
<1> QED BY <1>1, <1>2, <1>3, <1>4, <1>5 DEF RunStep, WorkerStep

LEMMA ClockElapse ==
  ASSUME TokenInv, Elapse
  PROVE  ClockBound'
<1> SUFFICES ASSUME NEW x \in Sessions, state[x] = "running", tok'[jti[x]] > 0
             PROVE  age'[x] + tok'[jti[x]] <= Ttl
  BY DEF ClockBound, Elapse, Tick
<1>1. jti[x] \in Runs
  BY DEF TokenInv, BackedInv, TypeOK, RunningIsBacked, RunningSet
<1>2. tok[jti[x]] \in 0..Ttl /\ age[x] \in Nat
  BY <1>1, NatAssumption DEF TokenInv, TokenTypeOK, BackedInv, TypeOK, Overdue
<1>3. tok[jti[x]] > 0 /\ tok'[jti[x]] = tok[jti[x]] - 1
  BY <1>1, <1>2, TtlAssumption DEF Elapse
<1>4. age'[x] \in {age[x], age[x] + 1}
  BY DEF Elapse, Tick
<1>5. age[x] + tok[jti[x]] <= Ttl
  BY <1>3 DEF TokenInv, ClockBound
<1> QED BY <1>2, <1>3, <1>4, <1>5, TtlAssumption

LEMMA ClockStep ==
  ASSUME TokenInv, TypeOK', [TokenNext]_tokenVars
  PROVE  ClockBound'
<1>1. ASSUME NEW r \in Runs, NEW s \in Sessions, SendBegin(r, s), Mint(r)
      PROVE  ClockBound'
  <2>1. UNCHANGED row /\ \A x \in Sessions : state[x] = "running" => jti[x] # r
    BY <1>1 DEF SendBegin, TokenInv, BackedInv, RunningIsBacked, RunningSet, Active, InWorker
  <2>2. \A q \in Runs : q # r => tok'[q] = tok[q]
    BY <1>1 DEF Mint, TokenInv, TokenTypeOK
  <2>3. \A x \in Sessions : state[x] = "running" => jti[x] \in Runs
    BY DEF TokenInv, BackedInv, TypeOK, RunningIsBacked, RunningSet
  <2>4. state' = state /\ jti' = jti /\ age' = age
    BY <2>1 DEF row
  <2>5. \A x \in Sessions : state[x] = "running" => tok'[jti[x]] = tok[jti[x]]
    BY <2>1, <2>2, <2>3
  <2> QED BY <2>4, <2>5 DEF TokenInv, ClockBound
<1>2. ASSUME NEW r \in Runs, RunStep(r), UNCHANGED tok PROVE ClockBound'
  BY <1>2, ClockRunStep
<1>3. ASSUME NEW s \in Sessions, Stop(s) \/ Reap(s), UNCHANGED tok PROVE ClockBound'
  <2>1. /\ RowWritten(s, None, "aborted") /\ jti' = jti
        /\ \A x \in Sessions : state'[x] = "running" => state[x] = "running"
    BY <1>3 DEF TokenInv, BackedInv, TypeOK, Stop, Reap
  <2> QED BY <1>3, <2>1, RowWriteClock
<1>4. CASE Elapse
  BY <1>4, ClockElapse
<1>5. CASE UNCHANGED tokenVars
  BY <1>5, NoRowWriteClock DEF tokenVars, vars
<1> QED BY <1>1, <1>2, <1>3, <1>4, <1>5 DEF TokenNext

LEMMA TokenInvariant == TokenSpec => []TokenInv
<1>1. TokenInit => TokenTypeOK /\ ClockBound
  BY TtlAssumption DEF TokenInit, Init, TokenTypeOK, ClockBound
<1>2. TokenInv /\ BackedInv' /\ [TokenNext]_tokenVars => TokenInv'
  BY TokenTypeStep, ClockStep DEF TokenInv, BackedInv
<1>3. TokenTypeOK /\ BackedInv /\ ClockBound => TokenInv
  BY DEF TokenInv
<1> QED BY <1>1, <1>2, <1>3, TokenSpecIsSpec, BackedInvariant, PTL DEF TokenSpec

(* _cron_reap_stale: the token of a reaped turn has expired, as long as it  *)
(* lives no longer than the reaper waits.                                   *)
THEOREM ReapedTurnsAreDenied == TokenSpec => ReapedIsDenied
<1> DEFINE Denied == \A s \in Sessions : Reap(s) /\ Ttl <= Timeout + Grace
                                            => \A r \in Of(s) : ~Accepts(r)
<1>1. TokenInv => Denied
  <2> SUFFICES ASSUME TokenInv, NEW s \in Sessions, Reap(s), Ttl <= Timeout + Grace,
                      NEW r \in Of(s), Accepts(r)
               PROVE  FALSE
    OBVIOUS
  <2>1. state[s] = "running" /\ age[s] > Timeout + Grace
    BY DEF Reap, Stale
  <2>2. jti[s] = r /\ tok[r] > 0 /\ r \in Runs
    BY DEF Accepts, Of
  <2>3. age[s] + tok[r] <= Ttl
    BY <2>1, <2>2 DEF TokenInv, ClockBound
  <2>4. age[s] \in Nat /\ tok[r] \in Nat
    BY <2>2, NatAssumption, TtlAssumption
       DEF TokenInv, TokenTypeOK, BackedInv, TypeOK, Overdue
  <2> QED BY <2>1, <2>2, <2>3, <2>4, NatAssumption, TtlAssumption
<1> HIDE DEF Denied
<1>2. TokenSpec => [][Denied]_tokenVars
  BY <1>1, TokenInvariant, PTL
<1> QED BY <1>2 DEF Denied, ReapedIsDenied

(* A run becomes the current one of its session only by its own commit.     *)
LEMMA JtiStep ==
  ASSUME TokenInv, [TokenNext]_tokenVars, NEW r \in Runs,
         phase[r] \notin {"unused", "sending"}, ~Accepts(r)
  PROVE  ~Accepts(r)'
<1> USE DEF TokenInv, BackedInv
<1>1. sess[r] \in Sessions /\ tok[r] \in Nat
  BY TtlAssumption DEF Assigned, TokenTypeOK
<1>2. ASSUME NEW q \in Runs, NEW s \in Sessions, SendBegin(q, s), Mint(q)
      PROVE  ~Accepts(r)'
  BY <1>1, <1>2 DEF SendBegin, Mint, Accepts, TypeOK, TokenTypeOK, row
<1>3. ASSUME NEW q \in Runs, RunStep(q), UNCHANGED tok PROVE ~Accepts(r)'
  <2>1. CASE SendCommit(q)
    BY <1>1, <1>3, <2>1 DEF SendCommit, Accepts, TypeOK
  <2>2. CASE ~SendCommit(q)
    <3>1. jti' = jti /\ sess' = sess
      BY <1>3, <2>2 DEF RunStep, WorkerStep, WorkerStart, SpawnFail, Spawn, RecordPid,
        RunTimeout, Drain, Finish, WriteError, CaptureSessionId, Verdict, EventRaises,
        DrainAndKill, JsonRaises, SerializationFailure, Crash, CliReadsPrompt, CliExit,
        Collect, row
    <3> QED BY <1>3, <3>1 DEF Accepts
  <2> QED BY <2>1, <2>2
<1>4. ASSUME NEW s \in Sessions, Stop(s) \/ Reap(s), UNCHANGED tok PROVE ~Accepts(r)'
  BY <1>4 DEF Stop, Reap, Accepts
<1>5. CASE Elapse
  BY <1>1, <1>5 DEF Elapse, Tick, Accepts
<1>6. CASE UNCHANGED tokenVars
  BY <1>6 DEF tokenVars, vars, row, Accepts
<1> QED BY <1>2, <1>3, <1>4, <1>5, <1>6 DEF TokenNext

(* _verify_bridge_token: a committed token that is refused stays refused.   *)
THEOREM RefusalIsFinal == TokenSpec => LapseIsFinal
<1> DEFINE Final == \A r \in Runs : phase[r] \notin {"unused", "sending"} /\ ~Accepts(r)
                                      => ~Accepts(r)'
<1>1. TokenInv /\ [TokenNext]_tokenVars => Final
  BY JtiStep
<1> HIDE DEF Final
<1>2. TokenSpec => [][Final]_tokenVars
  BY <1>1, TokenInvariant, PTL DEF TokenSpec
<1> QED BY <1>2 DEF Final, LapseIsFinal
=============================================================================
