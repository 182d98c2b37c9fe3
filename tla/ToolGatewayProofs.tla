------------------------- MODULE ToolGatewayProofs -------------------------
(* What ToolGateway promises for any calls, tools, targets, policies and    *)
(* number of attempts.  Writes reach the database at one place, Commit, and *)
(* a call that committed is over; before it commits it was audited, and its *)
(* uncommitted writes date from a closure its snapshot permitted.           *)
EXTENDS ToolGateway, TLAPS

(* The bridge and the request of a call start together.                     *)
IdleCalls == \A c \in Calls : bridge[c] = "idle" => req[c] = "none"

(* A served request is on one of its attempts at an operation; once         *)
(* authenticated it has a snapshot, once executed an outcome.               *)
ServedInOrder ==
  \A c \in Calls :
    /\ req[c] \in Served => try[c] \in Attempts /\ op[c] \in Ops
    /\ req[c] \in {"running", "executed", "audited"} => snap[c] \in Policies
    /\ req[c] \in {"executed", "audited"} => outcome[c] \in Outcomes

(* Nothing of a call is in the database before its request is over.         *)
OpenCallsHaveNoEffects ==
  \A c \in Calls : req[c] # "over" => \A e \in effects : e.call # c

(* Uncommitted writes are those of a permitted write tool.                  *)
DirtyIsPermitted ==
  \A c \in Calls : dirty[c] # "none" =>
    /\ req[c] \in {"executed", "audited"}
    /\ op[c].tool \in WriteTools /\ Permitted(c)
    /\ outcome[c] = "success" <=> dirty[c] = "full"

(* A request that may commit has its audit row.                             *)
AuditedIsLogged ==
  ~LogFails /\ alive =>
    \A c \in Calls : req[c] = "audited" =>
      [call |-> c, try |-> try[c], outcome |-> outcome[c]] \in log

IInv ==
  /\ TypeOK /\ ServedInOrder /\ IdleCalls /\ OpenCallsHaveNoEffects
  /\ DirtyIsPermitted /\ AuditedIsLogged
  /\ AtMostOnce /\ EffectsAreLogged

USE DEF Served

(***************************************************************************)
(* Type correctness                                                        *)
(***************************************************************************)
LEMMA RespondType ==
  ASSUME TypeOK, NEW c \in Calls, NEW r \in {"result", "error"}, Respond(c, r)
  PROVE  /\ policy' \in Policies /\ tokenOk' \in BOOLEAN
         /\ advertised' \in SUBSET AllTools
         /\ op' \in [Calls -> Ops \cup {None}]
         /\ bridge' \in [Calls -> {"idle", "waiting", "result", "error"}]
         /\ req' \in [Calls -> {"none", "over"} \cup Served]
         /\ snap' \in [Calls -> Policies \cup {None}]
         /\ try' \in [Calls -> 0..MaxTries]
         /\ dirty' \in [Calls -> {"none", "partial", "full"}]
         /\ outcome' \in [Calls -> Outcomes \cup {None}]
BY DEF TypeOK, Respond

LEMMA ExecutedType ==
  ASSUME TypeOK, NEW c \in Calls, NEW w \in {"none", "partial", "full"},
         NEW o \in Outcomes, Executed(c, w, o)
  PROVE  TypeOK'
BY DEF TypeOK, Executed, world

LEMMA ServerStepType ==
  ASSUME TypeOK, ServedInOrder, NEW c \in Calls, ServerStep(c)
  PROVE  TypeOK'
<1>1. CASE Authenticate(c)
  BY <1>1 DEF TypeOK, Authenticate, world
<1>2. CASE AuthFails(c)
  BY <1>2, RespondType DEF TypeOK, AuthFails
<1>3. CASE Refuse(c)
  BY <1>3, ExecutedType DEF Refuse, Outcomes
<1>4. CASE Succeed(c)
  BY <1>4, ExecutedType DEF Succeed, Outcomes
<1>5. CASE RaiseMidway(c)
  BY <1>5, ExecutedType DEF RaiseMidway, Outcomes
<1>6. CASE Audit(c)
  <2> DEFINE entry == [call |-> c, try |-> try[c], outcome |-> outcome[c]]
  <2>1. log' \in SUBSET LogRows
    <3>1. CASE log' = log
      BY <3>1 DEF TypeOK
    <3>2. CASE alive /\ log' = log \cup {entry}
      <4>1. outcome[c] \in Outcomes
        BY <1>6 DEF Audit, ServedInOrder
      <4> QED BY <1>6, <3>2, <4>1 DEF TypeOK, LogRows, ServedInOrder, Audit
    <3> QED BY <1>6, <3>1, <3>2 DEF Audit
  <2> QED BY <1>6, <2>1 DEF TypeOK, Audit, world, local
<1>7. CASE Commit(c)
  <2>1. effects' \in SUBSET Effects
    <3>1. CASE dirty[c] = "none"
      BY <1>7, <3>1 DEF TypeOK, Commit
    <3>2. CASE dirty[c] # "none"
      <4>1. [call |-> c, try |-> try[c], kind |-> dirty[c]] \in Effects
        BY <1>7, <3>2 DEF TypeOK, Commit, Effects, ServedInOrder
      <4> QED BY <1>7, <3>2, <4>1 DEF TypeOK, Commit
    <3> QED BY <3>1, <3>2
  <2>2. alive' \in BOOLEAN
    BY <1>7 DEF Commit
  <2> QED BY <1>7, <2>1, <2>2, RespondType DEF TypeOK, Commit
<1>8. CASE FlushFails(c)
  BY <1>8, RespondType DEF TypeOK, FlushFails
<1>9. CASE FlushConflict(c)
  <2>1. try' \in [Calls -> 0..MaxTries]
    BY <1>9, GatewayAssumption DEF TypeOK, FlushConflict
  <2> QED BY <1>9, <2>1 DEF TypeOK, FlushConflict, world
<1> QED
  BY <1>1, <1>2, <1>3, <1>4, <1>5, <1>6, <1>7, <1>8, <1>9 DEF ServerStep

LEMMA InitIInv == ASSUME Init PROVE IInv
<1>1. TypeOK
  <2>1. EffectiveTools(policy) \in SUBSET AllTools
    BY DEF Init, EffectiveTools, AllTools
  <2>2. 0 \in 0..MaxTries
    BY GatewayAssumption
  <2> QED BY <2>1, <2>2 DEF Init, TypeOK
<1>2. ServedInOrder /\ IdleCalls /\ OpenCallsHaveNoEffects /\ DirtyIsPermitted
  BY DEF Init, ServedInOrder, IdleCalls, OpenCallsHaveNoEffects, DirtyIsPermitted
<1>3. AuditedIsLogged /\ AtMostOnce /\ EffectsAreLogged
  BY DEF Init, AuditedIsLogged, AtMostOnce, EffectsAreLogged
<1> QED BY <1>1, <1>2, <1>3 DEF IInv

(***************************************************************************)
(* The inductive step                                                      *)
(***************************************************************************)
(* Steps around the calls touch nothing a call or its request holds; the   *)
(* session record never comes back.                                         *)
LEMMA WorldStep ==
  ASSUME IInv, SetPolicy \/ TokenLapses \/ UserDeletesSession
  PROVE  IInv'
<1>1. UNCHANGED <<op, bridge, req, local, effects, log>> /\ (alive' => alive)
  BY DEF SetPolicy, TokenLapses, UserDeletesSession
<1>2. TypeOK'
  <2>1. CASE SetPolicy
    BY <2>1 DEF IInv, TypeOK, SetPolicy, local
  <2>2. CASE TokenLapses
    BY <2>2 DEF IInv, TypeOK, TokenLapses, local
  <2>3. CASE UserDeletesSession
    BY <2>3 DEF IInv, TypeOK, UserDeletesSession, local
  <2> QED BY <2>1, <2>2, <2>3
<1>3. ServedInOrder' /\ IdleCalls' /\ OpenCallsHaveNoEffects' /\ DirtyIsPermitted'
  BY <1>1 DEF IInv, ServedInOrder, IdleCalls, OpenCallsHaveNoEffects,
              DirtyIsPermitted, Permitted, local
<1>4. AuditedIsLogged' /\ AtMostOnce' /\ EffectsAreLogged'
  BY <1>1 DEF IInv, AuditedIsLogged, AtMostOnce, EffectsAreLogged, local
<1> QED BY <1>2, <1>3, <1>4 DEF IInv

LEMMA BridgeStep ==
  ASSUME IInv, NEW c \in Calls, Issue(c) \/ BridgeTimeout(c)
  PROVE  IInv'
<1>1. CASE Issue(c)
  <2>0. PICK o \in Ops : op' = [op EXCEPT ![c] = o]
    BY <1>1 DEF Issue
  <2>1. 1 \in Attempts /\ 1 \in 0..MaxTries
    BY GatewayAssumption DEF Attempts
  <2>2. req[c] = "none" /\ dirty[c] = "none"
    BY <1>1 DEF IInv, IdleCalls, DirtyIsPermitted, Issue
  <2>3. TypeOK'
    BY <1>1, <2>0, <2>1 DEF IInv, TypeOK, Issue, world
  <2>4. ServedInOrder' /\ IdleCalls'
    BY <1>1, <2>0, <2>1 DEF IInv, TypeOK, ServedInOrder, IdleCalls, Issue
  <2>5. OpenCallsHaveNoEffects'
    BY <1>1, <2>2 DEF IInv, TypeOK, OpenCallsHaveNoEffects, Issue
  <2>6. DirtyIsPermitted'
    BY <1>1, <2>0, <2>2 DEF IInv, TypeOK, DirtyIsPermitted, Permitted, Issue
  <2>7. AuditedIsLogged' /\ AtMostOnce' /\ EffectsAreLogged'
    BY <1>1 DEF IInv, TypeOK, AuditedIsLogged, AtMostOnce, EffectsAreLogged, Issue, world
  <2> QED BY <2>3, <2>4, <2>5, <2>6, <2>7 DEF IInv
<1>2. CASE BridgeTimeout(c)
  <2>1. TypeOK' /\ IdleCalls'
    BY <1>2 DEF IInv, TypeOK, IdleCalls, BridgeTimeout, world, local
  <2>2. ServedInOrder' /\ OpenCallsHaveNoEffects' /\ DirtyIsPermitted'
    BY <1>2 DEF IInv, ServedInOrder, OpenCallsHaveNoEffects, DirtyIsPermitted,
                Permitted, BridgeTimeout, world, local
  <2>3. AuditedIsLogged' /\ AtMostOnce' /\ EffectsAreLogged'
    BY <1>2 DEF IInv, AuditedIsLogged, AtMostOnce, EffectsAreLogged, BridgeTimeout,
                world, local
  <2> QED BY <2>1, <2>2, <2>3 DEF IInv
<1> QED BY <1>1, <1>2

(* The end of a request that commits nothing.                               *)
LEMMA GivenUp ==
  ASSUME IInv, NEW c \in Calls, req[c] \in Served, NEW r \in {"result", "error"},
         Respond(c, r), UNCHANGED <<alive, effects, log>>
  PROVE  IInv'
<1>1. TypeOK'
  BY RespondType DEF IInv, TypeOK
<1>2. ServedInOrder' /\ IdleCalls' /\ OpenCallsHaveNoEffects'
  BY DEF IInv, TypeOK, ServedInOrder, IdleCalls, OpenCallsHaveNoEffects, Respond
<1>3. DirtyIsPermitted'
  BY DEF IInv, TypeOK, DirtyIsPermitted, Permitted, Respond
<1>4. AuditedIsLogged' /\ AtMostOnce' /\ EffectsAreLogged'
  BY DEF IInv, TypeOK, AuditedIsLogged, AtMostOnce, EffectsAreLogged, Respond
<1> QED BY <1>1, <1>2, <1>3, <1>4 DEF IInv

(* The end of a closure; w and o agree, and w is empty if not permitted.    *)
LEMMA ClosureEnds ==
  ASSUME IInv, NEW c \in Calls, NEW w \in {"none", "partial", "full"},
         NEW o \in Outcomes, Executed(c, w, o),
         w # "none" => /\ Permitted(c) /\ op[c].tool \in WriteTools
                       /\ o = "success" <=> w = "full"
  PROVE  IInv'
<1>1. TypeOK'
  BY ExecutedType DEF IInv
<1>2. ServedInOrder' /\ IdleCalls' /\ OpenCallsHaveNoEffects'
  BY DEF IInv, TypeOK, ServedInOrder, IdleCalls, OpenCallsHaveNoEffects, Executed
<1>3. DirtyIsPermitted'
  BY DEF IInv, TypeOK, DirtyIsPermitted, Permitted, Executed
<1>4. AuditedIsLogged' /\ AtMostOnce' /\ EffectsAreLogged'
  BY DEF IInv, TypeOK, AuditedIsLogged, AtMostOnce, EffectsAreLogged, Executed, world
<1> QED BY <1>1, <1>2, <1>3, <1>4 DEF IInv

(* The row is committed before the request may commit: AuditedIsLogged.     *)
LEMMA AuditStep ==
  ASSUME IInv, NEW c \in Calls, Audit(c)
  PROVE  IInv'
<1> DEFINE entry == [call |-> c, try |-> try[c], outcome |-> outcome[c]]
<1>1. log \subseteq log' /\ (~LogFails /\ alive' => entry \in log')
  BY DEF Audit, world
<1>2. TypeOK'
  BY ServerStepType DEF IInv, ServerStep
<1>3. ServedInOrder' /\ IdleCalls' /\ OpenCallsHaveNoEffects'
  BY DEF IInv, TypeOK, ServedInOrder, IdleCalls, OpenCallsHaveNoEffects, Audit, local
<1>4. DirtyIsPermitted'
  BY DEF IInv, TypeOK, DirtyIsPermitted, Permitted, Audit, local
<1>5. AuditedIsLogged'
  BY <1>1 DEF IInv, TypeOK, AuditedIsLogged, Audit, world, local
<1>6. AtMostOnce' /\ EffectsAreLogged'
  BY <1>1 DEF IInv, AtMostOnce, EffectsAreLogged, Audit, world
<1> QED BY <1>2, <1>3, <1>4, <1>5, <1>6 DEF IInv

(* The one step that adds to the database: the call had no effect before,   *)
(* and the row of this attempt is there.                                    *)
LEMMA CommitStep ==
  ASSUME IInv, NEW c \in Calls, Commit(c)
  PROVE  IInv'
<1> DEFINE new == [call |-> c, try |-> try[c], kind |-> dirty[c]]
           entry == [call |-> c, try |-> try[c], outcome |-> outcome[c]]
<1>1. TypeOK'
  BY ServerStepType DEF IInv, ServerStep
<1>2. PICK r \in {"result", "error"} : Respond(c, r)
  BY DEF Commit
<1>3. effects' = effects \/ (effects' = effects \cup {new} /\ dirty[c] # "none")
  BY DEF Commit
<1>4. (alive' => alive) /\ log' = log /\ req[c] = "audited"
  BY DEF Commit
<1>5. ServedInOrder' /\ IdleCalls' /\ OpenCallsHaveNoEffects'
  <2>1. ServedInOrder' /\ IdleCalls'
    BY <1>2, <1>4 DEF IInv, TypeOK, ServedInOrder, IdleCalls, Respond
  <2>2. OpenCallsHaveNoEffects'
    BY <1>2, <1>3 DEF IInv, TypeOK, OpenCallsHaveNoEffects, Respond
  <2> QED BY <2>1, <2>2
<1>6. DirtyIsPermitted'
  BY <1>2 DEF IInv, TypeOK, DirtyIsPermitted, Permitted, Respond
<1>7. AuditedIsLogged'
  BY <1>2, <1>4 DEF IInv, TypeOK, AuditedIsLogged, Respond
<1>8. AtMostOnce'
  <2>1. \A e \in effects : e.call # c
    BY <1>4 DEF IInv, OpenCallsHaveNoEffects
  <2> QED BY <1>3, <2>1 DEF IInv, AtMostOnce
<1>9. EffectsAreLogged'
  <2>1. CASE LogFails \/ ~alive'
    BY <2>1 DEF EffectsAreLogged
  <2>2. CASE ~LogFails /\ alive'
    <3>1. entry \in log
      BY <1>4, <2>2 DEF IInv, AuditedIsLogged
    <3>2. dirty[c] # "none" => (entry.outcome = "success" <=> new.kind = "full")
      BY DEF IInv, DirtyIsPermitted
    <3>3. \A e \in effects : \E l \in log :
            l.call = e.call /\ l.try = e.try /\ (l.outcome = "success" <=> e.kind = "full")
      BY <1>4, <2>2 DEF IInv, EffectsAreLogged
    <3> QED BY <1>3, <1>4, <3>1, <3>2, <3>3 DEF EffectsAreLogged
  <2> QED BY <2>1, <2>2
<1> QED BY <1>1, <1>5, <1>6, <1>7, <1>8, <1>9 DEF IInv

(* A retry takes nothing over from the attempt before.                      *)
LEMMA FlushConflictStep ==
  ASSUME IInv, NEW c \in Calls, FlushConflict(c)
  PROVE  IInv'
<1>1. TypeOK'
  BY ServerStepType DEF IInv, ServerStep
<1>2. try[c] + 1 \in Attempts
  BY GatewayAssumption DEF IInv, TypeOK, FlushConflict, Attempts
<1>3. ServedInOrder'
  BY <1>2 DEF IInv, TypeOK, ServedInOrder, FlushConflict
<1>4. IdleCalls' /\ OpenCallsHaveNoEffects'
  BY DEF IInv, TypeOK, IdleCalls, OpenCallsHaveNoEffects, FlushConflict
<1>5. DirtyIsPermitted'
  BY DEF IInv, TypeOK, DirtyIsPermitted, Permitted, FlushConflict
<1>6. AuditedIsLogged' /\ AtMostOnce' /\ EffectsAreLogged'
  BY DEF IInv, TypeOK, AuditedIsLogged, AtMostOnce, EffectsAreLogged, FlushConflict, world
<1> QED BY <1>1, <1>3, <1>4, <1>5, <1>6 DEF IInv

LEMMA AuthenticateStep ==
  ASSUME IInv, NEW c \in Calls, Authenticate(c)
  PROVE  IInv'
<1>1. TypeOK'
  BY ServerStepType DEF IInv, ServerStep
<1>2. ServedInOrder' /\ IdleCalls' /\ OpenCallsHaveNoEffects'
  BY DEF IInv, TypeOK, ServedInOrder, IdleCalls, OpenCallsHaveNoEffects, Authenticate
<1>3. DirtyIsPermitted'
  BY DEF IInv, TypeOK, DirtyIsPermitted, Permitted, Authenticate
<1>4. AuditedIsLogged' /\ AtMostOnce' /\ EffectsAreLogged'
  BY DEF IInv, TypeOK, AuditedIsLogged, AtMostOnce, EffectsAreLogged, Authenticate, world
<1> QED BY <1>1, <1>2, <1>3, <1>4 DEF IInv

LEMMA ServerStepIInv ==
  ASSUME IInv, NEW c \in Calls, ServerStep(c)
  PROVE  IInv'
<1>1. CASE Authenticate(c)
  BY <1>1, AuthenticateStep
<1>2. CASE AuthFails(c)
  BY <1>2, GivenUp DEF AuthFails
<1>3. CASE Refuse(c)
  BY <1>3, ClosureEnds DEF Refuse, Outcomes
<1>4. CASE Succeed(c)
  BY <1>4, ClosureEnds DEF Succeed, Outcomes
<1>5. CASE RaiseMidway(c)
  BY <1>5, ClosureEnds DEF RaiseMidway, Outcomes
<1>6. CASE Audit(c)
  BY <1>6, AuditStep
<1>7. CASE Commit(c)
  BY <1>7, CommitStep
<1>8. CASE FlushFails(c)
  BY <1>8, GivenUp DEF FlushFails
<1>9. CASE FlushConflict(c)
  BY <1>9, FlushConflictStep
<1> QED
  BY <1>1, <1>2, <1>3, <1>4, <1>5, <1>6, <1>7, <1>8, <1>9 DEF ServerStep

LEMMA StutterIInv == ASSUME IInv, UNCHANGED vars PROVE IInv'
BY DEF IInv, TypeOK, ServedInOrder, IdleCalls, OpenCallsHaveNoEffects,
       DirtyIsPermitted, Permitted, AuditedIsLogged, AtMostOnce, EffectsAreLogged,
       vars, world, local

LEMMA NextIInv == ASSUME IInv, [Next]_vars PROVE IInv'
<1>1. CASE SetPolicy \/ TokenLapses \/ UserDeletesSession
  BY <1>1, WorldStep
<1>2. ASSUME NEW c \in Calls, Issue(c) \/ BridgeTimeout(c) PROVE IInv'
  BY <1>2, BridgeStep
<1>3. ASSUME NEW c \in Calls, ServerStep(c) PROVE IInv'
  BY <1>3, ServerStepIInv
<1>4. ASSUME NEW c \in Calls, Crash(c) PROVE IInv'
  BY <1>4, GivenUp DEF Crash
<1>5. CASE UNCHANGED vars
  BY <1>5, StutterIInv
<1> QED BY <1>1, <1>2, <1>3, <1>4, <1>5 DEF Next

LEMMA Invariance == Spec => []IInv
<1>1. Init => IInv
  BY InitIInv
<1>2. IInv /\ [Next]_vars => IInv'
  BY NextIInv
<1> QED BY <1>1, <1>2, PTL DEF Spec

(***************************************************************************)
(* Results                                                                 *)
(***************************************************************************)
(* A result has come from a request that is over.                           *)
ResultsAreFinal == \A c \in Calls : bridge[c] = "result" => req[c] = "over"

(* What is about to be reported as success is complete, if not committed.   *)
SuccessIsWhole ==
  \A c \in Calls :
    req[c] \in {"executed", "audited"} /\ outcome[c] = "success" /\ op[c].tool \in WriteTools
      => dirty[c] = "full"

ResultInv == ResultsAreFinal /\ SuccessIsWhole /\ ResultMeansDone

(* A step of one request, or of the bridge for it, leaves the others alone. *)
Others(c) ==
  \A d \in Calls \ {c} :
    /\ req'[d] = req[d] /\ bridge'[d] = bridge[d] /\ op'[d] = op[d]
    /\ try'[d] = try[d] /\ dirty'[d] = dirty[d] /\ outcome'[d] = outcome[d]

(* So the invariant has to be shown for the one call only.                  *)
LEMMA OneCall ==
  ASSUME ResultInv, NEW c \in Calls, Others(c), effects \subseteq effects',
         bridge'[c] = "result" => req'[c] = "over",
         req'[c] \in {"executed", "audited"} /\ outcome'[c] = "success"
           /\ op'[c].tool \in WriteTools => dirty'[c] = "full",
         bridge'[c] = "result" /\ op'[c].tool \in WriteTools
           => [call |-> c, try |-> try'[c], kind |-> "full"] \in effects'
  PROVE  ResultInv'
<1>1. ResultsAreFinal'
  BY DEF ResultInv, ResultsAreFinal, Others
<1>2. SuccessIsWhole'
  BY DEF ResultInv, SuccessIsWhole, Others
<1>3. ResultMeansDone'
  BY DEF ResultInv, ResultMeansDone, Others
<1> QED BY <1>1, <1>2, <1>3 DEF ResultInv

(* A request that ends without its commit has no result to report.          *)
LEMMA GivenUpResult ==
  ASSUME TypeOK, ResultInv, NEW c \in Calls, req[c] \in Served, Respond(c, "error"),
         effects' = effects
  PROVE  ResultInv'
<1>1. bridge[c] # "result"
  BY DEF ResultInv, ResultsAreFinal
<1>2. Others(c) /\ bridge'[c] # "result" /\ req'[c] = "over"
  BY <1>1 DEF Respond, Others, TypeOK
<1> QED BY <1>2, OneCall

(* The closure's end.                                                       *)
LEMMA ExecutedResult ==
  ASSUME TypeOK, ResultInv, NEW c \in Calls, NEW w \in {"none", "partial", "full"},
         NEW o \in Outcomes, Executed(c, w, o),
         o = "success" /\ op[c].tool \in WriteTools => w = "full"
  PROVE  ResultInv'
<1>1. bridge[c] # "result"
  BY DEF ResultInv, ResultsAreFinal, Executed
<1>2. Others(c) /\ bridge'[c] # "result" /\ op' = op /\ outcome'[c] = o /\ dirty'[c] = w
  BY <1>1 DEF Executed, Others, TypeOK
<1>3. effects' = effects
  BY DEF Executed
<1> QED BY <1>2, <1>3, OneCall

(* The one step that sends a result: with the write it reports.             *)
LEMMA CommitResult ==
  ASSUME IInv, ResultInv, NEW c \in Calls, Commit(c)
  PROVE  ResultInv'
<1> DEFINE done == [call |-> c, try |-> try[c], kind |-> dirty[c]]
<1>1. /\ req[c] = "audited" /\ bridge[c] # "result"
      /\ Respond(c, IF outcome[c] = "success" THEN "result" ELSE "error")
      /\ effects' = IF dirty[c] = "none" THEN effects ELSE effects \cup {done}
  BY DEF Commit, ResultInv, ResultsAreFinal
<1>2. /\ Others(c) /\ req'[c] = "over" /\ op' = op /\ try' = try
      /\ bridge'[c] = "result" => outcome[c] = "success"
  BY <1>1 DEF Respond, Others, IInv, TypeOK
<1>3. ASSUME bridge'[c] = "result", op[c].tool \in WriteTools
      PROVE  [call |-> c, try |-> try[c], kind |-> "full"] \in effects'
  <2>1. dirty[c] = "full"
    BY <1>1, <1>2, <1>3 DEF ResultInv, SuccessIsWhole
  <2> QED BY <1>1, <2>1
<1> QED BY <1>1, <1>2, <1>3, OneCall

LEMMA ServerStepResult ==
  ASSUME IInv, ResultInv, NEW c \in Calls, ServerStep(c)
  PROVE  ResultInv'
<1>0. bridge[c] # "result"
  BY DEF ServerStep, ResultInv, ResultsAreFinal, Authenticate, AuthFails, Refuse, Succeed,
         RaiseMidway, Executed, Audit, Commit, FlushFails, FlushConflict
<1>1. CASE Authenticate(c)
  <2>1. Others(c) /\ bridge' = bridge /\ req'[c] = "running" /\ effects' = effects
    BY <1>1 DEF Authenticate, Others, IInv, TypeOK
  <2> QED BY <1>0, <2>1, OneCall
<1>2. CASE AuthFails(c) \/ FlushFails(c)
  BY <1>2, GivenUpResult DEF AuthFails, FlushFails, IInv
<1>3. CASE Refuse(c)
  BY <1>3, ExecutedResult DEF Refuse, Outcomes, IInv
<1>4. CASE Succeed(c)
  BY <1>4, ExecutedResult DEF Succeed, Outcomes, IInv
<1>5. CASE RaiseMidway(c)
  BY <1>5, ExecutedResult DEF RaiseMidway, Outcomes, IInv
<1>6. CASE Audit(c)
  <2>1. Others(c) /\ UNCHANGED <<bridge, op, outcome, dirty, effects>> /\ req[c] = "executed"
    BY <1>6 DEF Audit, Others, local, IInv, TypeOK
  <2> QED BY <1>0, <2>1, OneCall DEF ResultInv, SuccessIsWhole
<1>7. CASE Commit(c)
  BY <1>7, CommitResult
<1>8. CASE FlushConflict(c)
  <2>1. Others(c) /\ bridge' = bridge /\ req'[c] = "received" /\ effects' = effects
    BY <1>8 DEF FlushConflict, Others, IInv, TypeOK
  <2> QED BY <1>0, <2>1, OneCall
<1> QED BY <1>1, <1>2, <1>3, <1>4, <1>5, <1>6, <1>7, <1>8 DEF ServerStep

LEMMA ResultStep == ASSUME IInv, ResultInv, [Next]_vars PROVE ResultInv'
<1>1. CASE SetPolicy \/ TokenLapses \/ UserDeletesSession \/ UNCHANGED vars
  BY <1>1 DEF SetPolicy, TokenLapses, UserDeletesSession, vars, local, ResultInv,
    ResultsAreFinal, SuccessIsWhole, ResultMeansDone
<1>2. ASSUME NEW c \in Calls, Issue(c) PROVE ResultInv'
  <2>1. /\ Others(c) /\ bridge'[c] = "waiting" /\ req'[c] = "received"
        /\ effects' = effects
    BY <1>2 DEF Issue, Others, IInv, TypeOK
  <2> QED BY <2>1, OneCall
<1>3. ASSUME NEW c \in Calls, BridgeTimeout(c) PROVE ResultInv'
  <2>1. /\ Others(c) /\ bridge'[c] = "error" /\ UNCHANGED <<op, req, outcome, dirty, effects>>
    BY <1>3 DEF BridgeTimeout, Others, local, IInv, TypeOK
  <2> QED BY <2>1, OneCall DEF ResultInv, SuccessIsWhole
<1>4. ASSUME NEW c \in Calls, ServerStep(c) PROVE ResultInv'
  BY <1>4, ServerStepResult
<1>5. ASSUME NEW c \in Calls, Crash(c) PROVE ResultInv'
  BY <1>5, GivenUpResult DEF Crash, IInv
<1> QED BY <1>1, <1>2, <1>3, <1>4, <1>5 DEF Next

(***************************************************************************)
(* Theorems                                                                *)
(***************************************************************************)
(* The variables of ToolGateway have their types.                          *)
THEOREM TypeCorrect == Spec => []TypeOK
<1>1. IInv => TypeOK
  BY DEF IInv
<1> QED BY <1>1, Invariance, PTL

(* However often a request is retried and wherever it dies, a tools/call   *)
(* changes the database at most once.                                      *)
THEOREM CallsTakeEffectOnce == Spec => []AtMostOnce
<1>1. IInv => AtMostOnce
  BY DEF IInv
<1> QED BY <1>1, Invariance, PTL

(* The audit log is ahead of the data at every instant.                    *)
THEOREM LogIsAheadOfData == Spec => []EffectsAreLogged
<1>1. IInv => EffectsAreLogged
  BY DEF IInv
<1> QED BY <1>1, Invariance, PTL

(* A success the model is told of is in the database, whole and by the last *)
(* attempt, whatever was retried or given up before.                        *)
THEOREM ResultsAreDone == Spec => []ResultMeansDone
<1>1. Init => ResultInv
  BY DEF Init, ResultInv, ResultsAreFinal, SuccessIsWhole, ResultMeansDone
<1>2. IInv /\ ResultInv /\ [Next]_vars => ResultInv'
  BY ResultStep
<1>3. ResultInv => ResultMeansDone
  BY DEF ResultInv
<1> QED BY <1>1, <1>2, <1>3, Invariance, PTL DEF Spec

(* What a request commits was granted explicitly, without zero trust: the  *)
(* fallback of an empty selection and stale advertised tools grant no      *)
(* write.                                                                  *)
THEOREM CommittedWritesWereGranted == Spec => WritesWereGranted
<1>1. ASSUME IInv, NEW c \in Calls, Commit(c), effects' # effects
      PROVE  /\ op[c].tool \in snap[c].granted /\ ~snap[c].zeroTrust
             /\ op[c].target \notin Excluded
  <2>1. dirty[c] # "none"
    BY <1>1 DEF Commit
  <2>2. op[c].tool \in WriteTools /\ Permitted(c) /\ snap[c] \in Policies
    BY <1>1, <2>1 DEF IInv, DirtyIsPermitted, ServedInOrder
  <2>3. op[c].tool \notin ReadTools
    BY <2>2, ToolAssumption
  <2> QED BY <2>2, <2>3 DEF Permitted, EffectiveTools
<1>2. IInv /\ [Next]_vars =>
        [\A c \in Calls : Commit(c) /\ effects' # effects =>
           /\ op[c].tool \in snap[c].granted /\ ~snap[c].zeroTrust
           /\ op[c].target \notin Excluded]_vars
  BY <1>1
<1> QED BY <1>2, Invariance, PTL DEF Spec, WritesWereGranted
=============================================================================
