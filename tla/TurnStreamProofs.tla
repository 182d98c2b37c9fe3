-------------------------- MODULE TurnStreamProofs --------------------------
(* The chips, the index and the notifications of a turn, for any ids and    *)
(* any number of blocks, calls and events.                                  *)
EXTENDS TurnStream, TLAPS

(* What a client that only listens shows is what is in the record.          *)
Shown == IF wire = None THEN text = 0 /\ calls = <<>> ELSE wire = Snapshot(text, calls)

(* Inside an event the record runs ahead of the wire; what closes the gap   *)
(* is queued, or is due at its end because text was touched.                *)
GapIsQueued ==
  event # "none" /\ ~touched =>
    IF queued = None THEN Shown ELSE queued = Snapshot(text, calls)

(* A worker that has ended is in no event.                                  *)
EndedIsIdle == over # "no" => event = "none"

IInv == TypeOK /\ IndexIsFaithful /\ SentIsSaved /\ GapIsQueued /\ EndedIsIdle

USE StreamAssumption, PayloadAssumption

LEMMA InitIInv == Init => IInv
<1> SUFFICES ASSUME Init PROVE IInv
  OBVIOUS
<1>1. calls \in Seq(Chip) /\ Len(calls) <= MaxCalls
  BY DEF Init
<1>2. /\ toolIdx \in [Keys -> 1..MaxCalls \cup {None}]
      /\ streaming \in BOOLEAN /\ made \in BOOLEAN /\ touched \in BOOLEAN
  BY DEF Init
<1>3. TypeOK
  BY <1>1, <1>2 DEF Init, TypeOK
<1> QED BY <1>3 DEF Init, IInv, IndexIsFaithful, SentIsSaved, GapIsQueued, EndedIsIdle

(***************************************************************************)
(* The handlers                                                            *)
(***************************************************************************)
(* What every handler leaves of the record is a payload.                    *)
LEMMA SnapshotType ==
  ASSUME NEW t \in 0..MaxText, NEW c \in Seq(Chip)
  PROVE  Snapshot(t, c) \in Payload /\ Snapshot(t, c) # None
BY DEF Snapshot, Payload

(* A new chip.                                                              *)
LEMMA FreshType == ASSUME NEW key \in Keys PROVE Fresh(key) \in Chip
BY DEF Fresh, Chip

LEMMA BeginStep ==
  ASSUME IInv, NEW kind \in {"assistant", "user"}, BeginEvent(kind)
  PROVE  IInv'
<1> USE DEF BeginEvent, Waiting, IInv, record
<1>1. TypeOK'
  BY DEF TypeOK
<1>2. IndexIsFaithful'
  BY DEF IndexIsFaithful
<1>3. SentIsSaved' /\ GapIsQueued' /\ EndedIsIdle'
  BY DEF SentIsSaved, GapIsQueued, EndedIsIdle, Shown
<1> QED BY <1>1, <1>2, <1>3

LEMMA TextStep ==
  ASSUME IInv, TextBlock
  PROVE  IInv'
<1> USE DEF TextBlock, IInv
<1>1. TypeOK'
  BY DEF TypeOK
<1>2. IndexIsFaithful'
  BY DEF IndexIsFaithful
<1>3. SentIsSaved' /\ GapIsQueued' /\ EndedIsIdle'
  BY DEF SentIsSaved, GapIsQueued, EndedIsIdle
<1> QED BY <1>1, <1>2, <1>3

(* A call that is new goes to the end, and its key to the index; no chip    *)
(* has that key, for the index would lead to it.                            *)
LEMMA UpsertStep ==
  ASSUME IInv, NEW id \in Ids \cup {None}, UpsertToolCall(id)
  PROVE  IInv'
<1> DEFINE key == IF id = None THEN Len(calls) ELSE id
           at  == toolIdx[key]
           new == IF at = None THEN Append(calls, Fresh(key)) ELSE calls
<1>1. /\ key \in Keys /\ Len(new) <= MaxCalls /\ new \in Seq(Chip)
      /\ calls' = new /\ made' = TRUE /\ queued' = Snapshot(text, new)
      /\ toolIdx' = IF at = None THEN [toolIdx EXCEPT ![key] = Len(new)] ELSE toolIdx
      /\ UNCHANGED <<streaming, row, text, event, touched, wire, terminal, over>>
      /\ event = "assistant"
  <2>1. /\ calls' = new /\ made' = TRUE /\ queued' = Snapshot(text, new)
        /\ toolIdx' = IF at = None THEN [toolIdx EXCEPT ![key] = Len(new)] ELSE toolIdx
        /\ UNCHANGED <<streaming, row, text, event, touched, wire, terminal, over>>
        /\ event = "assistant" /\ Len(new) <= MaxCalls
    BY DEF UpsertToolCall
  <2>2. key \in Keys
    BY DEF IInv, TypeOK, Keys
  <2>3. new \in Seq(Chip)
    BY <2>2, FreshType DEF IInv, TypeOK
  <2> QED BY <2>1, <2>2, <2>3
<1>2. TypeOK'
  <2>1. Len(new) \in 1..MaxCalls \/ at # None
    BY <1>1 DEF IInv, TypeOK
  <2>2. toolIdx' \in [Keys -> 1..MaxCalls \cup {None}]
    BY <1>1, <2>1 DEF IInv, TypeOK
  <2>3. queued' \in Payload
    BY <1>1, SnapshotType DEF IInv, TypeOK
  <2> QED BY <1>1, <2>2, <2>3 DEF IInv, TypeOK
<1>3. IndexIsFaithful'
  <2>1. CASE at # None
    BY <1>1, <2>1 DEF IInv, IndexIsFaithful
  <2>2. CASE at = None
    <3>1. Len(new) = Len(calls) + 1 /\ new[Len(new)].id = key
      BY <2>2, FreshType, <1>1 DEF IInv, TypeOK, Fresh
    <3>2. \A i \in 1..Len(calls) : new[i] = calls[i] /\ calls[i].id \in Keys /\ calls[i].id # key
      <4> SUFFICES ASSUME NEW i \in 1..Len(calls)
                   PROVE  new[i] = calls[i] /\ calls[i].id \in Keys /\ calls[i].id # key
        OBVIOUS
      <4>1. toolIdx[calls[i].id] = i /\ i # None
        BY DEF IInv, TypeOK, IndexIsFaithful
      <4>2. calls[i].id # key
        BY <4>1, <2>2
      <4>3. calls[i] \in Chip /\ new[i] = calls[i]
        BY <2>2 DEF IInv, TypeOK
      <4> QED BY <4>2, <4>3 DEF Chip
    <3>3. toolIdx' = [toolIdx EXCEPT ![key] = Len(calls) + 1]
      BY <1>1, <2>2, <3>1
    <3>4. Len(calls) \in Nat /\ toolIdx \in [Keys -> 1..MaxCalls \cup {None}]
      BY DEF IInv, TypeOK
    <3>5. \A i \in 1..Len(new) : toolIdx'[new[i].id] = i
      <4> SUFFICES ASSUME NEW i \in 1..Len(new) PROVE toolIdx'[new[i].id] = i
        OBVIOUS
      <4>1. CASE i = Len(new)
        BY <4>1, <1>1, <3>1, <3>3, <3>4
      <4>2. CASE i # Len(new)
        <5>1. i \in 1..Len(calls)
          BY <4>2, <3>1, <3>4
        <5> QED BY <5>1, <1>1, <3>2, <3>3, <3>4 DEF IInv, IndexIsFaithful
      <4> QED BY <4>1, <4>2
    <3>6. \A k \in Keys : toolIdx'[k] # None => toolIdx'[k] <= Len(new)
      BY <1>1, <3>1, <3>3, <3>4 DEF IInv, IndexIsFaithful
    <3> QED BY <1>1, <3>5, <3>6 DEF IndexIsFaithful
  <2> QED BY <2>1, <2>2
<1>4. SentIsSaved' /\ GapIsQueued' /\ EndedIsIdle'
  <2>1. queued' # None
    BY <1>1, SnapshotType DEF IInv, TypeOK
  <2> QED BY <1>1, <2>1 DEF IInv, SentIsSaved, GapIsQueued, EndedIsIdle
<1> QED BY <1>2, <1>3, <1>4 DEF IInv

(* The index leads to the chip that gets the result; its id stays.          *)
LEMMA PatchStep ==
  ASSUME IInv, NEW id \in Ids \cup {None}, PatchToolResult(id)
  PROVE  IInv'
<1> DEFINE at == toolIdx[id]
<1>1. /\ id \in Keys /\ at \in 1..Len(calls)
      /\ event = "user" /\ queued' = Snapshot(text, calls')
      /\ UNCHANGED <<streaming, row, made, text, toolIdx, event, touched, wire, terminal, over>>
  BY DEF PatchToolResult, IInv, TypeOK, IndexIsFaithful
<1>2. PICK st \in {"done", "error"} :
        calls' = [calls EXCEPT ![at].status = st, ![at].result = TRUE]
  BY DEF PatchToolResult
<1>3. /\ calls' \in Seq(Chip) /\ Len(calls') = Len(calls)
      /\ \A i \in 1..Len(calls) : calls'[i].id = calls[i].id
  <2> DEFINE chip == [calls[at] EXCEPT !.status = st, !.result = TRUE]
  <2>1. calls' = [calls EXCEPT ![at] = chip]
    BY <1>2
  <2>2. calls[at] \in Chip
    BY <1>1 DEF IInv, TypeOK
  <2>3. chip \in Chip /\ chip.id = calls[at].id
    BY <2>2 DEF Chip
  <2> QED BY <1>1, <2>1, <2>3 DEF IInv, TypeOK
<1>4. TypeOK'
  <2>1. queued' \in Payload
    BY <1>1, <1>3, SnapshotType DEF IInv, TypeOK
  <2> QED BY <1>1, <1>3, <2>1 DEF IInv, TypeOK
<1>5. IndexIsFaithful'
  BY <1>1, <1>3 DEF IInv, IndexIsFaithful
<1>6. SentIsSaved' /\ GapIsQueued' /\ EndedIsIdle'
  <2>1. queued' # None
    BY <1>1, <1>3, SnapshotType DEF IInv, TypeOK
  <2> QED BY <1>1, <2>1 DEF IInv, SentIsSaved, GapIsQueued, EndedIsIdle
<1> QED BY <1>4, <1>5, <1>6 DEF IInv

LEMMA EndStep ==
  ASSUME IInv, EndEvent
  PROVE  IInv'
<1> DEFINE payload == IF touched THEN Snapshot(text, calls) ELSE queued
<1>1. /\ event # "none" /\ event' = "none" /\ wire' = IF payload = None THEN wire ELSE payload
      /\ UNCHANGED <<streaming, row, made, text, calls, toolIdx, touched, queued, terminal, over>>
  BY DEF EndEvent, Sent, record
<1>2. payload \in Payload \cup {None} /\ (touched => payload # None)
  BY SnapshotType DEF IInv, TypeOK
<1>3. TypeOK'
  BY <1>1, <1>2 DEF IInv, TypeOK
<1>4. IndexIsFaithful'
  BY <1>1 DEF IInv, IndexIsFaithful
<1>5. SentIsSaved' /\ GapIsQueued' /\ EndedIsIdle'
  BY <1>1, <1>2 DEF IInv, SentIsSaved, GapIsQueued, EndedIsIdle, Shown
<1> QED BY <1>3, <1>4, <1>5 DEF IInv

(* A record write between events that sends what it wrote, if anything.     *)
LEMMA SettleStep ==
  ASSUME IInv, event = "none", UNCHANGED <<streaming, calls, toolIdx, event, touched, queued>>,
         over = "no", over' \in {"no", "finished"},
         row' \in {"running", "idle", "done", "error"}, terminal' \in {"done", "error", None},
         made' \in BOOLEAN, NEW t \in 0..MaxText, text' = t,
         Sent(IF t = text THEN None ELSE Snapshot(t, calls))
  PROVE  IInv'
<1>1. Snapshot(t, calls) \in Payload /\ Snapshot(t, calls) # None
  BY SnapshotType DEF IInv, TypeOK
<1>2. wire' = IF t = text THEN wire ELSE Snapshot(t, calls)
  BY <1>1 DEF Sent
<1>3. TypeOK'
  BY <1>1, <1>2 DEF IInv, TypeOK
<1>4. IndexIsFaithful'
  BY DEF IInv, IndexIsFaithful
<1>5. SentIsSaved' /\ GapIsQueued' /\ EndedIsIdle'
  BY <1>1, <1>2 DEF IInv, SentIsSaved, GapIsQueued, EndedIsIdle
<1> QED BY <1>3, <1>4, <1>5 DEF IInv

LEMMA ResultStep ==
  ASSUME IInv, NEW hasText \in BOOLEAN, ResultEvent(hasText)
  PROVE  IInv'
<1> DEFINE t == IF hasText /\ text = 0 /\ MaxText > 0 THEN 1 ELSE text
<1>1. t \in 0..MaxText
  BY DEF IInv, TypeOK
<1>2. /\ event = "none" /\ over = "no" /\ text' = t
      /\ row' = "done" /\ terminal' = "done" /\ made' = (made \/ hasText)
      /\ Sent(IF t = text THEN None ELSE Snapshot(t, calls))
      /\ UNCHANGED <<streaming, calls, toolIdx, event, touched, queued, over>>
  BY DEF ResultEvent, Waiting
<1>3. made' \in BOOLEAN
  BY <1>2
<1> QED BY <1>1, <1>2, <1>3, SettleStep

LEMMA FinishStep ==
  ASSUME IInv, NEW rc \in {0, 1}, NEW failed \in BOOLEAN, NEW t \in {text, 1},
         t <= MaxText, Finish(rc, failed, t)
  PROVE  IInv'
<1>1. t \in 0..MaxText
  BY DEF IInv, TypeOK
<1>2. /\ event = "none" /\ over = "no" /\ text' = t /\ over' = "finished"
      /\ made' = (made \/ t # text)
      /\ Sent(IF t = text THEN None ELSE Snapshot(t, calls))
      /\ UNCHANGED <<streaming, calls, toolIdx, event, touched, queued>>
  BY DEF Finish, Waiting
<1>3. row' \in {"running", "idle", "done", "error"} /\ terminal' \in {"done", "error", None}
  BY DEF Finish, IInv, TypeOK
<1>4. made' \in BOOLEAN
  BY <1>2
<1> QED BY <1>1, <1>2, <1>3, <1>4, SettleStep

(* FailEvent and RowTaken write the row and nothing of the message.         *)
LEMMA RowStep ==
  ASSUME IInv, FailEvent \/ RowTaken
  PROVE  IInv'
<1>1. /\ row' \in {"idle", "error"} /\ terminal' \in {terminal, "error"}
      /\ UNCHANGED <<streaming, made, text, calls, toolIdx, event, touched, queued, wire, over>>
  BY DEF FailEvent, RowTaken, record
<1>2. TypeOK'
  BY <1>1 DEF IInv, TypeOK
<1>3. IndexIsFaithful'
  BY <1>1 DEF IInv, IndexIsFaithful
<1>4. SentIsSaved' /\ GapIsQueued' /\ EndedIsIdle'
  BY <1>1 DEF IInv, SentIsSaved, GapIsQueued, EndedIsIdle, Shown
<1> QED BY <1>2, <1>3, <1>4 DEF IInv

LEMMA RaiseStep ==
  ASSUME IInv, Raise
  PROVE  IInv'
<1>1. /\ over' = "raised" /\ row' = "error" /\ terminal' = "error" /\ event' = "none"
      /\ wire' \in {wire, queued}
      /\ UNCHANGED <<streaming, made, text, calls, toolIdx, touched, queued>>
  BY DEF Raise, Sent, record
<1>2. TypeOK'
  BY <1>1 DEF IInv, TypeOK
<1>3. IndexIsFaithful'
  BY <1>1 DEF IInv, IndexIsFaithful
<1>4. SentIsSaved' /\ GapIsQueued' /\ EndedIsIdle'
  BY <1>1 DEF SentIsSaved, GapIsQueued, EndedIsIdle
<1> QED BY <1>2, <1>3, <1>4 DEF IInv

LEMMA StutterStep ==
  ASSUME IInv, UNCHANGED vars
  PROVE  IInv'
BY DEF vars, record, IInv, TypeOK, IndexIsFaithful, SentIsSaved, GapIsQueued, EndedIsIdle, Shown

LEMMA NextStep ==
  ASSUME IInv, [Next]_vars
  PROVE  IInv'
<1>1. ASSUME NEW kind \in {"assistant", "user"}, BeginEvent(kind) PROVE IInv'
  BY <1>1, BeginStep
<1>2. ASSUME NEW id \in Ids \cup {None}, UpsertToolCall(id) \/ PatchToolResult(id) PROVE IInv'
  BY <1>2, UpsertStep, PatchStep
<1>3. ASSUME NEW hasText \in BOOLEAN, ResultEvent(hasText) PROVE IInv'
  BY <1>3, ResultStep
<1>4. ASSUME NEW rc \in {0, 1}, NEW failed \in BOOLEAN, NEW t \in {text, 1},
             t <= MaxText, Finish(rc, failed, t)
      PROVE  IInv'
  BY <1>4, FinishStep
<1>5. CASE TextBlock \/ EndEvent
  BY <1>5, TextStep, EndStep
<1>6. CASE FailEvent \/ RowTaken \/ Raise
  BY <1>6, RowStep, RaiseStep
<1>7. CASE Done \/ UNCHANGED vars
  BY <1>7, StutterStep DEF Done
<1> QED BY <1>1, <1>2, <1>3, <1>4, <1>5, <1>6, <1>7 DEF Next

LEMMA Invariance == Spec => []IInv
BY InitIInv, NextStep, PTL DEF Spec

(***************************************************************************)
(* Theorems                                                                *)
(***************************************************************************)
(* The variables of TurnStream have their types.                           *)
THEOREM TypeCorrect == Spec => []TypeOK
<1>1. IInv => TypeOK
  BY DEF IInv
<1> QED BY <1>1, Invariance, PTL

(* Chips and index agree, whatever ids the CLI chooses, repeats or leaves   *)
(* out, generated names it happens to use itself included.                  *)
THEOREM IndexStaysFaithful == Spec => []IndexIsFaithful
<1>1. IInv => IndexIsFaithful
  BY DEF IInv
<1> QED BY <1>1, Invariance, PTL

(* A client that only listens shows what a reload would.                    *)
THEOREM ListenersAreCurrent == Spec => []SentIsSaved
<1>1. IInv => SentIsSaved
  BY DEF IInv
<1> QED BY <1>1, Invariance, PTL

(* No chip loses its result or its identity.                                *)
THEOREM NoResultIsLost == Spec => ResultsAreKept
<1> DEFINE Kept == \A i \in 1..Len(calls) : calls[i].result =>
                     i <= Len(calls') /\ calls'[i].result /\ calls'[i].id = calls[i].id
<1>1. ASSUME IInv, [Next]_vars PROVE Kept
  <2>1. ASSUME NEW id \in Ids \cup {None}, UpsertToolCall(id) PROVE Kept
    <3>1. \/ calls' = calls
          \/ \E key : calls' = Append(calls, Fresh(key))
      BY <2>1 DEF UpsertToolCall
    <3> QED BY <3>1, <1>1 DEF IInv, TypeOK
  <2>2. ASSUME NEW id \in Ids \cup {None}, PatchToolResult(id) PROVE Kept
    <3>1. PICK st \in {"done", "error"} :
            calls' = [calls EXCEPT ![toolIdx[id]].status = st, ![toolIdx[id]].result = TRUE]
      BY <2>2 DEF PatchToolResult
    <3> QED BY <3>1, <1>1 DEF IInv, TypeOK, Chip
  <2>3. CASE calls' = calls
    BY <2>3, <1>1 DEF IInv, TypeOK
  <2> QED
    BY <1>1, <2>1, <2>2, <2>3 DEF Next, BeginEvent, TextBlock, EndEvent, ResultEvent,
      FailEvent, Raise, RowTaken, Finish, Done, vars, record
<1>2. IInv /\ [Next]_vars => [Kept]_vars
  BY <1>1
<1> QED BY <1>2, Invariance, PTL DEF Spec, ResultsAreKept

(* Every way out of a turn that still owns its row settles the row and says *)
(* so to the client.                                                        *)
THEOREM VerdictsAreAnnounced == Spec => VerdictAnnounced
<1> DEFINE Told == over = "no" /\ over' # "no" /\ row = "running" =>
                     row' \in {"done", "error"} /\ terminal' = row'
<1>1. ASSUME [Next]_vars PROVE Told
  <2>1. ASSUME NEW rc \in {0, 1}, NEW failed \in BOOLEAN, NEW t \in {text, 1},
               Finish(rc, failed, t)
        PROVE  Told
    BY <2>1 DEF Finish
  <2>2. CASE Raise
    BY <2>2 DEF Raise
  <2>3. CASE over' = over
    BY <2>3
  <2> QED
    BY <1>1, <2>1, <2>2, <2>3 DEF Next, BeginEvent, TextBlock, EndEvent, UpsertToolCall,
      PatchToolResult, ResultEvent, FailEvent, RowTaken, Done, vars, record
<1>2. [Next]_vars => [Told]_vars
  BY <1>1
<1> QED BY <1>2, PTL DEF Spec, VerdictAnnounced
=============================================================================
