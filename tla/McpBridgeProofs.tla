-------------------------- MODULE McpBridgeProofs --------------------------
(* What the bridge promises for any tools, allow-list and number of lines,  *)
(* whatever the CLI writes and whenever it goes away.                       *)
EXTENDS McpBridge, TLAPS

(* The line being handled has been read and is not answered yet.           *)
CallIsOpen ==
  pc = "calling" =>
    Len(answers) < pos /\ \A i \in DOMAIN answers : answers[i].line < pos

(* Answers are to lines that were read, in their order.                    *)
InOrder ==
  /\ \A i \in DOMAIN answers : answers[i].line \in 1..pos
  /\ \A i, j \in DOMAIN answers : i < j => answers[i].line < answers[j].line

(* AnswersMatch follows from these two parts of it and the order above.    *)
NoneOverlooked ==
  ~gone /\ pc # "over" => \A n \in 1..pos :
    lines[n].id => Answered(n) \/ (n = pos /\ pc = "calling")

(* After a late call the bridge waits for the answer to that call, which   *)
(* it will not get rid of, or is over.                                     *)
LateCallIsLast ==
  /\ late <= 1
  /\ late = 1 => gone /\ (pc = "over" \/ (pc = "calling" /\ lines[pos].id))

IInv == TypeOK /\ CallIsOpen /\ InOrder /\ NoneOverlooked /\ LateCallIsLast

(***************************************************************************)
(* Answers                                                                 *)
(***************************************************************************)
(* Appending an answer to the line last read keeps the order and the lines *)
(* answered before.                                                        *)
LEMMA AnswerAppended ==
  ASSUME TypeOK, NEW n \in 1..MaxLines, NEW a \in {"result", "toolError", "error"},
         InOrder, \A i \in DOMAIN answers : answers[i].line < n,
         answers' = Append(answers, [line |-> n, as |-> a]), pos' = n, n > 0
  PROVE  /\ InOrder' /\ Answered(n)'
         /\ \A m : Answered(m) => Answered(m)'
         /\ answers' \in Seq(Answers) /\ Len(answers') = Len(answers) + 1
<1> DEFINE rec == [line |-> n, as |-> a]
<1>1. rec \in Answers /\ answers \in Seq(Answers)
  BY DEF TypeOK, Answers
<1>2. /\ answers' \in Seq(Answers) /\ Len(answers') = Len(answers) + 1
      /\ DOMAIN answers' = 1..Len(answers) + 1 /\ DOMAIN answers = 1..Len(answers)
      /\ \A i \in 1..Len(answers) : answers'[i] = answers[i]
      /\ answers'[Len(answers) + 1] = rec
      /\ Len(answers) \in Nat
  BY <1>1
<1>3. pos \in Nat
  BY <1>2 DEF TypeOK
<1>4. rec.line = n
  OBVIOUS
<1> HIDE DEF rec
<1>5. \A i \in DOMAIN answers' :
        \/ i \in DOMAIN answers /\ answers'[i] = answers[i]
        \/ i = Len(answers) + 1 /\ answers'[i] = rec
  BY <1>2
<1>6. \A i \in DOMAIN answers' : answers'[i].line \in 1..n
  BY <1>2, <1>3, <1>4, <1>5 DEF InOrder
<1>7. \A i, j \in DOMAIN answers' : i < j => answers'[i].line < answers'[j].line
  BY <1>2, <1>4, <1>5 DEF InOrder
<1>8. Answered(n)'
  BY <1>2, <1>4 DEF Answered
<1>9. ASSUME NEW m, Answered(m) PROVE Answered(m)'
  BY <1>2, <1>9 DEF Answered
<1> QED BY <1>2, <1>6, <1>7, <1>8, <1>9 DEF InOrder

(* Line n, which the bridge is at, is answered, passed over, or the last.   *)
Settles(n) ==
  /\ pc' \in {"reading", "over"}
  /\ \/ UNCHANGED answers
     \/ \E a \in {"result", "toolError", "error"} :
          answers' = Append(answers, [line |-> n, as |-> a])
  /\ lines[n].id /\ ~gone /\ pc' # "over" =>
       \E a \in {"result", "toolError", "error"} :
         answers' = Append(answers, [line |-> n, as |-> a])
  /\ lines[n].id /\ gone => pc' = "over"

LEMMA AnswerSettles ==
  ASSUME NEW n, NEW a \in {"result", "toolError", "error"}, Answer(n, a)
  PROVE  Settles(n)
BY DEF Answer, Settles

LEMMA RaiseSettles ==
  ASSUME NEW n, Raise(n)
  PROVE  Settles(n)
BY AnswerSettles DEF Raise, Settles

(* A handler settles its line, unless it has called Odoo.                  *)
LEMMA HandleSettles ==
  ASSUME NEW n, lines[n] \in Line, Handle(n)
  PROVE  (Settles(n) /\ late' = late) \/ Forward(n)
<1>1. lines[n].kind \in {"notice", "noise", "scalar"} => ~lines[n].id
  BY DEF Line
<1>2. CASE lines[n].kind \in {"request", "call"} /\ ~Forward(n)
  BY <1>2, AnswerSettles DEF Handle
<1>3. CASE lines[n].kind \in {"bad", "unknown"}
  BY <1>3, RaiseSettles DEF Handle
<1>4. CASE lines[n].kind \in {"notice", "noise", "scalar"}
  BY <1>1, <1>4 DEF Handle, Settles
<1>5. CASE Forward(n)
  BY <1>5
<1> QED BY <1>2, <1>3, <1>4, <1>5 DEF Handle

(***************************************************************************)
(* The invariant                                                           *)
(***************************************************************************)
(* The bridge is at line n: it has just read it, or got Odoo's answer.     *)
At(n) ==
  \/ pc = "reading" /\ pos < Len(lines) /\ n = pos + 1
  \/ pc = "calling" /\ n = pos

(* Before line n is settled, everything before it is.                      *)
LEMMA BeforeLine ==
  ASSUME IInv, NEW n, At(n)
  PROVE  /\ n \in 1..MaxLines /\ n <= Len(lines) /\ lines[n] \in Line
         /\ Len(answers) \in Nat /\ Len(answers) < n
         /\ \A i \in DOMAIN answers : answers[i].line < n
         /\ ~gone => \A m \in 1..n : m # n /\ lines[m].id => Answered(m)
<1>1. /\ pos \in Nat /\ pos <= Len(lines) /\ Len(lines) \in Nat /\ Len(lines) <= MaxLines
      /\ Len(answers) \in Nat /\ Len(answers) <= pos /\ MaxLines \in Nat
  BY BridgeAssumption DEF IInv, TypeOK
<1>2. n \in 1..MaxLines /\ n <= Len(lines) /\ Len(answers) < n /\ n \in {pos, pos + 1}
  BY <1>1 DEF At, IInv, CallIsOpen
<1>3. lines[n] \in Line
  BY <1>1, <1>2 DEF IInv, TypeOK
<1>4. \A i \in DOMAIN answers : answers[i].line < n
  BY <1>1 DEF At, IInv, CallIsOpen, InOrder
<1>5. ASSUME ~gone, NEW m \in 1..n, m # n, lines[m].id PROVE Answered(m)
  <2>1. m \in 1..pos /\ (pc = "calling" => m # pos) /\ pc # "over"
    BY <1>1, <1>2, <1>5 DEF At
  <2> QED BY <1>5, <2>1 DEF IInv, NoneOverlooked
<1> QED BY <1>1, <1>2, <1>3, <1>4, <1>5

LEMMA SettleStep ==
  ASSUME IInv, NEW n, At(n), Settles(n), pos' = n, UNCHANGED <<lines, gone, late>>
  PROVE  IInv'
<1>1. /\ n \in 1..MaxLines /\ n <= Len(lines) /\ lines[n] \in Line
      /\ Len(answers) \in Nat /\ Len(answers) < n
      /\ \A i \in DOMAIN answers : answers[i].line < n
      /\ ~gone => \A m \in 1..n : m # n /\ lines[m].id => Answered(m)
  BY BeforeLine
<1>2. CASE \E a \in {"result", "toolError", "error"} :
             answers' = Append(answers, [line |-> n, as |-> a])
  <2>1. /\ InOrder' /\ Answered(n)' /\ \A m : Answered(m) => Answered(m)'
        /\ answers' \in Seq(Answers) /\ Len(answers') = Len(answers) + 1
    <3>1. PICK a \in {"result", "toolError", "error"} :
            answers' = Append(answers, [line |-> n, as |-> a])
      BY <1>2
    <3>2. TypeOK /\ InOrder /\ n > 0
      BY <1>1 DEF IInv
    <3> QED BY <1>1, <3>1, <3>2, AnswerAppended
  <2>2. NoneOverlooked'
    BY <1>1, <2>1 DEF NoneOverlooked
  <2>3. TypeOK'
    BY <1>1, <2>1 DEF IInv, TypeOK, Settles
  <2>4. CallIsOpen' /\ LateCallIsLast'
    BY DEF IInv, CallIsOpen, LateCallIsLast, At, Settles
  <2> QED BY <2>1, <2>2, <2>3, <2>4 DEF IInv
<1>3. CASE UNCHANGED answers
  <2>1. InOrder'
    BY <1>1, <1>3 DEF IInv, InOrder
  <2>2. NoneOverlooked'
    <3>1. lines[n].id /\ ~gone /\ pc' # "over" =>
            \E a \in {"result", "toolError", "error"} :
              answers' = Append(answers, [line |-> n, as |-> a])
      BY DEF Settles
    <3>2. CASE lines[n].id /\ ~gone /\ pc' # "over"
      <4>1. \A m : Answered(m)' <=> Answered(m)
        BY <1>3 DEF Answered
      <4>2. Answered(n)'
        BY <1>1, <3>1, <3>2, AnswerAppended DEF IInv
      <4> QED BY <1>1, <4>1, <4>2 DEF NoneOverlooked
    <3>3. CASE ~(lines[n].id /\ ~gone /\ pc' # "over")
      BY <1>1, <1>3, <3>3 DEF NoneOverlooked, Answered
    <3> QED BY <3>2, <3>3
  <2>3. TypeOK'
    BY <1>1, <1>3 DEF IInv, TypeOK, Settles
  <2>4. CallIsOpen' /\ LateCallIsLast'
    BY DEF IInv, CallIsOpen, LateCallIsLast, At, Settles
  <2> QED BY <2>1, <2>2, <2>3, <2>4 DEF IInv
<1> QED BY <1>2, <1>3 DEF Settles

(* A call goes out: nothing is answered, and the bridge waits.              *)
LEMMA ForwardStep ==
  ASSUME IInv, pc = "reading", pos < Len(lines), pos' = pos + 1, Forward(pos'),
         UNCHANGED <<lines, gone>>
  PROVE  IInv'
<1> DEFINE n == pos + 1
<1>1. /\ n \in 1..MaxLines /\ n <= Len(lines) /\ lines[n] \in Line
      /\ Len(answers) \in Nat /\ Len(answers) < n
      /\ \A i \in DOMAIN answers : answers[i].line < n
      /\ ~gone => \A m \in 1..n : m # n /\ lines[m].id => Answered(m)
  BY BeforeLine DEF At
<1>2. /\ answers' = answers /\ pc' = "calling" /\ pos' = n /\ lines' = lines
      /\ gone' = gone /\ late' = IF gone /\ lines[n].id THEN late + 1 ELSE late
  BY DEF Forward
<1>3. late = 0
  BY DEF IInv, LateCallIsLast, TypeOK
<1>4. InOrder'
  BY <1>1, <1>2 DEF IInv, InOrder
<1>5. NoneOverlooked'
  BY <1>1, <1>2 DEF NoneOverlooked, Answered
<1>6. TypeOK'
  BY <1>1, <1>2, <1>3, BridgeAssumption DEF IInv, TypeOK
<1>7. CallIsOpen'
  BY <1>1, <1>2 DEF CallIsOpen
<1>8. LateCallIsLast'
  BY <1>2, <1>3 DEF LateCallIsLast
<1> QED BY <1>4, <1>5, <1>6, <1>7, <1>8 DEF IInv

LEMMA Invariant == Spec => []IInv
<1>1. Init => IInv
  <2> SUFFICES ASSUME Init PROVE IInv
    OBVIOUS
  <2>1. lines \in Seq(Line) /\ answers \in Seq(Answers) /\ Len(lines) = 0 /\ Len(answers) = 0
    BY DEF Init
  <2>2. DOMAIN answers = {} /\ 1..pos = {}
    BY DEF Init
  <2>3. pos = 0 /\ pc = "reading" /\ gone = FALSE /\ late = 0 /\ 0 \in 0..MaxLines
    BY BridgeAssumption DEF Init
  <2>4. TypeOK
    <3>1. pos \in 0..Len(lines) /\ Len(answers) <= pos /\ Len(lines) <= MaxLines
      BY <2>1, <2>3, BridgeAssumption
    <3>2. gone \in BOOLEAN
      BY <2>3
    <3> QED BY <2>1, <2>3, <3>1, <3>2 DEF TypeOK
  <2>5. CallIsOpen /\ LateCallIsLast
    BY <2>3 DEF CallIsOpen, LateCallIsLast
  <2>6. InOrder
    BY <2>2 DEF InOrder
  <2>7. NoneOverlooked
    BY <2>2 DEF NoneOverlooked
  <2> QED BY <2>4, <2>5, <2>6, <2>7 DEF IInv
<1>2. ASSUME IInv, [Next]_vars PROVE IInv'
  <2>1. CASE Write
    <3>1. PICK l \in Line : lines' = Append(lines, l)
      BY <2>1 DEF Write
    <3>2. /\ lines \in Seq(Line) /\ pos \in 0..Len(lines) /\ Len(lines) \in Nat
      BY <1>2 DEF IInv, TypeOK
    <3>3. /\ lines' \in Seq(Line) /\ Len(lines') = Len(lines) + 1
          /\ \A n \in 1..pos : lines'[n] = lines[n]
      BY <3>1, <3>2
    <3>4. ~gone /\ late = 0 /\ UNCHANGED <<pos, pc, answers, gone, late>>
      BY <1>2, <2>1 DEF Write, IInv, TypeOK, LateCallIsLast
    <3>5. TypeOK'
      BY <1>2, <2>1, <3>2, <3>3, <3>4, BridgeAssumption DEF IInv, TypeOK, Write
    <3>6. CallIsOpen' /\ InOrder' /\ LateCallIsLast'
      BY <1>2, <3>4 DEF IInv, CallIsOpen, InOrder, LateCallIsLast
    <3>7. NoneOverlooked'
      BY <1>2, <3>3, <3>4 DEF IInv, NoneOverlooked, Answered
    <3> QED BY <3>5, <3>6, <3>7 DEF IInv
  <2>2. CASE Leave \/ Eof \/ UNCHANGED vars
    BY <1>2, <2>2 DEF Leave, Eof, vars, IInv, TypeOK, CallIsOpen, InOrder, NoneOverlooked,
      LateCallIsLast, Answered
  <2>3. CASE Read
    <3>1. At(pos + 1) /\ pos' = pos + 1 /\ UNCHANGED <<lines, gone>> /\ Handle(pos')
      BY <2>3 DEF Read, At
    <3>2. lines[pos'] \in Line
      BY <1>2, <3>1, BeforeLine
    <3>3. CASE Settles(pos') /\ late' = late
      BY <1>2, <3>1, <3>3, SettleStep
    <3>4. CASE Forward(pos')
      BY <1>2, <2>3, <3>4, ForwardStep DEF Read
    <3> QED BY <3>1, <3>2, <3>3, <3>4, HandleSettles
  <2>4. CASE Return
    <3>1. At(pos) /\ pos' = pos /\ UNCHANGED <<lines, gone, late>>
      BY <2>4 DEF Return, At
    <3>2. Settles(pos)
      BY <2>4, AnswerSettles, RaiseSettles DEF Return
    <3> QED BY <1>2, <3>1, <3>2, SettleStep
  <2> QED BY <1>2, <2>1, <2>2, <2>3, <2>4 DEF Next, Bridge
<1> QED BY <1>1, <1>2, PTL DEF Spec

(***************************************************************************)
(* Theorems                                                                *)
(***************************************************************************)
(* Type correctness of the pipe, the bridge and what the CLI got.          *)
THEOREM TypeCorrect == Spec => []TypeOK
<1>1. IInv => TypeOK
  BY DEF IInv
<1> QED BY <1>1, Invariant, PTL

(* main and _handle: one answer for each request, in their order, and none  *)
(* forgotten while both sides live.                                        *)
THEOREM RequestsGetTheirAnswers == Spec => []AnswersMatch
<1>1. IInv => AnswersMatch
  BY DEF IInv, InOrder, NoneOverlooked, AnswersMatch
<1> QED BY <1>1, Invariant, PTL

(* The broken pipe ends the bridge with the first call it has forwarded for *)
(* a CLI that is gone.                                                     *)
THEOREM OneLateCall == Spec => []AtMostOneLateCall
<1>1. IInv => AtMostOneLateCall
  BY DEF IInv, LateCallIsLast, AtMostOneLateCall
<1> QED BY <1>1, Invariant, PTL
=============================================================================
