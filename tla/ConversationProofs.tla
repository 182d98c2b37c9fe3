------------------------- MODULE ConversationProofs -------------------------
(* What the CLI of a turn knows, for any number of turns, any length of the *)
(* replayed history, and CLIs that report their session or do not.          *)
EXTENDS Conversation, FiniteSetTheorems, TLAPS

USE DEF Phases

(***************************************************************************)
(* Messages                                                                *)
(***************************************************************************)
(* A message belongs to a turn that was sent.  In json mode the CLI's      *)
(* answer is created together with the end of the turn.                    *)
Written ==
  \A m \in 1..Count :
    /\ phase[author[m].turn] # "unsent"
    /\ ~streaming /\ author[m].role = "assistant" => phase[author[m].turn] = "closed"

ClosedTurns == {t \in Turns : phase[t] = "closed"}

(* turn_count counts turns that are closed, though not all of them.        *)
Counted == turnCount <= Cardinality(ClosedTurns)

BaseInv == TypeOK /\ Written /\ Counted

(* At most one message for each turn and role.                             *)
LEMMA MessagesBounded ==
  ASSUME NEW n \in Nat, NEW a \in [1..n -> Author],
         \A i, j \in 1..n : a[i] = a[j] => i = j
  PROVE  n <= 2 * MaxTurns
<1> DEFINE f == [i \in 1..n |-> IF a[i].role = "user" THEN 2 * a[i].turn - 1
                                                     ELSE 2 * a[i].turn]
<1>1. \A i \in 1..n : /\ a[i].turn \in 1..MaxTurns /\ a[i].role \in {"user", "assistant"}
                      /\ a[i] = [turn |-> a[i].turn, role |-> a[i].role]
  BY DEF Author, Turns
<1>2. \A i \in 1..n : f[i] \in 1..2 * MaxTurns
  BY <1>1, ConversationAssumption
<1>3. ASSUME NEW i \in 1..n, NEW j \in 1..n, f[i] = f[j] PROVE i = j
  <2>1. a[i].turn \in Int /\ a[j].turn \in Int
    BY <1>1
  <2>2. a[i].role = a[j].role /\ a[i].turn = a[j].turn
    BY <1>1, <1>3, <2>1
  <2> QED BY <1>1, <2>2
<1>4. f \in Injection(1..n, 1..2 * MaxTurns)
  BY <1>2, <1>3 DEF Injection, IsInjective
<1>5. /\ IsFiniteSet(1..2 * MaxTurns) /\ Cardinality(1..2 * MaxTurns) = 2 * MaxTurns
      /\ Cardinality(1..n) = n
  BY FS_Interval, ConversationAssumption
<1> HIDE DEF f
<1>6. Cardinality(1..n) <= Cardinality(1..2 * MaxTurns)
  BY <1>4, <1>5, FS_Injection
<1> QED BY <1>5, <1>6

LEMMA CountIsLength ==
  ASSUME TypeOK
  PROVE  Count \in Nat /\ Count <= 2 * MaxTurns /\ DOMAIN author = 1..Count
BY ConversationAssumption DEF TypeOK

(* A message that is new for its turn and role is added at the end.        *)
LEMMA MessageAdded ==
  ASSUME TypeOK, NEW t \in Turns, NEW r \in {"user", "assistant"},
         author' = WithMessage(t, r),
         \A m \in 1..Count : author[m] # [turn |-> t, role |-> r]
  PROVE  /\ Count' = Count + 1 /\ Count' \in 1..2 * MaxTurns
         /\ author' \in [1..Count' -> Author]
         /\ \A m, n \in 1..Count' : author'[m] = author'[n] => m = n
         /\ \A m \in 1..Count : author'[m] = author[m]
         /\ author'[Count'] = [turn |-> t, role |-> r]
<1> DEFINE new == [turn |-> t, role |-> r]
           n == Count + 1
<1>1. Count \in Nat /\ DOMAIN author = 1..Count /\ new \in Author
  BY CountIsLength DEF Author
<1>2. author' = [m \in 1..n |-> IF m \in 1..Count THEN author[m] ELSE new]
  BY <1>1 DEF WithMessage
<1> HIDE DEF n
<1>3. n \in Nat /\ n = Count + 1 /\ 1..n = (1..Count) \cup {n} /\ n \notin 1..Count
  BY <1>1 DEF n
<1>4. DOMAIN author' = 1..n
  BY <1>2
<1>5. Cardinality(1..n) = n
  BY <1>3, FS_Interval
<1>6. Count' = n
  BY <1>4, <1>5 DEF Count
<1>7. /\ \A m \in 1..Count : author'[m] = author[m]
      /\ author'[n] = new /\ author' \in [1..n -> Author]
  BY <1>1, <1>2, <1>3 DEF TypeOK
<1>8. \A i, j \in 1..n : author'[i] = author'[j] => i = j
  BY <1>3, <1>7 DEF TypeOK
<1>9. n <= 2 * MaxTurns
  BY <1>3, <1>7, <1>8, MessagesBounded
<1> QED BY <1>3, <1>6, <1>7, <1>8, <1>9, ConversationAssumption DEF n

(* A step that creates no message.                                         *)
LEMMA NoMessage ==
  ASSUME BaseInv, author' = author, streaming' = streaming,
         \A t \in Turns : /\ phase[t] # "unsent" => phase'[t] # "unsent"
                          /\ phase[t] = "closed" => phase'[t] = "closed"
  PROVE  /\ Count' = Count /\ author' \in [1..Count' -> Author]
         /\ Count' \in 0..2 * MaxTurns
         /\ \A m, n \in 1..Count' : author'[m] = author'[n] => m = n
         /\ Written'
<1>1. Count' = Count
  BY DEF Count
<1>2. \A m \in 1..Count : author[m].turn \in Turns
  BY DEF BaseInv, TypeOK, Author
<1> QED BY <1>1, <1>2 DEF BaseInv, TypeOK, Written

(* A step that closes no turn leaves the count where it is; one that closes *)
(* a turn may count it.                                                    *)
LEMMA CountedStep ==
  ASSUME BaseInv, NEW t \in Turns, NEW p, phase' = [phase EXCEPT ![t] = p],
         phase[t] # "closed",
         turnCount' = turnCount \/ (p = "closed" /\ turnCount' = turnCount + 1)
  PROVE  turnCount' \in 0..MaxTurns /\ Counted'
<1>1. /\ IsFiniteSet(Turns) /\ Cardinality(Turns) = MaxTurns
  BY FS_Interval, ConversationAssumption DEF Turns
<1>2. /\ IsFiniteSet(ClosedTurns) /\ IsFiniteSet(ClosedTurns')
      /\ Cardinality(ClosedTurns') <= MaxTurns
  BY <1>1, FS_Subset DEF ClosedTurns
<1>3. Cardinality(ClosedTurns) \in Nat /\ Cardinality(ClosedTurns') \in Nat
  BY <1>2, FS_CardinalityType
<1>4. ClosedTurns' = IF p = "closed" THEN ClosedTurns \cup {t} ELSE ClosedTurns
  BY DEF BaseInv, TypeOK, ClosedTurns
<1>5. t \notin ClosedTurns
  BY DEF ClosedTurns
<1>6. Cardinality(ClosedTurns') = IF p = "closed" THEN Cardinality(ClosedTurns) + 1
                                  ELSE Cardinality(ClosedTurns)
  BY <1>2, <1>4, <1>5, FS_AddElement
<1>7. turnCount \in Nat /\ turnCount <= Cardinality(ClosedTurns)
  BY DEF BaseInv, TypeOK, Counted
<1> QED BY <1>2, <1>3, <1>6, <1>7, ConversationAssumption DEF Counted

(* The one message of this kind of turn t is new.                          *)
LEMMA SaysIsNew ==
  ASSUME BaseInv, NEW t \in Turns, Text(t) \/ FinalObject(t)
  PROVE  \A m \in 1..Count : author[m] # [turn |-> t, role |-> "assistant"]
BY DEF Text, FinalObject, BaseInv, Written

LEMMA SaysType ==
  ASSUME TypeOK, NEW t \in Turns, Says(t), Count + 1 \in Messages
  PROVE  /\ known' \in [Turns -> SUBSET (Messages \cup {0})]
         /\ stored' \in [Turns -> (SUBSET (Messages \cup {0})) \cup {None}]
<1>1. known' \in [Turns -> SUBSET (Messages \cup {0})]
  BY DEF TypeOK, Says
<1>2. \A s \in Turns : IF stored[s] = None THEN None \in (SUBSET (Messages \cup {0})) \cup {None}
        ELSE stored[s] \cup {Count + 1} \in (SUBSET (Messages \cup {0})) \cup {None}
  BY DEF TypeOK
<1>3. stored' = [stored EXCEPT ![id[t]] =
                   IF stored[id[t]] = None THEN None ELSE stored[id[t]] \cup {Count + 1}]
  BY DEF Says
<1>4. stored' \in [Turns -> (SUBSET (Messages \cup {0})) \cup {None}]
  BY <1>2, <1>3 DEF TypeOK
<1> QED BY <1>1, <1>4

LEMMA BaseTurnStep ==
  ASSUME BaseInv, NEW t \in Turns,
         \/ Send(t) \/ CliStarts(t) \/ InitEvent(t) \/ Text(t)
         \/ Result(t) \/ FinalObject(t) \/ Fails(t) \/ Finish(t) \/ Raise(t)
  PROVE  BaseInv'
<1>1. /\ Count \in Nat /\ Count <= 2 * MaxTurns /\ DOMAIN author = 1..Count /\ TypeOK
      /\ 1..Count \subseteq Messages
  BY CountIsLength, ConversationAssumption DEF BaseInv, Messages
<1>2. CASE Send(t)
  <2>1. /\ author' = WithMessage(t, "user") /\ phase' = [phase EXCEPT ![t] = "sent"]
        /\ phase[t] = "unsent" /\ turnCount' = turnCount /\ cli' = cli /\ row' = "running"
        /\ UNCHANGED <<grokId, known, id, done, stored>>
    BY <1>2 DEF Send
  <2>2. \A m \in 1..Count : author[m] # [turn |-> t, role |-> "user"]
    BY <2>1 DEF BaseInv, Written
  <2>3. /\ Count' = Count + 1 /\ Count' \in 1..2 * MaxTurns
        /\ author' \in [1..Count' -> Author]
        /\ \A m, n \in 1..Count' : author'[m] = author'[n] => m = n
        /\ \A m \in 1..Count : author'[m] = author[m]
        /\ author'[Count'] = [turn |-> t, role |-> "user"]
    BY <1>1, <2>1, <2>2, MessageAdded
  <2>4. Prompt(turnCount = 0, turnCount # 0 /\ grokId # None) \in SUBSET (Messages \cup {0})
    BY <1>1, <2>3 DEF Prompt, History, Messages
  <2>5. prompt' \in [Turns -> SUBSET (Messages \cup {0})]
    BY <1>1, <1>2, <2>4 DEF Send, TypeOK
  <2>6. resume' \in [Turns -> Turns \cup {None}]
    BY <1>1, <1>2 DEF Send, TypeOK
  <2>7. Written'
    <3>1. \A m \in 1..Count : author[m].turn \in Turns
      BY <1>1 DEF TypeOK, Author
    <3>2. \A u \in Turns : phase'[u] = IF u = t THEN "sent" ELSE phase[u]
      BY <1>1, <2>1 DEF TypeOK
    <3>3. streaming' = streaming
      BY <2>1 DEF cli
    <3>4. \A m \in 1..Count' : m \in 1..Count \/ m = Count'
      BY <1>1, <2>3
    <3> QED BY <2>1, <2>3, <3>1, <3>2, <3>3, <3>4 DEF BaseInv, Written
  <2>8. Counted' /\ turnCount' \in 0..MaxTurns
    BY <2>1, CountedStep
  <2>9. TypeOK'
    <3>1. phase' \in [Turns -> Phases] /\ Count' \in 0..2 * MaxTurns
      BY <1>1, <2>1, <2>3, ConversationAssumption DEF TypeOK
    <3> QED BY <1>1, <2>1, <2>3, <2>5, <2>6, <2>8, <3>1 DEF TypeOK
  <2> QED BY <2>7, <2>8, <2>9 DEF BaseInv
<1>3. CASE CliStarts(t)
  <2>1. /\ phase' = [phase EXCEPT ![t] = "running"] /\ phase[t] = "sent"
        /\ UNCHANGED <<record, resume, prompt, done, cli>>
    BY <1>3 DEF CliStarts
  <2>2. known' \in [Turns -> SUBSET (Messages \cup {0})]
    <3> DEFINE before == IF resume[t] = None THEN {} ELSE stored[resume[t]]
    <3>1. before # None /\ known' = [known EXCEPT ![t] = before \cup prompt[t]]
      BY <1>3 DEF CliStarts
    <3>2. before \subseteq Messages \cup {0}
      <4>1. CASE resume[t] = None
        BY <4>1
      <4>2. CASE resume[t] # None
        <5>1. resume[t] \in Turns
          BY <1>1, <4>2 DEF TypeOK
        <5>2. stored[resume[t]] \in (SUBSET (Messages \cup {0})) \cup {None}
          BY <1>1, <5>1 DEF TypeOK
        <5>3. before = stored[resume[t]]
          BY <4>2
        <5> HIDE DEF before
        <5>4. before # None
          BY <3>1
        <5> QED BY <5>2, <5>3, <5>4
      <4> QED BY <4>1, <4>2
    <3> HIDE DEF before
    <3> QED BY <1>1, <3>1, <3>2 DEF TypeOK
  <2>3. PICK s \in {t, resume[t]} \ {None} :
          id' = [id EXCEPT ![t] = s] /\ stored' = [stored EXCEPT ![s] = known'[t]]
    BY <1>3 DEF CliStarts
  <2>4. /\ id' \in [Turns -> Turns \cup {None}]
        /\ stored' \in [Turns -> (SUBSET (Messages \cup {0})) \cup {None}]
    BY <1>1, <2>2, <2>3 DEF TypeOK
  <2>5. UNCHANGED <<row, turnCount, grokId, author, streaming, reports>>
    BY <2>1 DEF record, cli
  <2>6. /\ Count' = Count /\ author' \in [1..Count' -> Author] /\ Written'
        /\ Count' \in 0..2 * MaxTurns
        /\ \A m, n \in 1..Count' : author'[m] = author'[n] => m = n
    BY <1>1, <2>1, <2>5, NoMessage DEF TypeOK
  <2>7. Counted' /\ turnCount' \in 0..MaxTurns
    BY <2>1, <2>5, CountedStep
  <2> QED BY <1>1, <2>1, <2>2, <2>4, <2>5, <2>6, <2>7 DEF BaseInv, TypeOK
<1>4. CASE Text(t) \/ FinalObject(t)
  <2>1. /\ author' = WithMessage(t, "assistant") /\ Says(t)
        /\ UNCHANGED <<resume, prompt, id, cli>>
        /\ phase[t] = "running"
    BY <1>4 DEF Text, FinalObject, Says
  <2>2. /\ Count' = Count + 1 /\ Count' \in 1..2 * MaxTurns
        /\ author' \in [1..Count' -> Author]
        /\ \A m, n \in 1..Count' : author'[m] = author'[n] => m = n
        /\ \A m \in 1..Count : author'[m] = author[m]
        /\ author'[Count'] = [turn |-> t, role |-> "assistant"]
    BY <1>1, <1>4, <2>1, MessageAdded, SaysIsNew
  <2>3. /\ known' \in [Turns -> SUBSET (Messages \cup {0})]
        /\ stored' \in [Turns -> (SUBSET (Messages \cup {0})) \cup {None}]
    BY <1>1, <2>1, <2>2, SaysType DEF Messages
  <2>4. PICK p \in {"running", "closed"} :
          /\ phase' = [phase EXCEPT ![t] = p]
          /\ ~streaming => p = "closed"
          /\ turnCount' = turnCount \/ (p = "closed" /\ turnCount' = turnCount + 1)
    <3>1. CASE Text(t)
      <4>1. phase' = [phase EXCEPT ![t] = "running"]
        BY <1>1, <2>1, <3>1 DEF Text, TypeOK
      <4> QED BY <3>1, <4>1 DEF Text
    <3>2. CASE FinalObject(t)
      BY <3>2 DEF FinalObject
    <3> QED BY <1>4, <3>1, <3>2
  <2>5. Counted' /\ turnCount' \in 0..MaxTurns
    BY <2>1, <2>4, CountedStep
  <2>6. Written'
    <3>1. \A m \in 1..Count : author[m].turn \in Turns
      BY <1>1 DEF TypeOK, Author
    <3>2. \A u \in Turns : phase'[u] = IF u = t THEN p ELSE phase[u]
      BY <1>1, <2>4 DEF TypeOK
    <3>3. streaming' = streaming
      BY <2>1 DEF cli
    <3>4. \A m \in 1..Count' : m \in 1..Count \/ m = Count'
      BY <1>1, <2>2
    <3> QED BY <2>1, <2>2, <2>4, <3>1, <3>2, <3>3, <3>4 DEF BaseInv, Written
  <2>7. row' \in {"idle", "running", "done", "error"} /\ grokId' \in Turns \cup {None}
    BY <1>1, <1>4 DEF Text, FinalObject, TypeOK, Captured
  <2>8. done' \in [Turns -> BOOLEAN]
    <3>1. done' = done \/ done' = [done EXCEPT ![t] = TRUE]
      BY <1>4 DEF Text, FinalObject
    <3> QED BY <1>1, <3>1 DEF TypeOK
  <2>9. phase' \in [Turns -> Phases] /\ Count' \in 0..2 * MaxTurns
    BY <1>1, <2>2, <2>4, ConversationAssumption DEF TypeOK
  <2> QED BY <1>1, <2>1, <2>2, <2>3, <2>5, <2>6, <2>7, <2>8, <2>9 DEF BaseInv, TypeOK
<1>5. CASE InitEvent(t)
  <2>1. /\ UNCHANGED <<row, turnCount, author, phase, resume, prompt, known, id, done,
                       streaming, reports, stored>>
        /\ grokId' \in Turns \cup {None}
    BY <1>1, <1>5 DEF InitEvent, turn, cli, Captured, TypeOK
  <2>2. Counted'
    BY <2>1 DEF BaseInv, Counted, ClosedTurns
  <2> QED BY <1>1, <2>1, <2>2, NoMessage DEF BaseInv, TypeOK, cli
<1>6. CASE Result(t) \/ Fails(t) \/ Finish(t) \/ Raise(t)
  <2>1. /\ UNCHANGED <<author, resume, prompt, known, id, streaming, reports, stored>>
        /\ row' \in {"idle", "running", "done", "error"}
    BY <1>1, <1>6 DEF Result, Fails, Finish, Raise, cli, TypeOK
  <2>2. grokId' \in Turns \cup {None} /\ done' \in [Turns -> BOOLEAN]
    <3>1. grokId' \in {grokId, id[t]}
      BY <1>6 DEF Result, Fails, Finish, Raise, Captured
    <3>2. done' = done \/ done' = [done EXCEPT ![t] = TRUE]
      BY <1>6 DEF Result, Fails, Finish, Raise
    <3>3. done' \in [Turns -> BOOLEAN]
      BY <1>1, <3>2 DEF TypeOK
    <3>4. grokId' \in Turns \cup {None}
      BY <1>1, <3>1 DEF TypeOK
    <3> QED BY <3>3, <3>4
  <2>3. PICK p \in {"over", "closed"} :
          /\ phase' = [phase EXCEPT ![t] = p] /\ phase[t] \notin {"closed", "unsent"}
          /\ turnCount' = turnCount \/ (p = "closed" /\ turnCount' = turnCount + 1)
    BY <1>6 DEF Result, Fails, Finish, Raise
  <2>4. Counted' /\ turnCount' \in 0..MaxTurns
    BY <2>3, CountedStep
  <2>5. \A u \in Turns : phase'[u] = IF u = t THEN p ELSE phase[u]
    BY <1>1, <2>3 DEF TypeOK
  <2>6. /\ author' \in [1..Count' -> Author] /\ Written'
        /\ Count' \in 0..2 * MaxTurns
        /\ \A m, n \in 1..Count' : author'[m] = author'[n] => m = n
    BY <2>1, <2>3, <2>5, NoMessage
  <2> QED BY <1>1, <2>1, <2>2, <2>3, <2>4, <2>6 DEF BaseInv, TypeOK, cli
<1> QED BY <1>2, <1>3, <1>4, <1>5, <1>6

LEMMA BaseStep == BaseInv /\ [Next]_vars => BaseInv'
<1> SUFFICES ASSUME BaseInv, [Next]_vars PROVE BaseInv'
  OBVIOUS
<1>1. CASE Stop \/ Forget \/ UNCHANGED vars
  <2>1. /\ UNCHANGED <<turnCount, grokId, author, phase, resume, prompt, known, id, done,
                       streaming, reports>>
        /\ row' \in {"idle", "running", "done", "error"}
        /\ stored' \in [Turns -> (SUBSET (Messages \cup {0})) \cup {None}]
    <3>1. CASE Stop \/ UNCHANGED vars
      BY <3>1 DEF Stop, vars, record, turn, cli, BaseInv, TypeOK
    <3>2. CASE Forget
      <4>1. PICK s \in Turns : stored' = [stored EXCEPT ![s] = None]
        BY <3>2 DEF Forget
      <4>2. stored' \in [Turns -> (SUBSET (Messages \cup {0})) \cup {None}]
        BY <4>1 DEF BaseInv, TypeOK
      <4>3. row \in {"idle", "running", "done", "error"}
        BY DEF BaseInv, TypeOK
      <4> QED BY <3>2, <4>2, <4>3 DEF Forget, record, turn, cli
    <3> QED BY <1>1, <3>1, <3>2
  <2>2. Counted'
    BY <2>1 DEF BaseInv, Counted, ClosedTurns
  <2> QED BY <2>1, <2>2, NoMessage DEF BaseInv, TypeOK, cli
<1> QED BY <1>1, BaseTurnStep DEF Next

LEMMA BaseInvariant == Spec => []BaseInv
<1>1. Init => BaseInv
  <2> SUFFICES ASSUME Init PROVE BaseInv
    OBVIOUS
  <2>1. DOMAIN author = {}
    BY DEF Init
  <2>2. Count = 0
    BY <2>1, FS_EmptySet DEF Count
  <2>3. author \in [1..Count -> Author] /\ 1..Count = {}
    BY <2>2 DEF Init
  <2>4. TypeOK
    <3>1. cli \in BOOLEAN \X BOOLEAN
      BY DEF Init, cli
    <3>2. /\ Count \in 0..2 * MaxTurns /\ turnCount \in 0..MaxTurns
          /\ \A m, n \in 1..Count : author[m] = author[n] => m = n
      BY <2>2, <2>3, ConversationAssumption DEF Init
    <3>3. /\ phase \in [Turns -> Phases] /\ done \in [Turns -> BOOLEAN]
          /\ resume \in [Turns -> Turns \cup {None}] /\ id \in [Turns -> Turns \cup {None}]
          /\ prompt \in [Turns -> SUBSET (Messages \cup {0})]
          /\ known \in [Turns -> SUBSET (Messages \cup {0})]
          /\ stored \in [Turns -> (SUBSET (Messages \cup {0})) \cup {None}]
      BY DEF Init
    <3>4. row \in {"idle", "running", "done", "error"} /\ grokId \in Turns \cup {None}
      BY DEF Init
    <3> QED BY <2>3, <3>1, <3>2, <3>3, <3>4 DEF TypeOK
  <2>5. Written
    BY <2>3 DEF Written
  <2>6. ClosedTurns = {} /\ turnCount = 0
    BY DEF Init, ClosedTurns
  <2>7. Counted
    BY <2>6, FS_EmptySet DEF Counted
  <2> QED BY <2>4, <2>5, <2>7 DEF BaseInv
<1> QED BY <1>1, BaseStep, PTL DEF Spec

(* Type correctness; in particular no turn writes more than two messages.  *)
THEOREM TypeCorrect == Spec => []TypeOK
<1>1. BaseInv => TypeOK
  BY DEF BaseInv
<1> QED BY <1>1, BaseInvariant, PTL

(***************************************************************************)
(* The system prompt                                                       *)
(***************************************************************************)
(* Every Grok session that is still stored began with the system prompt.   *)
StoredWithSystem == \A s \in Turns : stored[s] # None => 0 \in stored[s]

FreshWithSystem ==
  \A t \in Turns : phase[t] = "sent" /\ resume[t] = None => 0 \in prompt[t]

SystemInv == TypeOK /\ StoredWithSystem /\ FreshWithSystem /\ SystemPromptKnown

LEMMA SystemTurnStep ==
  ASSUME SystemInv, NEW t \in Turns,
         \/ Send(t) \/ CliStarts(t) \/ InitEvent(t) \/ Text(t)
         \/ Result(t) \/ FinalObject(t) \/ Fails(t) \/ Finish(t) \/ Raise(t)
  PROVE  StoredWithSystem' /\ FreshWithSystem' /\ SystemPromptKnown'
<1> USE DEF SystemInv
<1>1. CASE Send(t)
  <2>1. /\ UNCHANGED <<known, stored>> /\ phase' = [phase EXCEPT ![t] = "sent"]
        /\ \A u \in Turns : u # t => prompt'[u] = prompt[u] /\ resume'[u] = resume[u]
    BY <1>1 DEF Send, TypeOK
  <2>2. resume'[t] = None => 0 \in prompt'[t]
    BY <1>1 DEF Send, Prompt, TypeOK
  <2> QED BY <2>1, <2>2 DEF StoredWithSystem, FreshWithSystem, SystemPromptKnown, TypeOK
<1>2. CASE CliStarts(t)
  <2> DEFINE before == IF resume[t] = None THEN {} ELSE stored[resume[t]]
  <2>1. /\ before # None /\ known' = [known EXCEPT ![t] = before \cup prompt[t]]
        /\ phase[t] = "sent" /\ phase' = [phase EXCEPT ![t] = "running"]
        /\ UNCHANGED <<resume, prompt>>
    BY <1>2 DEF CliStarts
  <2>2. PICK s \in {t, resume[t]} \ {None} : stored' = [stored EXCEPT ![s] = known'[t]]
    BY <1>2 DEF CliStarts
  <2>3. 0 \in before \cup prompt[t]
    <3>1. CASE resume[t] = None
      BY <2>1, <3>1 DEF FreshWithSystem
    <3>2. CASE resume[t] # None
      BY <2>1, <3>2 DEF StoredWithSystem, TypeOK
    <3> QED BY <3>1, <3>2
  <2> HIDE DEF before
  <2>4. 0 \in known'[t] /\ \A u \in Turns : u # t => known'[u] = known[u]
    BY <2>1, <2>3 DEF TypeOK
  <2> QED BY <2>1, <2>2, <2>4 DEF StoredWithSystem, FreshWithSystem, SystemPromptKnown, TypeOK
<1>3. CASE Text(t) \/ FinalObject(t)
  <2>1. /\ known' = [known EXCEPT ![t] = known[t] \cup {Count + 1}]
        /\ stored' = [stored EXCEPT ![id[t]] = IF stored[id[t]] = None THEN None
                                              ELSE stored[id[t]] \cup {Count + 1}]
        /\ UNCHANGED <<resume, prompt>>
    BY <1>3 DEF Text, FinalObject, Says
  <2>2. \A u \in Turns : phase'[u] \in {"sent", "running"} => phase'[u] = phase[u]
    BY <1>3 DEF Text, FinalObject, TypeOK
  <2>3. StoredWithSystem'
    BY <2>1 DEF StoredWithSystem, TypeOK
  <2>4. SystemPromptKnown'
    BY <2>1, <2>2 DEF SystemPromptKnown, TypeOK
  <2> QED BY <2>1, <2>2, <2>3, <2>4 DEF FreshWithSystem
<1>4. CASE InitEvent(t) \/ Result(t) \/ Fails(t) \/ Finish(t) \/ Raise(t)
  <2>1. UNCHANGED <<resume, prompt, known, stored>>
    BY <1>4 DEF InitEvent, Result, Fails, Finish, Raise, turn
  <2>2. \A u \in Turns : phase'[u] \in {"sent", "running"} => phase'[u] = phase[u]
    BY <1>4 DEF InitEvent, Result, Fails, Finish, Raise, turn, TypeOK
  <2> QED BY <2>1, <2>2 DEF StoredWithSystem, FreshWithSystem, SystemPromptKnown
<1> QED BY <1>1, <1>2, <1>3, <1>4

(* _compose_prompt: the prompt of a turn that resumes leaves the system    *)
(* prompt out, and its CLI has it all the same.                            *)
THEOREM SystemPromptReachesAll == Spec => []SystemPromptKnown
<1>1. Init => StoredWithSystem /\ FreshWithSystem /\ SystemPromptKnown
  BY DEF Init, StoredWithSystem, FreshWithSystem, SystemPromptKnown
<1>2. SystemInv /\ [Next]_vars => StoredWithSystem' /\ FreshWithSystem' /\ SystemPromptKnown'
  <2> SUFFICES ASSUME SystemInv, [Next]_vars
               PROVE  StoredWithSystem' /\ FreshWithSystem' /\ SystemPromptKnown'
    OBVIOUS
  <2>1. CASE Stop \/ Forget \/ UNCHANGED vars
    <3>1. /\ UNCHANGED <<phase, resume, prompt, known>>
          /\ \A s \in Turns : stored'[s] \in {stored[s], None}
      BY <2>1 DEF Stop, Forget, vars, turn, SystemInv, TypeOK
    <3> QED BY <3>1 DEF SystemInv, StoredWithSystem, FreshWithSystem, SystemPromptKnown
  <2> QED BY <2>1, SystemTurnStep DEF Next
<1>3. TypeOK /\ StoredWithSystem /\ FreshWithSystem /\ SystemPromptKnown <=> SystemInv
  BY DEF SystemInv
<1> QED BY <1>1, <1>2, <1>3, TypeCorrect, PTL DEF Spec

(***************************************************************************)
(* Continuity                                                              *)
(***************************************************************************)
(* The messages a CLI must know: recent ones, of turns that ended well.    *)
Recent == {m \in History(Count) : done[author[m].turn]}

OwnMessages(t) == {m \in 1..Count : author[m].turn = t}

(* Turns come one after the other, and end before they are done.           *)
Orderly ==
  /\ \A t, u \in Turns : u < t /\ phase[t] # "unsent" => phase[u] \in {"over", "closed"}
  /\ \A t \in Turns : done[t] => phase[t] \in {"over", "closed"}

(* The session captured last is one that knows what must be known, and only *)
(* a CLI that reports its session makes a captured one.                    *)
GrokKnows ==
  grokId # None => reports /\ (stored[grokId] # None => Recent \subseteq stored[grokId])

(* A turn is told everything recent, or resumes the session captured last. *)
Prompted ==
  \A t \in Turns : phase[t] = "sent" =>
    /\ OwnMessages(t) \subseteq prompt[t]
    /\ resume[t] = None => History(Count) \subseteq prompt[t]
    /\ resume[t] # None => resume[t] = grokId

(* A CLI at work knows it, and its session holds what it knows.            *)
Informed ==
  \A t \in Turns : phase[t] = "running" =>
    /\ Recent \cup OwnMessages(t) \subseteq known[t]
    /\ id[t] \in Turns
    /\ stored[id[t]] # None => known[t] \subseteq stored[id[t]]

ContInv == BaseInv /\ Orderly /\ GrokKnows /\ Prompted /\ Informed

LEMMA OneAtWork ==
  ASSUME ContInv, NEW t \in Turns, NEW u \in Turns,
         phase[t] \in {"sent", "running"}, phase[u] \in {"sent", "running"}
  PROVE  t = u
<1>1. t \in Int /\ u \in Int
  BY ConversationAssumption DEF Turns
<1>2. ~(t < u) /\ ~(u < t)
  BY DEF ContInv, Orderly
<1> QED BY <1>1, <1>2

(* A step makes no message recent, other than by a turn ending well.       *)
LEMMA RecentShrinks ==
  ASSUME BaseInv, done' = done, Count' \in {Count, Count + 1},
         \A m \in 1..Count : author'[m] = author[m],
         Count' = Count + 1 => ~done[author'[Count'].turn]
  PROVE  Recent' \subseteq Recent
<1>1. Count \in Nat
  BY CountIsLength DEF BaseInv
<1> SUFFICES ASSUME NEW m \in Recent' PROVE m \in Recent
  OBVIOUS
<1>2. m \in 1..Count' /\ m > Count' - HistoryMax /\ done[author'[m].turn]
  BY DEF Recent, History
<1>3. m \in 1..Count
  BY <1>1, <1>2
<1>4. m > Count - HistoryMax
  <2>1. m \in Int /\ HistoryMax \in Int
    BY <1>3, ConversationAssumption
  <2>2. CASE Count' = Count
    BY <1>2, <2>2
  <2>3. CASE Count' = Count + 1
    BY <1>1, <1>2, <2>1, <2>3
  <2> QED BY <2>2, <2>3
<1> QED BY <1>2, <1>3, <1>4 DEF Recent, History

LEMMA ContSend ==
  ASSUME ContInv, ~LateWorkers, NEW t \in Turns, Send(t)
  PROVE  Orderly' /\ GrokKnows' /\ Prompted' /\ Informed'
<1> USE DEF ContInv
<1>1. /\ TypeOK /\ phase[t] = "unsent" /\ \A u \in Turns : u \in Int
      /\ UNCHANGED <<grokId, known, id, done, stored, streaming, reports>>
      /\ author' = WithMessage(t, "user")
  BY ConversationAssumption DEF Send, cli, BaseInv, Turns
<1>2. \A u \in Turns : phase'[u] = IF u = t THEN "sent" ELSE phase[u]
  BY <1>1 DEF Send, TypeOK
<1>3. \A u \in Turns : u # t =>
        phase[u] = "unsent" \/ (u < t /\ phase[u] \in {"over", "closed"})
  <2> TAKE u \in Turns
  <2> HAVE u # t
  <2>1. CASE u < t
    BY <1>1, <2>1 DEF Send, Turns
  <2>2. CASE t < u
    BY <1>1, <2>2 DEF Orderly
  <2> QED BY <1>1, <2>1, <2>2
<1>4. /\ Count \in Nat /\ Count' = Count + 1 /\ author'[Count'] = [turn |-> t, role |-> "user"]
      /\ \A m \in 1..Count : author'[m] = author[m] /\ author[m].turn # t
  <2>1. \A m \in 1..Count : author[m].turn # t
    BY <1>1 DEF BaseInv, Written
  <2>2. \A m \in 1..Count : author[m] # [turn |-> t, role |-> "user"]
    BY <2>1
  <2>3. /\ Count' = Count + 1 /\ author'[Count'] = [turn |-> t, role |-> "user"]
        /\ \A m \in 1..Count : author'[m] = author[m]
    BY <1>1, <2>2, MessageAdded
  <2> QED BY <1>1, <2>1, <2>3, CountIsLength
<1>5. ~done[t]
  BY <1>1 DEF Orderly
<1>6. Recent' \subseteq Recent
  BY <1>1, <1>4, <1>5, RecentShrinks
<1>7. Orderly'
  <2>1. \A u, v \in Turns : v < u /\ phase'[u] # "unsent" => phase'[v] \in {"over", "closed"}
    BY <1>1, <1>2, <1>3 DEF Orderly, Send, Turns
  <2>2. \A u \in Turns : done'[u] => phase'[u] \in {"over", "closed"}
    BY <1>1, <1>2, <1>5 DEF Orderly
  <2> QED BY <2>1, <2>2 DEF Orderly
<1>8. GrokKnows'
  BY <1>1, <1>6 DEF GrokKnows
<1>9. Prompted'
  <2> SUFFICES ASSUME NEW u \in Turns, phase'[u] = "sent"
               PROVE  /\ OwnMessages(u)' \subseteq prompt'[u]
                      /\ resume'[u] = None => History(Count)' \subseteq prompt'[u]
                      /\ resume'[u] # None => resume'[u] = grokId'
    BY DEF Prompted
  <2>1. u = t
    BY <1>2, <1>3
  <2> DEFINE resuming == turnCount # 0 /\ grokId # None
  <2>2. /\ prompt'[t] = Prompt(turnCount = 0, resuming)
        /\ resume'[t] = IF resuming THEN grokId ELSE None
    BY <1>1 DEF Send, TypeOK
  <2>3. OwnMessages(t)' \subseteq {Count + 1}
    BY <1>4 DEF OwnMessages
  <2>4. History(Count)' = History(Count + 1)
    BY <1>4 DEF History
  <2> QED BY <1>1, <2>1, <2>2, <2>3, <2>4 DEF Prompt
<1>10. Informed'
  BY <1>2, <1>3 DEF Informed
<1> QED BY <1>7, <1>8, <1>9, <1>10

LEMMA ContStart ==
  ASSUME ContInv, NEW t \in Turns, CliStarts(t)
  PROVE  Orderly' /\ GrokKnows' /\ Prompted' /\ Informed'
<1> USE DEF ContInv
<1> DEFINE before == IF resume[t] = None THEN {} ELSE stored[resume[t]]
<1>1. /\ TypeOK /\ phase[t] = "sent" /\ before # None
      /\ phase' = [phase EXCEPT ![t] = "running"]
      /\ known' = [known EXCEPT ![t] = before \cup prompt[t]]
      /\ UNCHANGED <<row, turnCount, grokId, author, resume, prompt, done, streaming, reports>>
  BY DEF CliStarts, record, cli, BaseInv
<1>2. PICK s \in {t, resume[t]} \ {None} :
        id' = [id EXCEPT ![t] = s] /\ stored' = [stored EXCEPT ![s] = known'[t]]
  BY DEF CliStarts
<1>3. \A u \in Turns : phase'[u] = IF u = t THEN "running" ELSE phase[u]
  BY <1>1 DEF TypeOK
<1>4. \A u \in Turns : phase[u] \in {"sent", "running"} => u = t
  BY <1>1, OneAtWork
<1>5. Count' = Count /\ Recent' = Recent /\ OwnMessages(t)' = OwnMessages(t)
  BY <1>1 DEF Count, Recent, History, OwnMessages
<1>6. /\ s \in Turns /\ id'[t] = s /\ stored'[s] = known'[t]
      /\ known'[t] = before \cup prompt[t]
      /\ \A x \in Turns : x # s => stored'[x] = stored[x]
  BY <1>1, <1>2 DEF TypeOK
<1>7. Recent \subseteq known'[t]
  <2>1. Recent \subseteq History(Count)
    BY DEF Recent
  <2>2. CASE resume[t] = None
    BY <1>1, <1>6, <2>1, <2>2 DEF Prompted
  <2>3. CASE resume[t] # None
    BY <1>1, <1>6, <2>3 DEF Prompted, GrokKnows
  <2> QED BY <2>2, <2>3
<1>8. OwnMessages(t) \subseteq known'[t]
  BY <1>1, <1>6 DEF Prompted
<1> HIDE DEF before
<1>9. Informed'
  BY <1>3, <1>4, <1>5, <1>6, <1>7, <1>8 DEF Informed
<1>10. GrokKnows'
  <2>1. grokId # None => grokId \in Turns
    BY <1>1 DEF TypeOK
  <2> QED BY <1>1, <1>5, <1>6, <1>7, <2>1 DEF GrokKnows
<1>11. Orderly'
  BY <1>1, <1>3 DEF Orderly
<1>12. Prompted'
  BY <1>3, <1>4 DEF Prompted
<1> QED BY <1>9, <1>10, <1>11, <1>12

(* Text, and the answer a final object brings, go to the list, to what the *)
(* CLI knows and to its session.                                           *)
LEMMA SaysStep ==
  ASSUME ContInv, NEW t \in Turns, Text(t) \/ FinalObject(t)
  PROVE  /\ Count \in Nat /\ Count' = Count + 1 /\ author'[Count'].turn = t
         /\ \A m \in 1..Count : author'[m] = author[m]
         /\ Recent \cup OwnMessages(t)' \subseteq known'[t]
         /\ id[t] \in Turns /\ id' = id
         /\ stored'[id[t]] # None => known'[t] \subseteq stored'[id[t]]
         /\ \A s \in Turns : stored'[s] # None => stored[s] # None /\ stored[s] \subseteq stored'[s]
<1> USE DEF ContInv
<1>1. TypeOK /\ Says(t) /\ phase[t] = "running" /\ id' = id
  BY DEF BaseInv, Text, FinalObject
<1>2. /\ Count \in Nat /\ Count' = Count + 1
      /\ author'[Count'] = [turn |-> t, role |-> "assistant"]
      /\ \A m \in 1..Count : author'[m] = author[m]
  BY <1>1, MessageAdded, SaysIsNew, CountIsLength DEF Says
<1>3. /\ Recent \cup OwnMessages(t) \subseteq known[t] /\ id[t] \in Turns
      /\ stored[id[t]] # None => known[t] \subseteq stored[id[t]]
  BY <1>1 DEF Informed
<1>4. known'[t] = known[t] \cup {Count + 1}
  BY <1>1 DEF Says, TypeOK
<1>5. \A s \in Turns : stored'[s] = IF s = id[t] /\ stored[s] # None
                                    THEN stored[s] \cup {Count + 1} ELSE stored[s]
  BY <1>1, <1>3 DEF Says, TypeOK
<1>6. OwnMessages(t)' \subseteq OwnMessages(t) \cup {Count + 1}
  <2> SUFFICES ASSUME NEW m \in 1..Count', author'[m].turn = t, m # Count + 1
               PROVE  m \in OwnMessages(t)
    BY DEF OwnMessages
  <2>1. m \in 1..Count
    BY <1>2
  <2> QED BY <1>2, <2>1 DEF OwnMessages
<1>7. stored'[id[t]] # None => known'[t] \subseteq stored'[id[t]]
  BY <1>3, <1>4, <1>5
<1>8. \A s \in Turns : stored'[s] # None => stored[s] # None /\ stored[s] \subseteq stored'[s]
  BY <1>5
<1>9. Recent \cup OwnMessages(t)' \subseteq known'[t]
  BY <1>3, <1>4, <1>6
<1> QED BY <1>1, <1>2, <1>3, <1>7, <1>8, <1>9

LEMMA ContText ==
  ASSUME ContInv, NEW t \in Turns, Text(t)
  PROVE  Orderly' /\ GrokKnows' /\ Prompted' /\ Informed'
<1> USE DEF ContInv
<1>1. /\ TypeOK /\ phase[t] = "running"
      /\ UNCHANGED <<phase, grokId, resume, prompt, done, reports>>
  BY DEF Text, cli, BaseInv
<1>2. \A u \in Turns : phase[u] \in {"sent", "running"} => u = t
  BY <1>1, OneAtWork
<1>3. ~done[t]
  BY <1>1 DEF Orderly
<1>4. Recent' \subseteq Recent
  BY <1>1, <1>3, SaysStep, RecentShrinks
<1>5. Informed'
  BY <1>1, <1>2, <1>4, SaysStep DEF Informed
<1>6. GrokKnows'
  <2>1. grokId # None => grokId \in Turns
    BY <1>1 DEF TypeOK
  <2> QED BY <1>1, <1>4, <2>1, SaysStep DEF GrokKnows
<1>7. Orderly' /\ Prompted'
  BY <1>1, <1>2 DEF Orderly, Prompted
<1> QED BY <1>5, <1>6, <1>7

(* A turn that ends well leaves its session to the next one, if its CLI    *)
(* says which it is.                                                       *)
LEMMA ContWell ==
  ASSUME ContInv, NEW t \in Turns, Result(t) \/ FinalObject(t)
  PROVE  Orderly' /\ GrokKnows' /\ Prompted' /\ Informed'
<1> USE DEF ContInv
<1>1. /\ TypeOK /\ phase[t] = "running" /\ done' = [done EXCEPT ![t] = TRUE]
      /\ UNCHANGED <<id, streaming, reports>> /\ grokId' = Captured(t)
  BY DEF Result, FinalObject, cli, BaseInv
<1>2. PICK p \in {"over", "closed"} : phase' = [phase EXCEPT ![t] = p]
  BY DEF Result, FinalObject
<1>3. \A u \in Turns : phase'[u] = IF u = t THEN p ELSE phase[u]
  BY <1>1, <1>2 DEF TypeOK
<1>4. \A u \in Turns : phase[u] \in {"sent", "running"} => u = t
  BY <1>1, OneAtWork
<1>5. Count \in Nat /\ \A m \in 1..Count : author[m].turn \in Turns
  BY <1>1, CountIsLength DEF TypeOK, Author
<1>6. /\ Count' \in {Count, Count + 1}
      /\ Count' = Count + 1 => author'[Count'].turn = t
      /\ \A m \in 1..Count : author'[m] = author[m]
      /\ Recent \cup OwnMessages(t)' \subseteq known'[t] /\ id[t] \in Turns
      /\ stored'[id[t]] # None => known'[t] \subseteq stored'[id[t]]
  <2>1. CASE Result(t)
    <3>1. UNCHANGED <<author, known, stored>> /\ Count' = Count
      BY <2>1 DEF Result, Count
    <3>2. OwnMessages(t)' = OwnMessages(t)
      BY <3>1 DEF OwnMessages
    <3> QED BY <1>1, <1>5, <3>1, <3>2 DEF Informed
  <2>2. CASE FinalObject(t)
    BY <2>2, SaysStep
  <2> QED BY <2>1, <2>2
<1>7. Recent' \subseteq Recent \cup OwnMessages(t)'
  <2> SUFFICES ASSUME NEW m \in Recent', author'[m].turn # t PROVE m \in Recent
    BY DEF Recent, OwnMessages, History
  <2>1. m \in 1..Count' /\ m > Count' - HistoryMax /\ done'[author'[m].turn]
    BY DEF Recent, History
  <2>2. m \in 1..Count
    <3>1. CASE Count' = Count
      BY <2>1, <3>1
    <3>2. CASE Count' = Count + 1
      BY <1>5, <1>6, <2>1, <3>2
    <3> QED BY <1>6, <3>1, <3>2
  <2>3. done[author[m].turn]
    BY <1>1, <1>5, <1>6, <2>1, <2>2 DEF TypeOK
  <2>4. m > Count - HistoryMax
    <3>1. m \in Int /\ HistoryMax \in Int
      BY <2>2, ConversationAssumption
    <3>2. CASE Count' = Count
      BY <2>1, <3>2
    <3>3. CASE Count' = Count + 1
      BY <1>5, <2>1, <3>1, <3>3
    <3> QED BY <1>6, <3>2, <3>3
  <2> QED BY <2>2, <2>3, <2>4 DEF Recent, History
<1>8. GrokKnows'
  BY <1>1, <1>6, <1>7 DEF GrokKnows, Captured
<1>9. Orderly'
  BY <1>1, <1>3 DEF Orderly, TypeOK
<1>10. Prompted' /\ Informed'
  BY <1>3, <1>4 DEF Prompted, Informed
<1> QED BY <1>8, <1>9, <1>10

(* The steps that leave messages, verdicts and what CLIs know alone.       *)
LEMMA ContOther ==
  ASSUME ContInv,
         \/ Stop \/ Forget \/ UNCHANGED vars
         \/ \E t \in Turns : InitEvent(t) \/ Fails(t) \/ Finish(t) \/ Raise(t)
  PROVE  Orderly' /\ GrokKnows' /\ Prompted' /\ Informed'
<1> USE DEF ContInv
<1>1. TypeOK /\ UNCHANGED <<author, resume, prompt, known, id, done, reports>>
  BY DEF BaseInv, Stop, Forget, vars, record, turn, cli, InitEvent, Fails, Finish, Raise
<1>2. \A u \in Turns : phase'[u] # phase[u] =>
                         phase[u] # "unsent" /\ phase'[u] \in {"over", "closed"}
  BY <1>1 DEF TypeOK, Stop, Forget, vars, turn, InitEvent, Fails, Finish, Raise
<1>3. \A s \in Turns : stored'[s] \in {stored[s], None}
  BY <1>1 DEF TypeOK, Stop, Forget, vars, InitEvent, Fails, Finish, Raise
<1>4. /\ Count' = Count /\ Recent' = Recent /\ History(Count)' = History(Count)
      /\ \A t : OwnMessages(t)' = OwnMessages(t)
  BY <1>1 DEF Count, Recent, History, OwnMessages
<1>5. Orderly'
  BY <1>1, <1>2 DEF Orderly
<1>6. Informed'
  <2> SUFFICES ASSUME NEW t \in Turns, phase'[t] = "running"
               PROVE  /\ Recent' \cup OwnMessages(t)' \subseteq known'[t] /\ id'[t] \in Turns
                      /\ stored'[id'[t]] # None => known'[t] \subseteq stored'[id'[t]]
    BY DEF Informed
  <2>1. phase[t] = "running"
    BY <1>2
  <2> QED BY <1>1, <1>3, <1>4, <2>1 DEF Informed
<1>7. \/ grokId' = grokId
      \/ reports /\ \E t \in Turns : phase[t] = "running" /\ grokId' = id[t]
  BY DEF Stop, Forget, vars, record, InitEvent, Fails, Finish, Raise, Captured
<1>8. GrokKnows'
  <2>1. CASE grokId' = grokId
    <3>1. grokId # None => grokId \in Turns
      BY <1>1 DEF TypeOK
    <3> QED BY <1>1, <1>3, <1>4, <2>1, <3>1 DEF GrokKnows
  <2>2. ASSUME reports, NEW t \in Turns, phase[t] = "running", grokId' = id[t]
        PROVE  GrokKnows'
    BY <1>1, <1>3, <1>4, <2>2 DEF GrokKnows, Informed
  <2> QED BY <1>7, <2>1, <2>2
<1>9. Prompted'
  <2>1. ASSUME NEW t \in Turns, phase'[t] = "sent" PROVE phase[t] = "sent" /\ grokId' = grokId
    <3>1. phase[t] = "sent"
      BY <1>2, <2>1
    <3>2. \A u \in Turns : phase[u] # "running"
      BY <3>1, OneAtWork
    <3> QED BY <1>7, <3>1, <3>2
  <2> QED BY <1>1, <1>4, <2>1 DEF Prompted
<1> QED BY <1>5, <1>6, <1>8, <1>9

(* "Conversation continuity": a CLI that starts knows every message of a   *)
(* turn that ended well among the last HistoryMax, if turns do not overlap.*)
THEOREM ContinuityHolds ==
  ASSUME ~LateWorkers
  PROVE  Spec => []Continuity
<1> DEFINE Cont == Orderly /\ GrokKnows /\ Prompted /\ Informed
<1>1. Init => Cont
  BY ConversationAssumption DEF Init, Orderly, GrokKnows, Prompted, Informed
<1>2. ContInv /\ [Next]_vars => Cont'
  BY ContSend, ContStart, ContText, ContWell, ContOther DEF Next
<1>3. BaseInv /\ Cont <=> ContInv
  BY DEF ContInv
<1>4. ContInv => Continuity
  BY DEF ContInv, Informed, Recent, Continuity
<1> HIDE DEF Cont
<1> QED BY <1>1, <1>2, <1>3, <1>4, BaseInvariant, PTL DEF Spec
=============================================================================
