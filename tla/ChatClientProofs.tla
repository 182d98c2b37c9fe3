-------------------------- MODULE ChatClientProofs --------------------------
(* What a view of the chat shows, for any number of sessions and views, any *)
(* length of the bus and any number of calls in flight.                     *)
EXTENDS ChatClient, TLAPS

(***************************************************************************)
(* Calls in flight                                                         *)
(***************************************************************************)
LEMMA CallAdded ==
  ASSUME NEW q \in Seq(Rpc), NEW v \in Views, NEW kind \in Kinds, NEW s \in Sessions
  PROVE  LET p == Call(q, v, kind, s) IN
         /\ p \in Seq(Rpc) /\ Len(p) = Len(q) + 1
         /\ \A i \in 1..Len(q) : p[i] = q[i]
         /\ p[Len(q) + 1] = [by |-> v, kind |-> kind, of |-> s, served |-> FALSE,
                             upTo |-> 0, busy |-> FALSE]
<1>1. [by |-> v, kind |-> kind, of |-> s, served |-> FALSE, upTo |-> 0, busy |-> FALSE] \in Rpc
  BY BoundAssumption DEF Rpc
<1> QED BY <1>1 DEF Call

LEMMA CallRemoved ==
  ASSUME NEW q \in Seq(Rpc), NEW i \in 1..Len(q)
  PROVE  /\ RemoveAt(q, i) \in Seq(Rpc) /\ Len(RemoveAt(q, i)) = Len(q) - 1
         /\ \A j \in 1..Len(q) - 1 : RemoveAt(q, i)[j] = IF j < i THEN q[j] ELSE q[j + 1]
<1> DEFINE a == SubSeq(q, 1, i - 1)
           b == SubSeq(q, i + 1, Len(q))
<1>1. Len(q) \in Nat /\ i \in 1..Len(q)
  OBVIOUS
<1>2. /\ a \in Seq(Rpc) /\ Len(a) = i - 1
      /\ \A j \in 1..i - 1 : a[j] = q[j]
  BY <1>1
<1>3. /\ b \in Seq(Rpc) /\ Len(b) = Len(q) - i
      /\ \A j \in 1..Len(q) - i : b[j] = q[j + i]
  BY <1>1
<1>4. RemoveAt(q, i) = a \o b
  BY DEF RemoveAt
<1> HIDE DEF a, b
<1>5. a \o b \in Seq(Rpc) /\ Len(a \o b) = Len(q) - 1
  <2>1. a \o b \in Seq(Rpc) /\ Len(a \o b) = Len(a) + Len(b)
    <3>1. a \in Seq(Rpc) /\ b \in Seq(Rpc)
      BY <1>2, <1>3
    <3>2. a \o b \in Seq(Rpc)
      BY <3>1
    <3>3. Len(a \o b) = Len(a) + Len(b)
      BY <3>1
    <3> QED BY <3>2, <3>3
  <2>2. (i - 1) + (Len(q) - i) = Len(q) - 1
    BY <1>1
  <2> QED BY <1>2, <1>3, <2>1, <2>2
<1>6. \A j \in 1..Len(q) - 1 : (a \o b)[j] = IF j < i THEN q[j] ELSE q[j + 1]
  <2> TAKE j \in 1..Len(q) - 1
  <2>1. (a \o b)[j] = IF j <= Len(a) THEN a[j] ELSE b[j - Len(a)]
    BY <1>1, <1>2, <1>3
  <2>2. CASE j < i
    <3>1. j <= i - 1 /\ j \in 1..i - 1
      BY <1>1, <2>2
    <3> QED BY <1>2, <2>1, <2>2, <3>1
  <2>3. CASE j >= i
    <3>1. /\ j - (i - 1) \in 1..Len(q) - i /\ (j - (i - 1)) + i = j + 1
          /\ ~(j <= i - 1) /\ ~(j < i)
      BY <1>1, <2>3
    <3> QED BY <1>2, <1>3, <2>1, <3>1
  <2>4. j < i \/ j >= i
    BY <1>1
  <2> QED BY <2>2, <2>3, <2>4
<1> QED BY <1>4, <1>5, <1>6

(***************************************************************************)
(* Types and bounds                                                        *)
(***************************************************************************)
(* No event, answer or view is ahead of what was saved.                    *)
VerdictsInside == \A s \in Sessions : settled[s] <= saved[s]
EventsInside ==
  \A k \in DOMAIN bus : bus[k].kind = "message" => bus[k].change \in 1..saved[bus[k].of]
AnswersInside == \A i \in DOMAIN rpcs : rpcs[i].upTo <= saved[rpcs[i].of]
ViewsInside == \A v \in Views : \A p \in shown[v] : p[2] <= saved[p[1]]

BaseInv == TypeOK /\ VerdictsInside /\ EventsInside /\ AnswersInside /\ ViewsInside

(* The same of a queue p that is q with a call more or less.               *)
LEMMA QueueLonger ==
  ASSUME NEW q \in Seq(Rpc), NEW v \in Views, NEW kind \in Kinds, NEW s \in Sessions, NEW p,
         p = Call(q, v, kind, s)
  PROVE  /\ Len(q) \in Nat /\ DOMAIN q = 1..Len(q) /\ DOMAIN p = 1..Len(q) + 1
         /\ p \in Seq(Rpc) /\ \A i \in DOMAIN p : i \in DOMAIN q \/ i = Len(q) + 1
         /\ \A i \in 1..Len(q) : p[i] = q[i]
         /\ p[Len(q) + 1].by = v /\ p[Len(q) + 1].kind = kind
         /\ p[Len(q) + 1].of = s /\ ~p[Len(q) + 1].served
<1>1. /\ p \in Seq(Rpc) /\ Len(p) = Len(q) + 1 /\ Len(q) \in Nat
      /\ DOMAIN q = 1..Len(q) /\ DOMAIN p = 1..Len(p)
      /\ \A i \in 1..Len(q) : p[i] = q[i]
      /\ p[Len(q) + 1] = [by |-> v, kind |-> kind, of |-> s, served |-> FALSE,
                          upTo |-> 0, busy |-> FALSE]
  <2>1. p \in Seq(Rpc)
    BY CallAdded
  <2> QED BY <2>1, CallAdded
<1>2. \A i \in 1..Len(q) + 1 : i \in 1..Len(q) \/ i = Len(q) + 1
  BY <1>1
<1> QED BY <1>1, <1>2

LEMMA QueueShorter ==
  ASSUME NEW q \in Seq(Rpc), NEW i \in 1..Len(q), NEW p, p = RemoveAt(q, i)
  PROVE  /\ Len(q) \in Nat /\ DOMAIN q = 1..Len(q) /\ DOMAIN p = 1..Len(q) - 1
         /\ p \in Seq(Rpc)
         /\ \A j \in 1..Len(q) - 1 : /\ p[j] = (IF j < i THEN q[j] ELSE q[j + 1])
                                      /\ j \in 1..Len(q) /\ j + 1 \in 1..Len(q)
<1>1. p \in Seq(Rpc) /\ Len(p) = Len(q) - 1
  BY CallRemoved
<1>2. Len(q) \in Nat /\ DOMAIN q = 1..Len(q) /\ DOMAIN p = 1..Len(q) - 1
  BY <1>1
<1>3. \A j \in 1..Len(q) - 1 : j \in 1..Len(q) /\ j + 1 \in 1..Len(q)
  BY <1>2
<1> QED BY <1>1, <1>2, <1>3, CallRemoved

LEMMA QueueElements ==
  ASSUME TypeOK
  PROVE  /\ bus \in Seq(Event) /\ DOMAIN bus = 1..Len(bus) /\ Len(bus) \in Nat
         /\ \A k \in 1..Len(bus) : bus[k] \in Event /\ bus[k].of \in Sessions
         /\ rpcs \in Seq(Rpc) /\ DOMAIN rpcs = 1..Len(rpcs) /\ Len(rpcs) \in Nat
         /\ \A i \in 1..Len(rpcs) : /\ rpcs[i] \in Rpc /\ rpcs[i].by \in Views
                                    /\ rpcs[i].kind \in Kinds /\ rpcs[i].of \in Sessions
                                    /\ rpcs[i].served \in BOOLEAN /\ rpcs[i].busy \in BOOLEAN
                                    /\ rpcs[i].upTo \in 0..MaxChanges
<1>1. bus \in Seq(Event) /\ rpcs \in Seq(Rpc)
  BY DEF TypeOK
<1>2. /\ DOMAIN bus = 1..Len(bus) /\ Len(bus) \in Nat /\ \A k \in 1..Len(bus) : bus[k] \in Event
      /\ DOMAIN rpcs = 1..Len(rpcs) /\ Len(rpcs) \in Nat /\ \A i \in 1..Len(rpcs) : rpcs[i] \in Rpc
  BY <1>1
<1> QED BY <1>1, <1>2 DEF Event, Rpc

LEMMA BaseServer ==
  ASSUME BaseInv, NEW s \in Sessions,
         Started(s) \/ MessageChanges(s) \/ TurnDone(s) \/ TurnFails(s) \/ WorkerLost(s)
  PROVE  BaseInv'
<1> USE DEF BaseInv
<1>1. /\ UNCHANGED <<rpcs, handlers, mount, view>>
      /\ srv' \in [Sessions -> {"idle", "running"}] /\ worker' \in [Sessions -> BOOLEAN]
  BY DEF Started, MessageChanges, TurnDone, TurnFails, WorkerLost, server, TypeOK
<1>2. /\ \A x \in Sessions : /\ saved'[x] \in 0..MaxChanges /\ saved[x] \in 0..MaxChanges
                             /\ saved[x] <= saved'[x]
      /\ saved' \in [Sessions -> 0..MaxChanges]
  <2>1. saved \in [Sessions -> 0..MaxChanges]
    BY DEF TypeOK
  <2>2. CASE saved' = saved
    BY <2>1, <2>2, BoundAssumption
  <2>3. CASE saved[s] < MaxChanges /\ saved' = [saved EXCEPT ![s] = @ + 1]
    BY <2>1, <2>3, BoundAssumption
  <2> QED BY <2>2, <2>3 DEF Started, MessageChanges, TurnDone, TurnFails, WorkerLost, server
<1>3. /\ settled' \in [Sessions -> 0..MaxChanges]
      /\ VerdictsInside'
  <2>1. CASE TurnDone(s)
    BY <1>2, <2>1, BoundAssumption DEF TurnDone, TypeOK, VerdictsInside
  <2>2. CASE settled' = settled
    BY <1>2, <2>2, BoundAssumption DEF TypeOK, VerdictsInside
  <2> QED BY <2>1, <2>2 DEF Started, MessageChanges, TurnFails, WorkerLost, server
<1>4. \/ bus' = bus
      \/ \E e \in Event : /\ bus' = Append(bus, e)
                          /\ e.kind = "message" => e.change \in 1..saved'[e.of]
  <2>1. CASE MessageChanges(s)
    <3> DEFINE e == [of |-> s, kind |-> "message", change |-> saved[s] + 1]
    <3>1. bus' = Append(bus, e) /\ saved'[s] = saved[s] + 1
      BY <2>1 DEF MessageChanges, Emit, TypeOK
    <3>2. e \in Event /\ e.change \in 1..saved'[e.of]
      BY <1>2, <3>1, BoundAssumption DEF Event
    <3> QED BY <3>1, <3>2
  <2>2. CASE WorkerLost(s)
    BY <2>2 DEF WorkerLost
  <2>3. CASE Started(s) \/ TurnDone(s) \/ TurnFails(s)
    <3>1. PICK kind \in {"started", "done", "error"} : Emit(s, kind, 0)
      BY <2>3 DEF Started, TurnDone, TurnFails
    <3>2. [of |-> s, kind |-> kind, change |-> 0] \in Event
      BY BoundAssumption DEF Event
    <3> QED BY <3>1, <3>2 DEF Emit
  <2> QED BY <2>1, <2>2, <2>3
<1>5. bus' \in Seq(Event) /\ EventsInside'
  <2>1. /\ bus \in Seq(Event) /\ \A k \in 1..Len(bus) : bus[k] \in Event
        /\ \A k \in 1..Len(bus) : bus[k].kind = "message" => bus[k].change \in 1..saved'[bus[k].of]
    <3>1. bus \in Seq(Event) /\ \A k \in 1..Len(bus) : bus[k] \in Event /\ bus[k].of \in Sessions
      BY QueueElements
    <3> QED BY <1>2, <3>1, BoundAssumption DEF EventsInside
  <2>2. CASE bus' = bus
    BY <2>1, <2>2 DEF EventsInside
  <2>3. ASSUME NEW e \in Event, bus' = Append(bus, e),
               e.kind = "message" => e.change \in 1..saved'[e.of]
        PROVE  bus' \in Seq(Event) /\ EventsInside'
    <3>1. bus' \in Seq(Event) /\ Len(bus') = Len(bus) + 1 /\ bus'[Len(bus) + 1] = e
          /\ \A k \in 1..Len(bus) : bus'[k] = bus[k]
      BY <2>1, <2>3
    <3>2. \A k \in DOMAIN bus' : k \in 1..Len(bus) \/ k = Len(bus) + 1
      BY <2>1, <3>1
    <3> QED BY <2>1, <2>3, <3>1, <3>2 DEF EventsInside
  <2> QED BY <1>4, <2>2, <2>3
<1>6. AnswersInside'
  <2>1. \A i \in DOMAIN rpcs : rpcs[i].of \in Sessions /\ rpcs[i].upTo \in 0..MaxChanges
    BY QueueElements
  <2> QED BY <1>1, <1>2, <2>1, BoundAssumption DEF AnswersInside
<1>7. ViewsInside'
  <2>1. \A v \in Views : \A p \in shown[v] : p[1] \in Sessions /\ p[2] \in Changes
    BY DEF TypeOK
  <2>2. shown' = shown
    BY <1>1 DEF view
  <2> QED BY <1>2, <2>1, <2>2, BoundAssumption DEF ViewsInside, Changes
<1>8. TypeOK'
  BY <1>1, <1>2, <1>3, <1>5 DEF TypeOK, view
<1> QED BY <1>3, <1>5, <1>6, <1>7, <1>8

(* Calls whose answers are within what is saved.                           *)
Inside(q) == q \in Seq(Rpc) /\ \A i \in DOMAIN q : q[i].upTo <= saved[q[i].of]

LEMMA CallInside ==
  ASSUME TypeOK, NEW q, Inside(q), NEW v \in Views, NEW kind \in Kinds, NEW s \in Sessions
  PROVE  Inside(Call(q, v, kind, s))
<1> DEFINE p == Call(q, v, kind, s)
<1>1. /\ q \in Seq(Rpc) /\ Len(q) \in Nat /\ DOMAIN q = 1..Len(q)
  BY DEF Inside
<1>2. /\ p \in Seq(Rpc) /\ Len(p) = Len(q) + 1 /\ \A i \in 1..Len(q) : p[i] = q[i]
      /\ p[Len(q) + 1] = [by |-> v, kind |-> kind, of |-> s, served |-> FALSE,
                          upTo |-> 0, busy |-> FALSE]
  BY <1>1, CallAdded
<1> HIDE DEF p
<1>3. DOMAIN p = 1..Len(q) + 1
  BY <1>2
<1>4. saved[s] \in 0..MaxChanges
  BY DEF TypeOK
<1>5. \A i \in DOMAIN p : p[i].upTo <= saved[p[i].of]
  <2> TAKE i \in DOMAIN p
  <2>1. i \in 1..Len(q) \/ i = Len(q) + 1
    BY <1>1, <1>3
  <2> QED BY <1>1, <1>2, <1>4, <2>1, BoundAssumption DEF Inside
<1>6. Inside(p)
  BY <1>2, <1>5 DEF Inside
<1> QED BY <1>6 DEF p

LEMMA RestInside ==
  ASSUME NEW q, Inside(q), NEW i \in 1..Len(q)
  PROVE  Inside(RemoveAt(q, i))
<1>1. /\ q \in Seq(Rpc) /\ Len(q) \in Nat /\ DOMAIN q = 1..Len(q) /\ i \in 1..Len(q)
  BY DEF Inside
<1>2. /\ RemoveAt(q, i) \in Seq(Rpc) /\ Len(RemoveAt(q, i)) = Len(q) - 1
      /\ \A j \in 1..Len(q) - 1 : RemoveAt(q, i)[j] \in {q[j], q[j + 1]}
  BY <1>1, CallRemoved
<1>3. \A j \in 1..Len(q) - 1 : j \in 1..Len(q) /\ j + 1 \in 1..Len(q)
  BY <1>1
<1>4. DOMAIN RemoveAt(q, i) = 1..Len(q) - 1
  BY <1>2
<1> QED BY <1>1, <1>2, <1>3, <1>4 DEF Inside

LEMMA CallsInside ==
  ASSUME BaseInv
  PROVE  Inside(rpcs)
BY DEF BaseInv, TypeOK, AnswersInside, Inside

(* What _openSession does to the handlers.                                 *)
LEMMA OpenSessionEffect ==
  ASSUME TypeOK, NEW v \in Views, NEW s \in Sessions, NEW q, OpenSession(v, s, q)
  PROVE  /\ handlers' \in [Sessions -> Views \cup {None}] /\ cur' \in [Views -> Sessions \cup {None}]
         /\ \A w \in Views : cur'[w] = IF w = v THEN s ELSE cur[w]
         /\ \A x \in Sessions : handlers'[x] = IF x = s THEN v
                                                ELSE IF x = cur[v] THEN None ELSE handlers[x]
         /\ rpcs' = Call(q, v, "open", s)
<1>1. Unregister(handlers, cur[v]) \in [Sessions -> Views \cup {None}]
  BY DEF TypeOK, Unregister
<1>2. \A x \in Sessions : Unregister(handlers, cur[v])[x] = IF x = cur[v] THEN None ELSE handlers[x]
  BY NoneAssumption DEF TypeOK, Unregister
<1> QED BY <1>1, <1>2 DEF OpenSession, TypeOK

(* A step that leaves the server, the bus and the messages alone.          *)
LEMMA BaseElsewhere ==
  ASSUME BaseInv, UNCHANGED <<server, bus, shown>>, Inside(rpcs'),
         handlers' \in [Sessions -> Views \cup {None}],
         mount' \in [Views -> {"none", "starting", "ready", "mounted", "gone"}],
         cur' \in [Views -> Sessions \cup {None}], running' \in [Views -> BOOLEAN],
         artifact' \in [Views -> Sessions \cup {None}]
  PROVE  BaseInv'
<1>1. TypeOK'
  BY DEF BaseInv, TypeOK, server, Inside
<1> QED BY <1>1 DEF BaseInv, server, Inside, VerdictsInside, EventsInside, AnswersInside, ViewsInside

LEMMA BaseUser ==
  ASSUME BaseInv, UserNext
  PROVE  BaseInv'
<1>1. PICK v \in Views :
        \/ Start(v) \/ Mount(v) \/ Unmount(v) \/ OnSend(v) \/ OnStop(v)
        \/ \E s \in Sessions : ClickSession(v, s) \/ ClickNew(v, s)
  BY DEF UserNext
<1>2. TypeOK /\ Inside(rpcs)
  BY CallsInside DEF BaseInv
<1>3. ASSUME NEW s \in Sessions, ClickSession(v, s) PROVE BaseInv'
  <2>1. OpenSession(v, s, rpcs) /\ UNCHANGED <<server, bus, mount, running, shown, artifact>>
    BY <1>3 DEF ClickSession
  <2>2. "open" \in Kinds
    BY DEF Kinds
  <2>3. /\ handlers' \in [Sessions -> Views \cup {None}] /\ cur' \in [Views -> Sessions \cup {None}]
        /\ rpcs' = Call(rpcs, v, "open", s)
    BY <1>2, <2>1, OpenSessionEffect
  <2>4. Inside(rpcs')
    BY <1>2, <2>2, <2>3, CallInside
  <2> QED BY <1>2, <2>1, <2>3, <2>4, BaseElsewhere DEF TypeOK
<1>4. CASE Mount(v) \/ Unmount(v)
  <2>1. UNCHANGED <<server, bus, rpcs, cur, running, shown, artifact>>
    BY <1>4 DEF Mount, Unmount, view
  <2>2. /\ handlers' \in [Sessions -> Views \cup {None}]
        /\ mount' \in [Views -> {"none", "starting", "ready", "mounted", "gone"}]
    <3>1. CASE Mount(v)
      BY <1>2, <3>1 DEF Mount, TypeOK
    <3>2. CASE Unmount(v)
      BY <1>2, <3>2 DEF Unmount, Unregister, TypeOK
    <3> QED BY <1>4, <3>1, <3>2
  <2> QED BY <1>2, <2>1, <2>2, BaseElsewhere DEF TypeOK
<1>5. CASE Start(v) \/ OnSend(v) \/ OnStop(v) \/ \E s \in Sessions : ClickNew(v, s)
  <2>1. UNCHANGED <<server, bus, handlers, cur, shown, artifact>>
    BY <1>5 DEF Start, OnSend, OnStop, ClickNew, view
  <2>2. \E kind \in Kinds, s \in Sessions : rpcs' = Call(rpcs, v, kind, s)
    BY <1>2, <1>5 DEF Start, OnSend, OnStop, ClickNew, TypeOK, Kinds
  <2>3. Inside(rpcs')
    BY <1>2, <2>2, CallInside
  <2>4. /\ mount' \in [Views -> {"none", "starting", "ready", "mounted", "gone"}]
        /\ running' \in [Views -> BOOLEAN]
    BY <1>2, <1>5 DEF Start, OnSend, OnStop, ClickNew, view, TypeOK
  <2> QED BY <1>2, <2>1, <2>3, <2>4, BaseElsewhere DEF TypeOK
<1> QED BY <1>1, <1>3, <1>4, <1>5

LEMMA BaseDeliver ==
  ASSUME BaseInv, Deliver
  PROVE  BaseInv'
<1> DEFINE e == Head(bus)
           v == handlers[e.of]
<1>1. TypeOK /\ Inside(rpcs)
  BY CallsInside DEF BaseInv
<1>2. /\ bus \in Seq(Event) /\ Len(bus) \in Nat /\ DOMAIN bus = 1..Len(bus) /\ bus # <<>>
      /\ bus' = Tail(bus) /\ e = bus[1] /\ 1 \in 1..Len(bus)
      /\ \A k \in 1..Len(bus) : bus[k] \in Event /\ bus[k].of \in Sessions
  BY <1>1, QueueElements DEF Deliver
<1>3. UNCHANGED <<srv, worker, saved, settled, handlers, mount, cur>>
  BY DEF Deliver, server
<1>4. bus' \in Seq(Event) /\ EventsInside'
  <2>1. /\ bus' \in Seq(Event) /\ Len(bus') = Len(bus) - 1
        /\ \A k \in 1..Len(bus) - 1 : bus'[k] = bus[k + 1]
    BY <1>2
  <2>2. \A k \in DOMAIN bus' : k + 1 \in DOMAIN bus /\ bus'[k] = bus[k + 1]
    BY <1>2, <2>1
  <2> QED BY <1>3, <2>1, <2>2 DEF BaseInv, EventsInside
<1>5. /\ e \in Event /\ e.of \in Sessions /\ v \in Views \cup {None}
      /\ e.kind = "message" => e.change \in 1..saved[e.of] /\ <<e.of, e.change>> \in Sessions \X Changes
  <2>1. saved[e.of] \in 0..MaxChanges
    BY <1>1, <1>2 DEF TypeOK
  <2>2. e.kind = "message" => e.change \in 1..saved[e.of]
    BY <1>2 DEF BaseInv, EventsInside
  <2>3. e \in Event /\ e.of \in Sessions /\ v \in Views \cup {None}
    BY <1>1, <1>2 DEF TypeOK
  <2> QED BY <2>1, <2>2, <2>3, BoundAssumption DEF Changes
<1> HIDE DEF e, v
<1>6. CASE v = None
  <2>1. UNCHANGED <<rpcs, running, shown, artifact>>
    BY <1>6 DEF Deliver, e, v
  <2> QED BY <1>1, <1>3, <1>4, <2>1
          DEF BaseInv, TypeOK, VerdictsInside, AnswersInside, ViewsInside
<1>7. CASE v # None
  <2>1. OnBusEvent(v, e) /\ v \in Views
    BY <1>5, <1>7 DEF Deliver, e, v
  <2>2. Inside(rpcs')
    <3>1. CASE rpcs' = rpcs
      BY <1>1, <3>1
    <3>2. CASE cur[v] # None /\ rpcs' = Call(rpcs, v, "reload", cur[v])
      <4>1. cur[v] \in Sessions /\ "reload" \in Kinds
        BY <1>1, <2>1, <3>2 DEF TypeOK, Kinds
      <4> QED BY <1>1, <2>1, <3>2, <4>1, CallInside
    <3> QED BY <2>1, <3>1, <3>2 DEF OnBusEvent
  <2>3. AnswersInside' /\ rpcs' \in Seq(Rpc)
    BY <1>3, <2>2 DEF Inside, AnswersInside
  <2>4. /\ shown' \in [Views -> SUBSET (Sessions \X Changes)]
        /\ running' \in [Views -> BOOLEAN] /\ artifact' \in [Views -> Sessions \cup {None}]
    BY <1>1, <1>5, <2>1 DEF OnBusEvent, TypeOK
  <2>5. ViewsInside'
    <3> SUFFICES ASSUME NEW w \in Views, NEW p \in shown'[w] PROVE p[2] <= saved[p[1]]
      BY <1>3 DEF ViewsInside
    <3>1. p \in shown[w] \/ (e.kind = "message" /\ p = <<e.of, e.change>>)
      BY <1>1, <2>1 DEF OnBusEvent, TypeOK
    <3>2. saved[e.of] \in 0..MaxChanges
      BY <1>1, <1>5 DEF TypeOK
    <3> QED BY <1>5, <3>1, <3>2, BoundAssumption DEF BaseInv, ViewsInside
  <2> QED BY <1>1, <1>3, <1>4, <2>3, <2>4, <2>5 DEF BaseInv, TypeOK, VerdictsInside
<1> QED BY <1>6, <1>7

(* What Serve writes into its call, and what it leaves in the others.      *)
LEMMA ServeEffect ==
  ASSUME TypeOK, NEW i \in DOMAIN rpcs, Serve(i)
  PROVE  /\ ~rpcs[i].served /\ UNCHANGED <<settled, bus, handlers, mount, view>>
         /\ rpcs' \in Seq(Rpc) /\ Len(rpcs') = Len(rpcs)
         /\ \A j \in 1..Len(rpcs) : j # i => rpcs'[j] = rpcs[j]
         /\ \A j \in 1..Len(rpcs) : /\ rpcs'[j].by = rpcs[j].by /\ rpcs'[j].kind = rpcs[j].kind
                                   /\ rpcs'[j].of = rpcs[j].of
         /\ rpcs'[i].served /\ rpcs'[i].upTo = saved[rpcs[i].of]
         /\ saved' \in [Sessions -> 0..MaxChanges] /\ worker' \in [Sessions -> BOOLEAN]
         /\ srv' \in [Sessions -> {"idle", "running"}]
         /\ \A x \in Sessions : saved'[x] \in {saved[x], saved[x] + 1}
<1> DEFINE s == rpcs[i].of
           accepted == rpcs[i].kind = "send" /\ srv[s] = "idle" /\ saved[s] < MaxChanges
           busy == IF rpcs[i].kind = "send" THEN accepted ELSE srv[s] = "running"
           reply == [rpcs[i] EXCEPT !.served = TRUE, !.upTo = saved[s], !.busy = busy]
<1>1. /\ rpcs \in Seq(Rpc) /\ Len(rpcs) \in Nat /\ i \in 1..Len(rpcs)
      /\ s \in Sessions /\ rpcs[i] \in Rpc
  BY QueueElements
<1>2. /\ saved \in [Sessions -> 0..MaxChanges] /\ saved[s] \in 0..MaxChanges
      /\ worker \in [Sessions -> BOOLEAN] /\ srv \in [Sessions -> {"idle", "running"}]
  BY <1>1 DEF TypeOK
<1>3. /\ saved' = IF accepted THEN [saved EXCEPT ![s] = @ + 1] ELSE saved
      /\ worker' = IF accepted THEN [worker EXCEPT ![s] = TRUE] ELSE worker
      /\ srv' = IF accepted THEN [srv EXCEPT ![s] = "running"]
                ELSE IF rpcs[i].kind = "stop" THEN [srv EXCEPT ![s] = "idle"] ELSE srv
      /\ rpcs' = [rpcs EXCEPT ![i] = reply]
      /\ ~rpcs[i].served /\ UNCHANGED <<settled, bus, handlers, mount, view>>
  BY DEF Serve
<1>4. accepted \in BOOLEAN /\ (accepted => saved[s] < MaxChanges)
  OBVIOUS
<1>5. busy \in BOOLEAN
  BY <1>4
<1> HIDE DEF accepted, busy
<1>6. /\ reply \in Rpc /\ reply.by = rpcs[i].by /\ reply.kind = rpcs[i].kind /\ reply.of = rpcs[i].of
      /\ reply.served /\ reply.upTo = saved[s]
  BY <1>1, <1>2, <1>5 DEF Rpc
<1> HIDE DEF reply
<1>7. /\ rpcs' \in Seq(Rpc) /\ Len(rpcs') = Len(rpcs) /\ rpcs'[i] = reply
      /\ \A j \in 1..Len(rpcs) : j # i => rpcs'[j] = rpcs[j]
  BY <1>1, <1>3, <1>6
<1>8. /\ worker' \in [Sessions -> BOOLEAN] /\ srv' \in [Sessions -> {"idle", "running"}]
  BY <1>1, <1>2, <1>3
<1>9. saved' \in [Sessions -> 0..MaxChanges] /\ \A x \in Sessions : saved'[x] \in {saved[x], saved[x] + 1}
  BY <1>1, <1>2, <1>3, <1>4, BoundAssumption
<1> QED BY <1>3, <1>6, <1>7, <1>8, <1>9

LEMMA BaseServe ==
  ASSUME BaseInv, NEW i \in DOMAIN rpcs, Serve(i)
  PROVE  BaseInv'
<1>1. /\ TypeOK /\ UNCHANGED <<settled, bus, handlers, mount, cur, running, shown, artifact>>
      /\ Len(rpcs) \in Nat /\ i \in 1..Len(rpcs)
  BY QueueElements, ServeEffect DEF BaseInv, view
<1>2. /\ \A x \in Sessions : saved[x] \in 0..MaxChanges /\ saved'[x] \in 0..MaxChanges
                             /\ saved[x] <= saved'[x]
      /\ saved' \in [Sessions -> 0..MaxChanges]
  <2>1. /\ saved \in [Sessions -> 0..MaxChanges] /\ saved' \in [Sessions -> 0..MaxChanges]
        /\ \A x \in Sessions : saved'[x] \in {saved[x], saved[x] + 1}
    BY <1>1, ServeEffect DEF TypeOK
  <2> QED BY <2>1, BoundAssumption
<1>3. VerdictsInside'
  BY <1>1, <1>2, BoundAssumption DEF BaseInv, VerdictsInside, TypeOK
<1>4. EventsInside'
  <2>1. \A k \in DOMAIN bus : bus[k].of \in Sessions
    BY <1>1, QueueElements
  <2> QED BY <1>1, <1>2, <2>1, BoundAssumption DEF BaseInv, EventsInside
<1>5. AnswersInside'
  <2>1. /\ DOMAIN rpcs = 1..Len(rpcs) /\ DOMAIN rpcs' = 1..Len(rpcs)
        /\ \A j \in 1..Len(rpcs) : rpcs[j].of \in Sessions /\ rpcs[j].upTo \in 0..MaxChanges
    BY <1>1, QueueElements, ServeEffect
  <2> SUFFICES ASSUME NEW j \in 1..Len(rpcs) PROVE rpcs'[j].upTo <= saved'[rpcs'[j].of]
    BY <2>1 DEF AnswersInside
  <2>2. CASE j = i
    BY <1>1, <1>2, <2>1, <2>2, ServeEffect
  <2>3. CASE j # i
    <3>1. rpcs'[j] = rpcs[j]
      BY <1>1, <2>3, ServeEffect
    <3>2. rpcs[j].upTo <= saved[rpcs[j].of]
      BY <2>1 DEF BaseInv, AnswersInside
    <3> QED BY <1>2, <2>1, <3>1, <3>2, BoundAssumption
  <2> QED BY <2>2, <2>3
<1>6. ViewsInside'
  <2>1. \A v \in Views : \A p \in shown[v] : p[1] \in Sessions /\ p[2] \in Changes
    BY <1>1 DEF TypeOK
  <2> QED BY <1>1, <1>2, <2>1, BoundAssumption DEF BaseInv, ViewsInside, Changes
<1>7. TypeOK'
  BY <1>1, <1>2, ServeEffect DEF TypeOK
<1> QED BY <1>3, <1>4, <1>5, <1>6, <1>7 DEF BaseInv

LEMMA BaseReply ==
  ASSUME BaseInv, NEW i \in DOMAIN rpcs, Reply(i)
  PROVE  BaseInv'
<1> DEFINE r == rpcs[i]
           v == r.by
           rest == RemoveAt(rpcs, i)
<1>1. /\ TypeOK /\ Len(rpcs) \in Nat /\ i \in 1..Len(rpcs)
      /\ v \in Views /\ r.of \in Sessions /\ r.upTo \in 0..MaxChanges /\ r.busy \in BOOLEAN
      /\ r.upTo <= saved[r.of]
  BY QueueElements DEF BaseInv, AnswersInside
<1>2. Inside(rest)
  BY <1>1, CallsInside, RestInside
<1>3. UNCHANGED <<srv, worker, saved, settled, bus>>
  BY DEF Reply, server
<1> HIDE DEF rest
<1>4. CASE r.kind = "pick"
  <2>1. OpenSession(v, r.of, rest) /\ UNCHANGED <<mount, running, shown, artifact>>
    BY <1>4 DEF Reply, rest
  <2>2. "open" \in Kinds
    BY DEF Kinds
  <2>3. /\ handlers' \in [Sessions -> Views \cup {None}] /\ cur' \in [Views -> Sessions \cup {None}]
        /\ rpcs' = Call(rest, v, "open", r.of)
    BY <1>1, <2>1, OpenSessionEffect
  <2>4. Inside(rpcs')
    BY <1>1, <1>2, <2>2, <2>3, CallInside
  <2> QED BY <1>1, <1>3, <2>1, <2>3, <2>4, BaseElsewhere DEF TypeOK, server
<1>5. CASE r.kind # "pick"
  <2>1. /\ rpcs' = rest /\ UNCHANGED <<handlers, cur>>
        /\ shown' \in {shown, [shown EXCEPT ![v] = Snapshot(r)]}
    BY <1>5 DEF Reply, rest
  <2>2. /\ running' \in [Views -> BOOLEAN]
        /\ mount' \in [Views -> {"none", "starting", "ready", "mounted", "gone"}]
    <3>1. /\ \/ running' \in {running, [running EXCEPT ![v] = FALSE]}
             \/ running' = [running EXCEPT ![v] = r.busy]
          /\ mount' \in {mount, [mount EXCEPT ![v] = "ready"]}
      BY <1>5 DEF Reply
    <3>2. /\ running \in [Views -> BOOLEAN]
          /\ mount \in [Views -> {"none", "starting", "ready", "mounted", "gone"}]
      BY <1>1 DEF TypeOK
    <3> HIDE DEF r, v
    <3>3. running' \in [Views -> BOOLEAN]
      BY <1>1, <3>1, <3>2
    <3>4. mount' \in [Views -> {"none", "starting", "ready", "mounted", "gone"}]
      BY <3>1, <3>2
    <3> QED BY <3>3, <3>4
  <2>3. artifact' \in [Views -> Sessions \cup {None}]
    BY <1>1, <1>5 DEF Reply, LatestArtifact, TypeOK
  <2>4. Snapshot(r) \subseteq Sessions \X Changes
    BY <1>1, BoundAssumption DEF Snapshot, Changes
  <2>5. shown' \in [Views -> SUBSET (Sessions \X Changes)]
    BY <1>1, <2>1, <2>4 DEF TypeOK
  <2>6. ViewsInside'
    <3>1. \A p \in Snapshot(r) : p[2] <= saved[p[1]]
      <4>1. saved[r.of] \in 0..MaxChanges
        BY <1>1 DEF TypeOK
      <4> QED BY <1>1, <4>1, BoundAssumption DEF Snapshot
    <3>2. \A w \in Views : shown'[w] \in {shown[w], Snapshot(r)}
      BY <1>1, <2>1 DEF TypeOK
    <3> QED BY <1>3, <3>1, <3>2 DEF BaseInv, ViewsInside
  <2>7. rpcs' \in Seq(Rpc) /\ AnswersInside'
    BY <1>2, <1>3, <2>1 DEF Inside, AnswersInside
  <2> QED BY <1>1, <1>3, <2>1, <2>2, <2>3, <2>5, <2>6, <2>7
          DEF BaseInv, TypeOK, VerdictsInside, EventsInside
<1> QED BY <1>4, <1>5

LEMMA BaseInvariant == Spec => []BaseInv
<1>1. Init => BaseInv
  BY BoundAssumption DEF Init, BaseInv, TypeOK, VerdictsInside, EventsInside, AnswersInside, ViewsInside
<1>2. BaseInv /\ [Next]_vars => BaseInv'
  <2> SUFFICES ASSUME BaseInv, [Next]_vars PROVE BaseInv'
    OBVIOUS
  <2>1. CASE UNCHANGED vars
    BY <2>1 DEF vars, server, view, BaseInv, TypeOK, VerdictsInside, EventsInside, AnswersInside,
      ViewsInside
  <2> QED BY <2>1, BaseServer, BaseUser, BaseDeliver, BaseServe, BaseReply DEF Next, ServerNext
<1> QED BY <1>1, <1>2, PTL DEF Spec

(* Types of the server, the calls and the views.                           *)
THEOREM TypeCorrect == Spec => []TypeOK
<1>1. BaseInv => TypeOK
  BY DEF BaseInv
<1> QED BY <1>1, BaseInvariant, PTL

(***************************************************************************)
(* Who is told                                                             *)
(***************************************************************************)
(* A handler is registered for the session its view has open.              *)
Registered == \A v \in Views, s \in Sessions : handlers[s] = v => cur[v] = s

(* A view that was not started asks for nothing.                           *)
Unstarted ==
  \A v \in Views : mount[v] = "none" => cur[v] = None /\ \A i \in DOMAIN rpcs : rpcs[i].by # v

KeptAlone ==
  \A v \in Views : Alone(v) /\ mount[v] # "gone" /\ cur[v] # None => handlers[cur[v]] = v

ToldInv == TypeOK /\ Registered /\ Unstarted /\ KeptAlone

(* Steps in which no handler changes and no call comes from a view that     *)
(* was not started.                                                        *)
LEMMA ToldKept ==
  ASSUME ToldInv, UNCHANGED <<handlers, cur>>,
         \A w \in Views : mount[w] # "none" => mount'[w] # "none",
         \A w \in Views : mount'[w] # "gone" => mount[w] # "gone",
         \A i \in DOMAIN rpcs' : \/ \E j \in DOMAIN rpcs : rpcs'[i].by = rpcs[j].by
                                 \/ rpcs'[i].by \in Views /\ mount'[rpcs'[i].by] # "none"
  PROVE  Registered' /\ Unstarted' /\ KeptAlone'
BY DEF ToldInv, Registered, Unstarted, KeptAlone, Alone

LEMMA ToldOpen ==
  ASSUME ToldInv, NEW v \in Views, NEW s \in Sessions, NEW q, OpenSession(v, s, q),
         q \in Seq(Rpc), \A i \in DOMAIN q : \E j \in DOMAIN rpcs : q[i].by = rpcs[j].by,
         mount[v] # "none", mount' = mount
  PROVE  Registered' /\ Unstarted' /\ KeptAlone'
<1>1. /\ \A w \in Views : cur'[w] = IF w = v THEN s ELSE cur[w]
      /\ \A x \in Sessions : handlers'[x] = IF x = s THEN v
                                             ELSE IF x = cur[v] THEN None ELSE handlers[x]
      /\ rpcs' = Call(q, v, "open", s)
  BY OpenSessionEffect DEF ToldInv
<1>2. Registered'
  BY <1>1, NoneAssumption DEF ToldInv, Registered
<1>3. KeptAlone'
  <2> SUFFICES ASSUME NEW w \in Views, Alone(w)', mount'[w] # "gone", cur'[w] # None
               PROVE  handlers'[cur'[w]] = w
    BY DEF KeptAlone
  <2>1. w = v
    BY DEF Alone
  <2> QED BY <1>1, <2>1
<1>4. Unstarted'
  <2>1. /\ Len(q) \in Nat /\ DOMAIN q = 1..Len(q) /\ DOMAIN rpcs' = 1..Len(q) + 1
        /\ \A i \in 1..Len(q) : rpcs'[i] = q[i]
        /\ rpcs'[Len(q) + 1].by = v
        /\ \A i \in DOMAIN rpcs' : i \in DOMAIN q \/ i = Len(q) + 1
    <3>1. "open" \in Kinds
      BY DEF Kinds
    <3>2. \A p : p = Call(q, v, "open", s) =>
            /\ Len(q) \in Nat /\ DOMAIN q = 1..Len(q) /\ DOMAIN p = 1..Len(q) + 1
            /\ \A i \in 1..Len(q) : p[i] = q[i]
            /\ p[Len(q) + 1].by = v
            /\ \A i \in DOMAIN p : i \in DOMAIN q \/ i = Len(q) + 1
      BY <3>1, QueueLonger
    <3> QED BY <1>1, <3>2
  <2> QED BY <1>1, <2>1 DEF ToldInv, Unstarted
<1> QED BY <1>2, <1>3, <1>4

LEMMA ToldUser ==
  ASSUME ToldInv, UserNext
  PROVE  Registered' /\ Unstarted' /\ KeptAlone'
<1> USE DEF ToldInv
<1>1. PICK v \in Views :
        \/ Start(v) \/ Mount(v) \/ Unmount(v) \/ OnSend(v) \/ OnStop(v)
        \/ \E s \in Sessions : ClickSession(v, s) \/ ClickNew(v, s)
  BY DEF UserNext
<1>2. TypeOK /\ rpcs \in Seq(Rpc)
  BY DEF TypeOK
<1>3. ASSUME NEW s \in Sessions, ClickSession(v, s)
      PROVE  Registered' /\ Unstarted' /\ KeptAlone'
  BY <1>2, <1>3, ToldOpen DEF ClickSession, UserMay
<1>4. CASE Mount(v)
  <2>1. /\ mount[v] = "ready" /\ UNCHANGED <<rpcs, cur>>
        /\ \A w \in Views : mount'[w] = IF w = v THEN "mounted"
                                         ELSE IF mount[w] = "mounted" THEN "gone" ELSE mount[w]
        /\ \A x \in Sessions : \/ handlers'[x] = handlers[x]
                                \/ /\ handlers'[x] = None
                                   /\ \E w \in Views : mount[w] = "mounted" /\ cur[w] = x
    BY <1>2, <1>4 DEF Mount, view, TypeOK
  <2>2. Registered' /\ Unstarted'
    BY <2>1, NoneAssumption DEF Registered, Unstarted
  <2>3. KeptAlone'
    <3> SUFFICES ASSUME NEW w \in Views, Alone(w)', mount'[w] # "gone", cur'[w] # None
                 PROVE  handlers'[cur'[w]] = w
      BY DEF KeptAlone
    <3>1. w = v /\ Alone(w) /\ \A u \in Views : mount[u] # "mounted"
      BY <2>1 DEF Alone
    <3>2. cur[w] \in Sessions
      BY <1>2, <2>1 DEF TypeOK
    <3> QED BY <2>1, <3>1, <3>2 DEF KeptAlone
  <2> QED BY <2>2, <2>3
<1>5. CASE Unmount(v)
  <2>1. /\ mount[v] = "mounted" /\ UNCHANGED <<rpcs, cur>>
        /\ \A w \in Views : mount'[w] = IF w = v THEN "gone" ELSE mount[w]
        /\ \A x \in Sessions : handlers'[x] \in {handlers[x], None}
    BY <1>2, <1>5 DEF Unmount, Unregister, view, TypeOK
  <2>2. Registered' /\ Unstarted'
    BY <2>1, NoneAssumption DEF Registered, Unstarted
  <2>3. \A w \in Views : Alone(w)' /\ mount'[w] # "gone" => FALSE
    BY <2>1 DEF Alone
  <2> QED BY <2>2, <2>3 DEF KeptAlone
<1>6. CASE Start(v) \/ OnSend(v) \/ OnStop(v) \/ \E s \in Sessions : ClickNew(v, s)
  <2>1. UNCHANGED <<handlers, cur>>
    BY <1>6 DEF Start, OnSend, OnStop, ClickNew, view
  <2>2. PICK kind \in Kinds, s \in Sessions : rpcs' = Call(rpcs, v, kind, s)
    BY <1>2, <1>6 DEF Start, OnSend, OnStop, ClickNew, TypeOK, Kinds
  <2>3. /\ mount'[v] # "none" /\ \A w \in Views : w # v => mount'[w] = mount[w]
        /\ mount'[v] # "gone" /\ mount[v] # "gone"
    BY <1>2, <1>6 DEF Start, OnSend, OnStop, ClickNew, UserMay, TypeOK
  <2>4. /\ Len(rpcs) \in Nat /\ DOMAIN rpcs = 1..Len(rpcs) /\ DOMAIN rpcs' = 1..Len(rpcs) + 1
        /\ \A i \in 1..Len(rpcs) : rpcs'[i] = rpcs[i]
        /\ rpcs'[Len(rpcs) + 1].by = v
        /\ \A i \in DOMAIN rpcs' : i \in DOMAIN rpcs \/ i = Len(rpcs) + 1
    BY <1>2, <2>2, QueueLonger
  <2> QED BY <2>1, <2>3, <2>4, ToldKept
<1> QED BY <1>1, <1>3, <1>4, <1>5, <1>6

LEMMA ToldDeliver ==
  ASSUME ToldInv, Deliver
  PROVE  Registered' /\ Unstarted' /\ KeptAlone'
<1> USE DEF ToldInv
<1> DEFINE s == Head(bus).of
           v == handlers[s]
<1>1. TypeOK /\ s \in Sessions /\ rpcs \in Seq(Rpc) /\ v \in Views \cup {None}
  <2>1. /\ bus \in Seq(Event) /\ Len(bus) \in Nat /\ bus # <<>> /\ rpcs \in Seq(Rpc)
        /\ \A k \in 1..Len(bus) : bus[k].of \in Sessions
    BY QueueElements DEF Deliver
  <2>2. Head(bus) = bus[1] /\ 1 \in 1..Len(bus)
    BY <2>1
  <2>3. s \in Sessions
    BY <2>1, <2>2
  <2> QED BY <2>1, <2>3 DEF TypeOK
<1>2. UNCHANGED <<handlers, mount, cur>>
  BY DEF Deliver
<1>3. CASE rpcs' = rpcs
  BY <1>2, <1>3, ToldKept
<1>4. CASE rpcs' # rpcs
  <2>1. v \in Views /\ cur[v] # None /\ rpcs' = Call(rpcs, v, "reload", cur[v])
    BY <1>1, <1>4 DEF Deliver, OnBusEvent
  <2>2. cur[v] \in Sessions /\ mount[v] # "none" /\ "reload" \in Kinds
    BY <1>1, <2>1 DEF TypeOK, Unstarted, Kinds
  <2> HIDE DEF v
  <2>3. /\ Len(rpcs) \in Nat /\ DOMAIN rpcs = 1..Len(rpcs) /\ DOMAIN rpcs' = 1..Len(rpcs) + 1
        /\ \A i \in 1..Len(rpcs) : rpcs'[i] = rpcs[i]
        /\ rpcs'[Len(rpcs) + 1].by = v
        /\ \A i \in DOMAIN rpcs' : i \in DOMAIN rpcs \/ i = Len(rpcs) + 1
    BY <1>1, <2>1, <2>2, QueueLonger
  <2> QED BY <1>2, <2>1, <2>2, <2>3, ToldKept
<1> QED BY <1>3, <1>4

LEMMA ToldReply ==
  ASSUME ToldInv, NEW i \in DOMAIN rpcs, Reply(i)
  PROVE  Registered' /\ Unstarted' /\ KeptAlone'
<1> USE DEF ToldInv
<1> DEFINE r == rpcs[i]
           v == r.by
           rest == RemoveAt(rpcs, i)
<1>1. /\ TypeOK /\ rpcs \in Seq(Rpc) /\ Len(rpcs) \in Nat /\ i \in 1..Len(rpcs)
      /\ DOMAIN rpcs = 1..Len(rpcs) /\ v \in Views /\ r.of \in Sessions
  BY QueueElements
<1>2. mount[v] # "none"
  BY <1>1 DEF Unstarted
<1>3. /\ rest \in Seq(Rpc) /\ DOMAIN rest = 1..Len(rpcs) - 1
      /\ \A k \in 1..Len(rpcs) - 1 : /\ rest[k] = (IF k < i THEN rpcs[k] ELSE rpcs[k + 1])
                                      /\ k \in 1..Len(rpcs) /\ k + 1 \in 1..Len(rpcs)
  <2>1. \A p : p = RemoveAt(rpcs, i) =>
          /\ p \in Seq(Rpc) /\ DOMAIN p = 1..Len(rpcs) - 1
          /\ \A k \in 1..Len(rpcs) - 1 : /\ p[k] = (IF k < i THEN rpcs[k] ELSE rpcs[k + 1])
                                          /\ k \in 1..Len(rpcs) /\ k + 1 \in 1..Len(rpcs)
    BY <1>1, QueueShorter
  <2> QED BY <2>1
<1> HIDE DEF rest
<1>5. \A k \in DOMAIN rest : \E j \in DOMAIN rpcs : rest[k].by = rpcs[j].by
  BY <1>1, <1>3
<1>6. CASE r.kind = "pick"
  <2>1. OpenSession(v, r.of, rest) /\ mount' = mount
    BY <1>6 DEF Reply, rest
  <2>2. rest \in Seq(Rpc) /\ v \in Views /\ r.of \in Sessions
    BY <1>1, <1>3
  <2> HIDE DEF r, v, ToldInv
  <2> QED BY <1>2, <1>5, <2>1, <2>2, ToldOpen
<1>7. CASE r.kind # "pick"
  <2>1. UNCHANGED <<handlers, cur>> /\ rpcs' = rest
    BY <1>7 DEF Reply, rest
  <2>2. /\ \A w \in Views : mount[w] # "none" => mount'[w] # "none"
        /\ \A w \in Views : mount'[w] # "gone" => mount[w] # "gone"
    BY <1>1, <1>7 DEF Reply, TypeOK
  <2> QED BY <1>5, <2>1, <2>2, ToldKept
<1> QED BY <1>6, <1>7

LEMMA ToldInvariant == Spec => []ToldInv
<1> DEFINE Told == Registered /\ Unstarted /\ KeptAlone
<1>1. Init => Told
  BY NoneAssumption DEF Init, Registered, Unstarted, KeptAlone
<1>2. ToldInv /\ [Next]_vars => Told'
  <2> SUFFICES ASSUME ToldInv, [Next]_vars PROVE Told'
    OBVIOUS
  <2>1. CASE ServerNext \/ UNCHANGED vars
    <3>1. UNCHANGED <<handlers, mount, cur, rpcs>>
      BY <2>1 DEF ServerNext, Started, MessageChanges, TurnDone, TurnFails, WorkerLost, view, vars
    <3> QED BY <3>1, ToldKept
  <2>2. ASSUME NEW i \in DOMAIN rpcs, Serve(i) PROVE Told'
    <3>1. UNCHANGED <<handlers, mount, cur>>
      BY <2>2 DEF Serve, view
    <3>2. \A j \in DOMAIN rpcs' : j \in DOMAIN rpcs /\ rpcs'[j].by = rpcs[j].by
      BY <2>2, QueueElements, ServeEffect DEF ToldInv
    <3> QED BY <3>1, <3>2, ToldKept
  <2> QED BY <2>1, <2>2, ToldUser, ToldDeliver, ToldReply DEF Next
<1>3. TypeOK /\ Told <=> ToldInv
  BY DEF ToldInv
<1> HIDE DEF Told
<1> QED BY <1>1, <1>2, <1>3, TypeCorrect, PTL DEF Spec

(* register and unregister of the service: a view is told of the session it *)
(* has open and of no other, whatever answers are still on their way.       *)
THEOREM ViewsAreTold == Spec => []ToldOfOpenSession
<1>1. ToldInv => ToldOfOpenSession
  BY NoneAssumption DEF ToldInv, Registered, KeptAlone, ToldOfOpenSession, OnScreen
<1> QED BY <1>1, ToldInvariant, PTL

(***************************************************************************)
(* What is shown, if answers keep the order of the calls                   *)
(***************************************************************************)
(* Call i of q replaces the messages of view v; it is the last that does.  *)
Snap(q, i, v) == q[i].by = v /\ q[i].kind \in {"open", "reload"}
LastSnap(q, i, v) == Snap(q, i, v) /\ \A j \in DOMAIN q : j > i => ~Snap(q, j, v)

NoSnap(q, v) == \A i \in DOMAIN q : ~Snap(q, i, v)
NoOpen(q, v) == \A i \in DOMAIN q : q[i].by = v => q[i].kind # "open"

(* The last snapshot on its way to v will have n changes, or is not taken   *)
(* yet.                                                                    *)
Answering(q, v, n) ==
  \E i \in DOMAIN q : LastSnap(q, i, v) /\ (~q[i].served \/ q[i].upTo = n)

(* A snapshot that no later opening of its view overtakes is of the session *)
(* the view has open.                                                      *)
Current(q, c) ==
  \A i \in DOMAIN q :
    /\ q[i].kind \in {"open", "reload"}
    /\ \A j \in DOMAIN q : j > i /\ q[j].by = q[i].by => q[j].kind # "open"
    => q[i].of = c[q[i].by]

LEMMA SnapAdded ==
  ASSUME NEW q \in Seq(Rpc), NEW v \in Views, NEW kind \in Kinds, NEW s \in Sessions, NEW p,
         p = Call(q, v, kind, s)
  PROVE  /\ \A w \in Views : NoOpen(p, w) => NoOpen(q, w)
         /\ \A w \in Views : NoSnap(p, w) => NoSnap(q, w)
         /\ \A w \in Views : w # v \/ kind \notin {"open", "reload"} =>
              /\ NoSnap(q, w) => NoSnap(p, w)
              /\ \A n : Answering(q, w, n) => Answering(p, w, n)
         /\ kind = "open" => ~NoOpen(p, v)
         /\ kind \in {"open", "reload"} => ~NoSnap(p, v) /\ \A n : Answering(p, v, n)
<1> DEFINE m == Len(q) + 1
<1>1. /\ Len(q) \in Nat /\ DOMAIN q = 1..Len(q) /\ DOMAIN p = 1..m /\ m \in DOMAIN p
      /\ \A i \in DOMAIN p : i \in DOMAIN q \/ i = m
      /\ \A i \in DOMAIN q : p[i] = q[i] /\ i \in DOMAIN p /\ m > i /\ ~(i > m)
      /\ p[m].by = v /\ p[m].kind = kind /\ p[m].of = s /\ ~p[m].served
      /\ ~(m > m)
  BY QueueLonger
<1> HIDE DEF m
<1>2. \A w \in Views : \A i \in DOMAIN q : Snap(p, i, w) <=> Snap(q, i, w)
  BY <1>1 DEF Snap
<1>3. \A w \in Views : Snap(p, m, w) <=> w = v /\ kind \in {"open", "reload"}
  BY <1>1 DEF Snap
<1>4. /\ \A w \in Views : NoOpen(p, w) => NoOpen(q, w)
      /\ kind = "open" => ~NoOpen(p, v)
  BY <1>1 DEF NoOpen
<1>5. /\ \A w \in Views : NoSnap(p, w) => NoSnap(q, w)
      /\ kind \in {"open", "reload"} => ~NoSnap(p, v)
      /\ \A w \in Views : w # v \/ kind \notin {"open", "reload"} => (NoSnap(q, w) => NoSnap(p, w))
  BY <1>1, <1>2, <1>3 DEF NoSnap
<1>6. ASSUME NEW w \in Views, w # v \/ kind \notin {"open", "reload"}, NEW n, Answering(q, w, n)
      PROVE  Answering(p, w, n)
  <2>1. PICK i \in DOMAIN q : LastSnap(q, i, w) /\ (~q[i].served \/ q[i].upTo = n)
    BY <1>6 DEF Answering
  <2>2. LastSnap(p, i, w)
    BY <1>1, <1>2, <1>3, <1>6, <2>1 DEF LastSnap
  <2> QED BY <1>1, <2>1, <2>2 DEF Answering
<1>7. ASSUME kind \in {"open", "reload"}, NEW n PROVE Answering(p, v, n)
  <2>1. LastSnap(p, m, v)
    BY <1>1, <1>3, <1>7 DEF LastSnap
  <2> QED BY <1>1, <2>1 DEF Answering
<1> QED BY <1>4, <1>5, <1>6, <1>7

LEMMA CurrentAdded ==
  ASSUME NEW q \in Seq(Rpc), NEW v \in Views, NEW kind \in Kinds, NEW s \in Sessions, NEW p,
         p = Call(q, v, kind, s), NEW c, NEW d, Current(q, c),
         \A i \in DOMAIN q : q[i].by \in Views,
         \A w \in Views : w # v => d[w] = c[w],
         kind = "open" => d[v] = s,
         kind = "reload" => d[v] = s /\ c[v] = s,
         kind \notin {"open", "reload"} => d[v] = c[v]
  PROVE  Current(p, d)
<1> DEFINE m == Len(q) + 1
<1>1. /\ Len(q) \in Nat /\ DOMAIN q = 1..Len(q) /\ DOMAIN p = 1..m /\ m \in DOMAIN p
      /\ \A i \in DOMAIN p : i \in DOMAIN q \/ i = m
      /\ \A i \in DOMAIN q : p[i] = q[i] /\ i \in DOMAIN p /\ m > i
      /\ p[m].by = v /\ p[m].kind = kind /\ p[m].of = s
  BY QueueLonger
<1> HIDE DEF m
<1> SUFFICES ASSUME NEW i \in DOMAIN p, p[i].kind \in {"open", "reload"},
                    \A j \in DOMAIN p : j > i /\ p[j].by = p[i].by => p[j].kind # "open"
             PROVE  p[i].of = d[p[i].by]
  BY DEF Current
<1>2. CASE i = m
  BY <1>1, <1>2
<1>3. CASE i \in DOMAIN q
  <2>1. q[i].of = c[q[i].by]
    BY <1>1, <1>3 DEF Current
  <2>2. kind = "open" => q[i].by # v
    BY <1>1, <1>3
  <2> QED BY <1>1, <1>3, <2>1, <2>2
<1> QED BY <1>1, <1>2, <1>3

LEMMA SnapRemoved ==
  ASSUME NEW q \in Seq(Rpc), 1 \in 1..Len(q), NEW p, p = RemoveAt(q, 1)
  PROVE  /\ \A w \in Views : /\ NoOpen(p, w) /\ ~(q[1].by = w /\ q[1].kind = "open") => NoOpen(q, w)
                             /\ NoSnap(p, w) /\ ~Snap(q, 1, w) => NoSnap(q, w)
                             /\ NoSnap(q, w) => NoSnap(p, w) /\ ~Snap(q, 1, w)
         /\ \A w \in Views : \A n : Answering(q, w, n) =>
              \/ Answering(p, w, n)
              \/ Snap(q, 1, w) /\ NoSnap(p, w) /\ (~q[1].served \/ q[1].upTo = n)
         /\ \A c : Current(q, c) =>
              /\ Current(p, c)
              /\ \A w \in Views : Snap(q, 1, w) /\ NoSnap(p, w) => q[1].of = c[w]
              /\ \A w \in Views : Snap(q, 1, w) /\ NoOpen(p, w) => q[1].of = c[w]
<1>1. /\ Len(q) \in Nat /\ DOMAIN q = 1..Len(q) /\ DOMAIN p = 1..Len(q) - 1
      /\ \A j \in 1..Len(q) - 1 : p[j] = q[j + 1] /\ j + 1 \in 1..Len(q)
  <2>1. /\ Len(q) \in Nat /\ DOMAIN q = 1..Len(q) /\ DOMAIN p = 1..Len(q) - 1
        /\ \A j \in 1..Len(q) - 1 : /\ p[j] = (IF j < 1 THEN q[j] ELSE q[j + 1])
                                     /\ j \in 1..Len(q) /\ j + 1 \in 1..Len(q)
    BY QueueShorter
  <2>2. \A j \in 1..Len(q) - 1 : ~(j < 1)
    BY <2>1
  <2> QED BY <2>1, <2>2
<1>2. /\ 1 \in DOMAIN q /\ DOMAIN q \subseteq Nat /\ DOMAIN p \subseteq Nat
      /\ \A j \in DOMAIN p : p[j] = q[j + 1] /\ j + 1 \in DOMAIN q /\ j + 1 > 1
      /\ \A i \in DOMAIN q : i # 1 => \E j \in DOMAIN p : i = j + 1
  <2>1. \A i \in 1..Len(q) : i # 1 => i - 1 \in 1..Len(q) - 1 /\ i = (i - 1) + 1
    BY <1>1
  <2>2. \A i \in DOMAIN q : i # 1 => \E j \in DOMAIN p : i = j + 1
    BY <1>1, <2>1
  <2>3. \A j \in DOMAIN p : p[j] = q[j + 1] /\ j + 1 \in DOMAIN q /\ j + 1 > 1
    BY <1>1
  <2>4. 1 \in DOMAIN q /\ DOMAIN q \subseteq Nat /\ DOMAIN p \subseteq Nat
    BY <1>1
  <2> QED BY <2>2, <2>3, <2>4
<1>3. \A w \in Views : \A j \in DOMAIN p : Snap(p, j, w) <=> Snap(q, j + 1, w)
  BY <1>2 DEF Snap
<1>4. \A w \in Views : NoOpen(p, w) /\ ~(q[1].by = w /\ q[1].kind = "open") => NoOpen(q, w)
  BY <1>2 DEF NoOpen
<1>5. \A w \in Views : /\ NoSnap(p, w) /\ ~Snap(q, 1, w) => NoSnap(q, w)
                       /\ NoSnap(q, w) => NoSnap(p, w) /\ ~Snap(q, 1, w)
  BY <1>2, <1>3 DEF NoSnap
<1>6. ASSUME NEW w \in Views, NEW n, Answering(q, w, n)
      PROVE  \/ Answering(p, w, n)
             \/ Snap(q, 1, w) /\ NoSnap(p, w) /\ (~q[1].served \/ q[1].upTo = n)
  <2>1. PICK i \in DOMAIN q : LastSnap(q, i, w) /\ (~q[i].served \/ q[i].upTo = n)
    BY <1>6 DEF Answering
  <2>2. CASE i = 1
    BY <1>2, <1>3, <2>1, <2>2 DEF LastSnap, NoSnap
  <2>3. CASE i # 1
    <3>1. PICK j \in DOMAIN p : i = j + 1
      BY <1>2, <2>3
    <3>2. \A k \in DOMAIN p : k > j => k + 1 > j + 1
      BY <1>2
    <3>3. LastSnap(p, j, w)
      BY <1>2, <1>3, <2>1, <3>1, <3>2 DEF LastSnap
    <3> QED BY <1>2, <2>1, <3>1, <3>3 DEF Answering
  <2> QED BY <2>2, <2>3
<1>7. ASSUME NEW c, Current(q, c)
      PROVE  /\ Current(p, c)
             /\ \A w \in Views : Snap(q, 1, w) /\ NoOpen(p, w) => q[1].of = c[w]
  <2>1. ASSUME NEW i \in DOMAIN p, p[i].kind \in {"open", "reload"},
               \A j \in DOMAIN p : j > i /\ p[j].by = p[i].by => p[j].kind # "open"
        PROVE  p[i].of = c[p[i].by]
    <3>1. p[i] = q[i + 1] /\ i + 1 \in DOMAIN q
      BY <1>2
    <3>2. ASSUME NEW k \in DOMAIN q, k > i + 1, q[k].by = q[i + 1].by PROVE q[k].kind # "open"
      <4>1. k # 1 /\ i \in Nat /\ k \in Nat
        BY <1>1, <1>2, <3>2
      <4>2. PICK j \in DOMAIN p : k = j + 1
        BY <1>2, <4>1
      <4>3. j > i
        BY <1>2, <3>2, <4>1, <4>2
      <4> QED BY <1>2, <2>1, <3>1, <3>2, <4>2, <4>3
    <3> QED BY <1>7, <2>1, <3>1, <3>2 DEF Current
  <2>2. ASSUME NEW w \in Views, Snap(q, 1, w), NoOpen(p, w) PROVE q[1].of = c[w]
    <3>1. \A k \in DOMAIN q : k > 1 /\ q[k].by = w => q[k].kind # "open"
      <4>1. \A k \in DOMAIN q : k > 1 => k # 1
        BY <1>2
      <4> QED BY <1>2, <2>2, <4>1 DEF NoOpen
    <3> QED BY <1>2, <1>7, <2>2, <3>1 DEF Current, Snap
  <2> QED BY <2>1, <2>2 DEF Current
<1>8. \A w \in Views : NoSnap(p, w) => NoOpen(p, w)
  BY DEF NoSnap, NoOpen, Snap
<1> QED BY <1>4, <1>5, <1>6, <1>7, <1>8

DoneComing(s) == \E k \in DOMAIN bus : bus[k].of = s /\ bus[k].kind = "done"

(* With the calls q in flight: unless one of them will bring another, the   *)
(* artifact and the messages are of the open session; and what a view that  *)
(* is told lacks of a settled turn is still to come.                        *)
ArtifactOwn(q) == \A v \in Views : NoOpen(q, v) => artifact[v] \in {None, cur[v]}
ShownOwn(q) == \A v \in Views : NoSnap(q, v) => \A p \in shown[v] : p[1] = cur[v]
Complete(q) ==
  \A v \in Views, s \in Sessions : handlers[s] = v /\ settled[s] = saved[s] =>
    \/ DoneComing(s)
    \/ Answering(q, v, saved[s])
    \/ NoSnap(q, v) /\ {s} \X (1..saved[s]) \subseteq shown[v]

Owned(q) == Current(q, cur) /\ ArtifactOwn(q) /\ ShownOwn(q) /\ Complete(q)

OwnInv == BaseInv /\ Registered /\ Owned(rpcs)

LEMMA OwnedServer ==
  ASSUME OwnInv, NEW s \in Sessions,
         Started(s) \/ MessageChanges(s) \/ TurnDone(s) \/ TurnFails(s) \/ WorkerLost(s)
  PROVE  Owned(rpcs)'
<1>1. /\ UNCHANGED <<rpcs, handlers, cur, shown, artifact>>
      /\ bus \in Seq(Event)
  BY DEF OwnInv, BaseInv, TypeOK, Started, MessageChanges, TurnDone, TurnFails, WorkerLost, view
<1>2. \A x \in Sessions : DoneComing(x) => DoneComing(x)'
  <2>1. CASE bus' = bus
    BY <2>1 DEF DoneComing
  <2>2. ASSUME NEW e, bus' = Append(bus, e) PROVE \A k \in DOMAIN bus : k \in DOMAIN bus' /\ bus'[k] = bus[k]
    BY <1>1, <2>2
  <2>3. bus' = bus \/ \E e : bus' = Append(bus, e)
    BY DEF Started, MessageChanges, TurnDone, TurnFails, WorkerLost, Emit
  <2> QED BY <2>1, <2>2, <2>3 DEF DoneComing
<1>3. \A x \in Sessions : settled'[x] = saved'[x] =>
        saved'[x] = saved[x] /\ (settled[x] = saved[x] \/ DoneComing(x)')
  <2>1. CASE MessageChanges(s)
    <3>1. /\ settled' = settled /\ \A x \in Sessions : saved'[x] = IF x = s THEN saved[x] + 1 ELSE saved[x]
          /\ \A x \in Sessions : saved[x] \in Nat /\ settled[x] \in Nat /\ settled[x] <= saved[x]
      BY <2>1, BoundAssumption DEF MessageChanges, OwnInv, BaseInv, TypeOK, VerdictsInside
    <3> QED BY <3>1
  <2>2. CASE TurnDone(s)
    <3>1. /\ saved' = saved /\ \A x \in Sessions : x # s => settled'[x] = settled[x]
          /\ bus' = Append(bus, [of |-> s, kind |-> "done", change |-> 0])
      BY <2>2 DEF TurnDone, Emit, OwnInv, BaseInv, TypeOK
    <3>2. /\ Len(bus) + 1 \in DOMAIN bus'
          /\ bus'[Len(bus) + 1] = [of |-> s, kind |-> "done", change |-> 0]
      BY <1>1, <3>1
    <3>3. DoneComing(s)'
      BY <3>2 DEF DoneComing
    <3> QED BY <3>1, <3>3
  <2>3. CASE Started(s) \/ TurnFails(s) \/ WorkerLost(s)
    BY <2>3 DEF Started, TurnFails, WorkerLost, server
  <2> QED BY <2>1, <2>2, <2>3
<1>4. Current(rpcs, cur)' /\ ArtifactOwn(rpcs)' /\ ShownOwn(rpcs)'
  BY <1>1 DEF OwnInv, Owned, Current, ArtifactOwn, ShownOwn, NoOpen, NoSnap, Snap
<1>5. Complete(rpcs)'
  <2> SUFFICES ASSUME NEW w \in Views, NEW x \in Sessions, handlers[x] = w, settled'[x] = saved'[x],
                      ~DoneComing(x)'
               PROVE  \/ Answering(rpcs, w, saved[x])
                      \/ NoSnap(rpcs, w) /\ {x} \X (1..saved[x]) \subseteq shown[w]
    BY <1>1, <1>3 DEF Complete, Answering, LastSnap, NoSnap, Snap
  <2> QED BY <1>2, <1>3 DEF OwnInv, Owned, Complete
<1> QED BY <1>4, <1>5 DEF Owned

(* _openSession with the calls q in flight.                                *)
LEMMA OwnedOpen ==
  ASSUME BaseInv, Registered, NEW q \in Seq(Rpc), Owned(q), \A i \in DOMAIN q : q[i].by \in Views,
         NEW v \in Views, NEW s \in Sessions, OpenSession(v, s, q),
         UNCHANGED <<bus, saved, settled, shown, artifact>>
  PROVE  Owned(rpcs)'
<1> DEFINE p == rpcs'
<1>1. /\ \A w \in Views : cur'[w] = IF w = v THEN s ELSE cur[w]
      /\ \A x \in Sessions : handlers'[x] = IF x = s THEN v
                                             ELSE IF x = cur[v] THEN None ELSE handlers[x]
      /\ p = Call(q, v, "open", s)
  BY OpenSessionEffect DEF BaseInv
<1>2. "open" \in Kinds
  BY DEF Kinds
<1>3. /\ \A w \in Views : NoOpen(p, w) => NoOpen(q, w)
      /\ \A w \in Views : NoSnap(p, w) => NoSnap(q, w)
      /\ \A w \in Views : w # v =>
           /\ NoSnap(q, w) => NoSnap(p, w)
           /\ \A n : Answering(q, w, n) => Answering(p, w, n)
      /\ ~NoOpen(p, v) /\ ~NoSnap(p, v) /\ \A n : Answering(p, v, n)
  BY <1>1, <1>2, SnapAdded
<1>4. Current(p, cur')
  BY <1>1, <1>2, CurrentAdded DEF Owned
<1> HIDE DEF p
<1>5. \A w \in Views : NoOpen(p, w) => artifact'[w] \in {None, cur'[w]}
  BY <1>1, <1>3 DEF Owned, ArtifactOwn
<1>6. \A w \in Views : NoSnap(p, w) => \A m \in shown'[w] : m[1] = cur'[w]
  BY <1>1, <1>3 DEF Owned, ShownOwn
<1>7. ASSUME NEW w \in Views, NEW x \in Sessions, handlers'[x] = w, settled'[x] = saved'[x]
      PROVE  \/ DoneComing(x)'
             \/ Answering(p, w, saved'[x])
             \/ NoSnap(p, w) /\ {x} \X (1..saved'[x]) \subseteq shown'[w]
  <2>1. CASE w = v
    BY <1>3, <2>1
  <2>2. CASE w # v
    <3>1. handlers[x] = w /\ settled[x] = saved[x]
      BY <1>1, <1>7, <2>2, NoneAssumption
    <3>2. \/ DoneComing(x)
          \/ Answering(q, w, saved[x])
          \/ NoSnap(q, w) /\ {x} \X (1..saved[x]) \subseteq shown[w]
      BY <3>1 DEF Owned, Complete
    <3> QED BY <1>3, <2>2, <3>2 DEF DoneComing
  <2> QED BY <2>1, <2>2
<1> QED BY <1>4, <1>5, <1>6, <1>7 DEF p, Owned, ArtifactOwn, ShownOwn, Complete

(* A call is added that replaces no messages.                              *)
LEMMA OwnedCall ==
  ASSUME OwnInv, NEW v \in Views, NEW kind \in Kinds \ {"open", "reload"}, NEW s \in Sessions,
         rpcs' = Call(rpcs, v, kind, s), UNCHANGED <<bus, saved, settled, cur, shown, artifact, handlers>>
  PROVE  Owned(rpcs)'
<1> DEFINE p == rpcs'
<1>1. rpcs \in Seq(Rpc) /\ \A i \in DOMAIN rpcs : rpcs[i].by \in Views
  BY QueueElements DEF OwnInv, BaseInv
<1>2. \A w \in Views : /\ NoOpen(p, w) => NoOpen(rpcs, w)
                       /\ NoSnap(p, w) <=> NoSnap(rpcs, w)
                       /\ \A n : Answering(rpcs, w, n) => Answering(p, w, n)
  BY <1>1, SnapAdded
<1>3. Current(p, cur)
  BY <1>1, CurrentAdded DEF OwnInv, Owned
<1> HIDE DEF p
<1>4. \A w \in Views : NoOpen(p, w) => artifact[w] \in {None, cur[w]}
  BY <1>2 DEF OwnInv, Owned, ArtifactOwn
<1>5. \A w \in Views : NoSnap(p, w) => \A m \in shown[w] : m[1] = cur[w]
  BY <1>2 DEF OwnInv, Owned, ShownOwn
<1>6. ASSUME NEW w \in Views, NEW x \in Sessions, handlers[x] = w, settled[x] = saved[x]
      PROVE  \/ DoneComing(x)
             \/ Answering(p, w, saved[x])
             \/ NoSnap(p, w) /\ {x} \X (1..saved[x]) \subseteq shown[w]
  BY <1>2, <1>6 DEF OwnInv, Owned, Complete
<1> QED BY <1>3, <1>4, <1>5, <1>6 DEF p, Owned, ArtifactOwn, ShownOwn, Complete, DoneComing

LEMMA OwnedUser ==
  ASSUME OwnInv, UserNext
  PROVE  Owned(rpcs)'
<1>1. PICK v \in Views :
        \/ Start(v) \/ Mount(v) \/ Unmount(v) \/ OnSend(v) \/ OnStop(v)
        \/ \E s \in Sessions : ClickSession(v, s) \/ ClickNew(v, s)
  BY DEF UserNext
<1>2. /\ BaseInv /\ Registered /\ Owned(rpcs) /\ TypeOK
      /\ rpcs \in Seq(Rpc) /\ \A i \in DOMAIN rpcs : rpcs[i].by \in Views
  BY QueueElements DEF OwnInv, BaseInv
<1>3. ASSUME NEW s \in Sessions, ClickSession(v, s) PROVE Owned(rpcs)'
  <2>1. OpenSession(v, s, rpcs) /\ UNCHANGED <<bus, saved, settled, shown, artifact>>
    BY <1>3 DEF ClickSession, server
  <2> QED BY <1>2, <2>1, OwnedOpen
<1>4. CASE Mount(v) \/ Unmount(v)
  <2>1. UNCHANGED <<rpcs, bus, saved, settled, cur, shown, artifact>>
    BY <1>4 DEF Mount, Unmount, server, view
  <2>2. \A w \in Views, x \in Sessions : handlers'[x] = w => handlers[x] = w
    <3>1. CASE Mount(v)
      BY <1>2, <3>1, NoneAssumption DEF Mount, TypeOK
    <3>2. CASE Unmount(v)
      BY <1>2, <3>2, NoneAssumption DEF Unmount, Unregister, TypeOK
    <3> QED BY <1>4, <3>1, <3>2
  <2>3. Current(rpcs, cur)' /\ ArtifactOwn(rpcs)' /\ ShownOwn(rpcs)'
    BY <1>2, <2>1 DEF Owned, Current, ArtifactOwn, ShownOwn, NoOpen, NoSnap, Snap
  <2>4. Complete(rpcs)'
    <3> SUFFICES ASSUME NEW w \in Views, NEW x \in Sessions, handlers'[x] = w, settled[x] = saved[x]
                 PROVE  \/ DoneComing(x) \/ Answering(rpcs, w, saved[x])
                        \/ NoSnap(rpcs, w) /\ {x} \X (1..saved[x]) \subseteq shown[w]
      BY <2>1 DEF Complete, DoneComing, Answering, LastSnap, NoSnap, Snap
    <3> QED BY <1>2, <2>2 DEF Owned, Complete
  <2> QED BY <2>3, <2>4 DEF Owned
<1>5. CASE Start(v) \/ OnSend(v) \/ OnStop(v) \/ \E s \in Sessions : ClickNew(v, s)
  <2>1. UNCHANGED <<bus, saved, settled, cur, shown, artifact, handlers>>
    BY <1>5 DEF Start, OnSend, OnStop, ClickNew, server, view
  <2>2. \E kind \in Kinds \ {"open", "reload"}, s \in Sessions : rpcs' = Call(rpcs, v, kind, s)
    BY <1>2, <1>5 DEF Start, OnSend, OnStop, ClickNew, TypeOK, Kinds
  <2> QED BY <2>1, <2>2, OwnedCall
<1> QED BY <1>1, <1>3, <1>4, <1>5

(* The server processes call i: the snapshot it takes for the open session  *)
(* has all its messages.                                                   *)
LEMMA OwnedServe ==
  ASSUME OwnInv, NEW i \in DOMAIN rpcs, Serve(i)
  PROVE  Owned(rpcs)'
<1> DEFINE p == rpcs'
<1>1. /\ UNCHANGED <<settled, bus, handlers, cur, shown, artifact>>
      /\ TypeOK /\ Len(rpcs) \in Nat /\ DOMAIN rpcs = 1..Len(rpcs) /\ DOMAIN p = DOMAIN rpcs
      /\ \A j \in DOMAIN rpcs : /\ p[j].by = rpcs[j].by /\ p[j].kind = rpcs[j].kind
                                /\ p[j].of = rpcs[j].of
                                /\ j # i => p[j] = rpcs[j]
      /\ p[i].upTo = saved[rpcs[i].of] /\ p[i].served
      /\ \A x \in Sessions : saved'[x] \in {saved[x], saved[x] + 1}
  BY QueueElements, ServeEffect DEF OwnInv, BaseInv, view
<1> HIDE DEF p
<1>2. \A j \in DOMAIN rpcs : \A w \in Views : Snap(p, j, w) <=> Snap(rpcs, j, w)
  BY <1>1 DEF Snap
<1>3. /\ \A w \in Views : NoOpen(p, w) <=> NoOpen(rpcs, w)
      /\ \A w \in Views : NoSnap(p, w) <=> NoSnap(rpcs, w)
      /\ \A w \in Views : \A j \in DOMAIN rpcs : LastSnap(p, j, w) <=> LastSnap(rpcs, j, w)
  BY <1>1, <1>2 DEF NoOpen, NoSnap, LastSnap
<1>4. Current(p, cur)
  <2>1. Current(rpcs, cur)
    BY DEF OwnInv, Owned
  <2> QED BY <1>1, <2>1 DEF Current
<1>5. \A x \in Sessions : settled[x] = saved'[x] => saved'[x] = saved[x]
  <2>1. \A x \in Sessions : saved[x] \in 0..MaxChanges /\ settled[x] \in 0..MaxChanges
                            /\ settled[x] <= saved[x]
    BY <1>1 DEF OwnInv, BaseInv, VerdictsInside, TypeOK
  <2> QED BY <1>1, <2>1, BoundAssumption
<1>6. ASSUME NEW w \in Views, NEW x \in Sessions, handlers[x] = w, Answering(rpcs, w, saved[x])
      PROVE  Answering(p, w, saved[x])
  <2>1. PICK j \in DOMAIN rpcs :
          LastSnap(rpcs, j, w) /\ (~rpcs[j].served \/ rpcs[j].upTo = saved[x])
    BY <1>6 DEF Answering
  <2>2. rpcs[j].of = cur[w]
    <3>1. \A k \in DOMAIN rpcs : k > j /\ rpcs[k].by = rpcs[j].by => rpcs[k].kind # "open"
      BY <2>1 DEF LastSnap, Snap
    <3> QED BY <2>1, <3>1 DEF OwnInv, Owned, Current, LastSnap, Snap
  <2>3. cur[w] = x
    BY <1>6 DEF OwnInv, Registered
  <2>4. ~p[j].served \/ p[j].upTo = saved[x]
    BY <1>1, <2>1, <2>2, <2>3
  <2> QED BY <1>1, <1>3, <2>1, <2>4 DEF Answering
<1>7. \A w \in Views : NoOpen(p, w) => artifact[w] \in {None, cur[w]}
  BY <1>3 DEF OwnInv, Owned, ArtifactOwn
<1>8. \A w \in Views : NoSnap(p, w) => \A m \in shown[w] : m[1] = cur[w]
  BY <1>3 DEF OwnInv, Owned, ShownOwn
<1>9. ASSUME NEW w \in Views, NEW x \in Sessions, handlers[x] = w, settled[x] = saved'[x]
      PROVE  \/ DoneComing(x)
             \/ Answering(p, w, saved'[x])
             \/ NoSnap(p, w) /\ {x} \X (1..saved'[x]) \subseteq shown[w]
  <2>1. saved'[x] = saved[x]
    BY <1>5, <1>9
  <2> QED BY <1>3, <1>6, <1>9, <2>1 DEF OwnInv, Owned, Complete
<1> QED BY <1>1, <1>4, <1>7, <1>8, <1>9 DEF p, Owned, ArtifactOwn, ShownOwn, Complete, DoneComing

(* An event reaches the view that is told: a message is of the open        *)
(* session, done asks for the messages again.                              *)
LEMMA OwnedDeliver ==
  ASSUME OwnInv, Deliver
  PROVE  Owned(rpcs)'
<1> DEFINE e == Head(bus)
           v == handlers[e.of]
           p == rpcs'
<1>1. /\ TypeOK /\ BaseInv /\ Registered /\ Owned(rpcs)
      /\ rpcs \in Seq(Rpc) /\ \A i \in DOMAIN rpcs : rpcs[i].by \in Views
      /\ bus \in Seq(Event) /\ Len(bus) \in Nat /\ DOMAIN bus = 1..Len(bus) /\ bus # <<>>
      /\ bus' = Tail(bus)
  BY QueueElements DEF OwnInv, BaseInv, Deliver
<1>2. e = bus[1] /\ 1 \in DOMAIN bus /\ e.of \in Sessions /\ v \in Views \cup {None}
  <2>1. e = bus[1] /\ 1 \in 1..Len(bus)
    BY <1>1
  <2>2. e.of \in Sessions
    BY <1>1, <2>1, QueueElements
  <2> QED BY <1>1, <2>1, <2>2 DEF TypeOK
<1>3. UNCHANGED <<saved, settled, handlers, cur>>
  BY DEF Deliver, server
<1>4. \A x \in Sessions : DoneComing(x) => DoneComing(x)' \/ (e.of = x /\ e.kind = "done")
  <2>1. /\ DOMAIN bus' = 1..Len(bus) - 1
        /\ \A k \in 1..Len(bus) - 1 : bus'[k] = bus[k + 1]
    BY <1>1
  <2>2. \A k \in DOMAIN bus : k # 1 => k - 1 \in DOMAIN bus' /\ bus'[k - 1] = bus[k]
    BY <1>1, <2>1
  <2> QED BY <1>2, <2>2 DEF DoneComing
<1> HIDE DEF e, v
<1>5. CASE v = None
  <2>1. UNCHANGED <<rpcs, shown, artifact>>
    BY <1>5 DEF Deliver, e, v
  <2>2. Current(rpcs, cur)' /\ ArtifactOwn(rpcs)' /\ ShownOwn(rpcs)'
    BY <1>1, <1>3, <2>1 DEF Owned, Current, ArtifactOwn, ShownOwn, NoOpen, NoSnap, Snap
  <2>3. Complete(rpcs)'
    <3> SUFFICES ASSUME NEW w \in Views, NEW x \in Sessions, handlers[x] = w, settled[x] = saved[x]
                 PROVE  \/ DoneComing(x)' \/ Answering(rpcs, w, saved[x])
                        \/ NoSnap(rpcs, w) /\ {x} \X (1..saved[x]) \subseteq shown[w]
      BY <1>3, <2>1 DEF Complete, Answering, LastSnap, NoSnap, Snap
    <3>1. x # e.of
      BY <1>5, NoneAssumption DEF v
    <3> QED BY <1>1, <1>4, <3>1 DEF Owned, Complete
  <2> QED BY <2>2, <2>3 DEF Owned
<1>6. CASE v # None
  <2>1. OnBusEvent(v, e) /\ v \in Views /\ handlers[e.of] = v /\ cur[v] = e.of /\ cur[v] # None
    BY <1>1, <1>2, <1>6, NoneAssumption DEF Deliver, Registered, e, v
  <2>2. p = IF e.kind = "done" THEN Call(rpcs, v, "reload", e.of) ELSE rpcs
    BY <2>1 DEF OnBusEvent
  <2>3. "reload" \in Kinds
    BY DEF Kinds
  <2>4. /\ \A w \in Views : /\ NoOpen(p, w) => NoOpen(rpcs, w)
                            /\ NoSnap(p, w) => NoSnap(rpcs, w)
        /\ \A w \in Views : w # v \/ e.kind # "done" =>
             /\ NoSnap(rpcs, w) => NoSnap(p, w)
             /\ \A n : Answering(rpcs, w, n) => Answering(p, w, n)
        /\ e.kind = "done" => \A n : Answering(p, v, n)
        /\ Current(p, cur)
    <3>1. CASE e.kind = "done"
      <4>1. p = Call(rpcs, v, "reload", e.of)
        BY <2>2, <3>1
      <4> HIDE DEF p
      <4>2. Current(p, cur)
        BY <1>1, <1>2, <2>1, <2>3, <4>1, CurrentAdded DEF Owned
      <4> QED BY <1>1, <1>2, <2>1, <2>3, <3>1, <4>1, <4>2, SnapAdded
    <3>2. CASE e.kind # "done"
      <4>1. p = rpcs
        BY <2>2, <3>2
      <4> QED BY <1>1, <3>2, <4>1 DEF Owned
    <3> QED BY <3>1, <3>2
  <2> HIDE DEF p
  <2>5. /\ \A w \in Views : shown[w] \subseteq shown'[w]
        /\ \A w \in Views : \A m \in shown'[w] : m \in shown[w] \/ (w = v /\ m[1] = e.of)
        /\ \A w \in Views : artifact'[w] = artifact[w] \/ (w = v /\ artifact'[w] = e.of)
    BY <1>1, <2>1 DEF OnBusEvent, TypeOK
  <2>6. \A w \in Views : NoOpen(p, w) => artifact'[w] \in {None, cur[w]}
    BY <1>1, <2>1, <2>4, <2>5 DEF Owned, ArtifactOwn
  <2>7. \A w \in Views : NoSnap(p, w) => \A m \in shown'[w] : m[1] = cur[w]
    BY <1>1, <2>1, <2>4, <2>5 DEF Owned, ShownOwn
  <2>8. ASSUME NEW w \in Views, NEW x \in Sessions, handlers[x] = w, settled[x] = saved[x]
        PROVE  \/ DoneComing(x)'
               \/ Answering(p, w, saved[x])
               \/ NoSnap(p, w) /\ {x} \X (1..saved[x]) \subseteq shown'[w]
    <3>1. CASE w = v /\ e.kind = "done"
      BY <2>4, <3>1
    <3>2. CASE w # v \/ e.kind # "done"
      <4>1. ~(e.of = x /\ e.kind = "done")
        BY <2>1, <2>8, <3>2
      <4>2. DoneComing(x) => DoneComing(x)'
        BY <1>4, <4>1
      <4>3. \/ DoneComing(x) \/ Answering(rpcs, w, saved[x])
            \/ NoSnap(rpcs, w) /\ {x} \X (1..saved[x]) \subseteq shown[w]
        BY <1>1, <2>8 DEF Owned, Complete
      <4>4. shown[w] \subseteq shown'[w]
        BY <2>5
      <4> QED BY <2>4, <3>2, <4>2, <4>3, <4>4
    <3> QED BY <3>1, <3>2
  <2> QED BY <1>3, <2>4, <2>6, <2>7, <2>8 DEF p, Owned, ArtifactOwn, ShownOwn, Complete
<1> QED BY <1>5, <1>6

(* The first call is answered: a snapshot is of the open session unless a   *)
(* later one of its view is on its way.                                    *)
LEMMA OwnedReply ==
  ASSUME OrderedReplies, OwnInv, NEW i \in DOMAIN rpcs, Reply(i)
  PROVE  Owned(rpcs)'
<1> DEFINE r == rpcs[1]
           v == r.by
           rest == RemoveAt(rpcs, 1)
<1>1. i = 1 /\ r.served
  BY DEF Reply
<1>2. /\ TypeOK /\ BaseInv /\ Registered /\ Owned(rpcs)
      /\ rpcs \in Seq(Rpc) /\ Len(rpcs) \in Nat /\ 1 \in 1..Len(rpcs)
      /\ DOMAIN rpcs = 1..Len(rpcs) /\ \A k \in DOMAIN rpcs : rpcs[k].by \in Views
      /\ v \in Views /\ r.of \in Sessions /\ UNCHANGED <<saved, settled, bus>>
  BY <1>1, QueueElements DEF OwnInv, BaseInv, Reply, server
<1>3. /\ \A w \in Views : /\ NoOpen(rest, w) /\ ~(v = w /\ r.kind = "open") => NoOpen(rpcs, w)
                          /\ NoSnap(rest, w) /\ ~Snap(rpcs, 1, w) => NoSnap(rpcs, w)
                          /\ NoSnap(rpcs, w) => NoSnap(rest, w) /\ ~Snap(rpcs, 1, w)
      /\ \A w \in Views : \A n : Answering(rpcs, w, n) =>
           \/ Answering(rest, w, n)
           \/ Snap(rpcs, 1, w) /\ NoSnap(rest, w) /\ (~r.served \/ r.upTo = n)
      /\ Current(rest, cur)
      /\ \A w \in Views : Snap(rpcs, 1, w) /\ NoSnap(rest, w) => r.of = cur[w]
      /\ \A w \in Views : Snap(rpcs, 1, w) /\ NoOpen(rest, w) => r.of = cur[w]
  BY <1>2, SnapRemoved DEF Owned
<1>4. rest \in Seq(Rpc) /\ \A k \in DOMAIN rest : rest[k].by \in Views
  <2>1. \A p : p = RemoveAt(rpcs, 1) => p \in Seq(Rpc)
    BY <1>2, QueueShorter
  <2>2. rest \in Seq(Rpc)
    BY <2>1
  <2>3. \A k \in DOMAIN rest : rest[k] \in Rpc
    BY <2>2
  <2> QED BY <2>2, <2>3 DEF Rpc
<1> HIDE DEF rest
<1>5. CASE r.kind \notin {"open", "reload"}
  <2>1. \A w \in Views : ~Snap(rpcs, 1, w)
    BY <1>5 DEF Snap
  <2>2. ArtifactOwn(rest) /\ ShownOwn(rest)
    BY <1>2, <1>3, <1>5, <2>1 DEF Owned, ArtifactOwn, ShownOwn
  <2>3. Complete(rest)
    BY <1>2, <1>3, <2>1 DEF Owned, Complete
  <2>4. Owned(rest)
    BY <1>3, <2>2, <2>3 DEF Owned
  <2>5. CASE r.kind = "pick"
    <3>1. OpenSession(v, r.of, rest) /\ UNCHANGED <<shown, artifact>>
      BY <1>1, <2>5 DEF Reply, rest
    <3> HIDE DEF r, v
    <3> QED BY <1>2, <1>4, <2>4, <3>1, OwnedOpen
  <2>6. CASE r.kind # "pick"
    <3>1. rpcs' = rest /\ UNCHANGED <<handlers, cur, shown, artifact>>
      BY <1>1, <1>5, <2>6 DEF Reply, rest
    <3> HIDE DEF r, v
    <3>2. Current(rpcs, cur)'
      BY <2>4, <3>1 DEF Owned
    <3>3. ArtifactOwn(rpcs)' /\ ShownOwn(rpcs)'
      BY <2>4, <3>1 DEF Owned, ArtifactOwn, ShownOwn
    <3>4. Complete(rpcs)'
      BY <1>2, <2>4, <3>1 DEF Owned, Complete, DoneComing
    <3> QED BY <3>2, <3>3, <3>4 DEF Owned
  <2> QED BY <2>5, <2>6
<1>6. CASE r.kind \in {"open", "reload"}
  <2>1. /\ rpcs' = rest /\ UNCHANGED <<handlers, cur>>
        /\ shown' = [shown EXCEPT ![v] = Snapshot(r)]
        /\ artifact' = IF r.kind = "open" THEN [artifact EXCEPT ![v] = LatestArtifact(r)]
                       ELSE artifact
    BY <1>1, <1>6 DEF Reply, rest
  <2>2. /\ Snap(rpcs, 1, v) /\ \A w \in Views : Snap(rpcs, 1, w) => w = v
        /\ \A w \in Views : shown'[w] = IF w = v THEN Snapshot(r) ELSE shown[w]
        /\ \A w \in Views : \/ artifact'[w] = artifact[w] /\ ~(v = w /\ r.kind = "open")
                            \/ v = w /\ artifact'[w] \in {None, r.of}
    BY <1>2, <1>6, <2>1 DEF Snap, TypeOK, LatestArtifact
  <2>3. Snapshot(r) = {r.of} \X (1..r.upTo)
    BY DEF Snapshot
  <2> HIDE DEF r, v
  <2>4. Current(rpcs, cur)'
    BY <1>3, <2>1
  <2>5. \A w \in Views : NoOpen(rest, w) => artifact'[w] \in {None, cur[w]}
    BY <1>2, <1>3, <2>2 DEF Owned, ArtifactOwn
  <2>6. \A w \in Views : NoSnap(rest, w) => \A m \in shown'[w] : m[1] = cur[w]
    BY <1>2, <1>3, <2>2, <2>3 DEF Owned, ShownOwn
  <2>7. ASSUME NEW w \in Views, NEW x \in Sessions, handlers[x] = w, settled[x] = saved[x]
        PROVE  \/ DoneComing(x) \/ Answering(rest, w, saved[x])
               \/ NoSnap(rest, w) /\ {x} \X (1..saved[x]) \subseteq shown'[w]
    <3>1. \/ DoneComing(x) \/ Answering(rpcs, w, saved[x])
          \/ NoSnap(rpcs, w) /\ {x} \X (1..saved[x]) \subseteq shown[w]
      BY <1>2, <2>7 DEF Owned, Complete
    <3>2. CASE w # v
      BY <1>3, <2>2, <3>1, <3>2
    <3>3. CASE w = v
      <4>1. cur[w] = x
        BY <1>2, <2>7 DEF Registered
      <4> QED BY <1>1, <1>3, <2>2, <2>3, <3>1, <3>3, <4>1
    <3> QED BY <3>2, <3>3
  <2> QED BY <1>2, <2>1, <2>4, <2>5, <2>6, <2>7
          DEF Owned, ArtifactOwn, ShownOwn, Complete, DoneComing
<1> QED BY <1>5, <1>6

LEMMA OwnInvariant ==
  ASSUME OrderedReplies
  PROVE  Spec => []OwnInv
<1>1. Init => Owned(rpcs)
  <2>1. Init => rpcs = <<>> /\ DOMAIN rpcs = {}
    BY DEF Init
  <2> QED BY <2>1, NoneAssumption
          DEF Init, Owned, Current, ArtifactOwn, ShownOwn, Complete, NoSnap, NoOpen
<1>2. OwnInv /\ [Next]_vars => Owned(rpcs)'
  <2> SUFFICES ASSUME OwnInv, [Next]_vars PROVE Owned(rpcs)'
    OBVIOUS
  <2>1. CASE UNCHANGED vars
    <3>1. UNCHANGED <<saved, settled, bus, rpcs, handlers, cur, shown, artifact>>
      BY <2>1 DEF vars, server, view
    <3> QED BY <3>1 DEF OwnInv, Owned, Current, ArtifactOwn, ShownOwn, Complete, NoSnap, NoOpen, Snap,
          LastSnap, Answering, DoneComing
  <2> QED BY <2>1, OwnedServer, OwnedUser, OwnedDeliver, OwnedServe, OwnedReply DEF Next, ServerNext
<1>3. BaseInv /\ ToldInv /\ Owned(rpcs) => OwnInv
  BY DEF OwnInv, ToldInv
<1>4. OwnInv => Owned(rpcs)
  BY DEF OwnInv
<1> QED BY <1>1, <1>2, <1>3, <1>4, BaseInvariant, ToldInvariant, PTL DEF Spec

(* _captureLatestArtifact: if answers keep the order of the calls, the      *)
(* artifact on the right is one of the session that is open.               *)
THEOREM ArtifactsBelong ==
  ASSUME OrderedReplies
  PROVE  Spec => []ArtifactOfOpenSession
<1>1. OwnInv => ArtifactOfOpenSession
  BY DEF OwnInv, Owned, ArtifactOwn, NoOpen, ArtifactOfOpenSession, Quiet
<1> QED BY <1>1, OwnInvariant, PTL

(* The done event and the reload it causes: if answers keep the order of    *)
(* the calls, a view that is told shows a settled turn, all of it and       *)
(* nothing else, once nothing is on its way to it.                         *)
THEOREM SettledTurnsAreShown ==
  ASSUME OrderedReplies
  PROVE  Spec => []SettledTurnShown
<1>1. OwnInv => SettledTurnShown
  <2> SUFFICES ASSUME OwnInv, NEW v \in Views, NEW s \in Sessions, handlers[s] = v, Quiet(v),
                      settled[s] = saved[s]
               PROVE  shown[v] = {s} \X (1..saved[s])
    BY DEF SettledTurnShown
  <2>1. NoSnap(rpcs, v) /\ ~DoneComing(s) /\ ~Answering(rpcs, v, saved[s])
    <3>1. bus = <<>> => DOMAIN bus = {}
      OBVIOUS
    <3> QED BY <3>1 DEF Quiet, NoSnap, Snap, DoneComing, Answering, LastSnap
  <2>2. {s} \X (1..saved[s]) \subseteq shown[v]
    BY <2>1 DEF OwnInv, Owned, Complete
  <2>3. ASSUME NEW p \in shown[v] PROVE p \in {s} \X (1..saved[s])
    <3>1. p \in Sessions \X Changes /\ saved[s] \in 0..MaxChanges
      BY DEF OwnInv, BaseInv, TypeOK
    <3>2. p[1] = s
      BY <2>1 DEF OwnInv, Registered, Owned, ShownOwn
    <3>3. p[2] <= saved[s]
      BY <3>2 DEF OwnInv, BaseInv, ViewsInside
    <3>4. p = <<p[1], p[2]>> /\ p[2] \in 1..MaxChanges
      BY <3>1 DEF Changes
    <3>5. p[2] \in 1..saved[s]
      BY <3>1, <3>3, <3>4, BoundAssumption
    <3> QED BY <3>2, <3>4, <3>5
  <2> QED BY <2>2, <2>3
<1> QED BY <1>1, OwnInvariant, PTL

=============================================================================
