----------------------------- MODULE ChatClient -----------------------------
(* The chat in the browser: static/src/chat_action.js and grokoo_service.js *)
(* against controllers/main.py and the bus.                                 *)
(*                                                                          *)
(* A view opens one session at a time.  It learns about a session by two    *)
(* channels: bus events, in the order they were committed, which the        *)
(* service hands to the handler registered for their session; and answers   *)
(* to RPCs, whose snapshot may be older than an event already handled.      *)
(* A view keeps its handler across awaits and never asks, when an answer    *)
(* arrives, whether its session is still the open one.                      *)
EXTENDS Integers, Sequences, SequencesExt

CONSTANTS
  Sessions,        \* chat sessions of the user
  Views,           \* instances of AiChatAction, in the order they are created
  None,
  MaxChanges,      \* changes a session's messages ever see (bound)
  MaxRpcs,         \* RPCs in flight when the user starts another (bound)
  MaxBus,          \* undelivered bus events (bound)
  OrderedReplies   \* does the server serve and answer RPCs in their order?

ASSUME BoundAssumption ==
  /\ MaxChanges \in Nat /\ MaxRpcs \in Nat /\ MaxBus \in Nat
  /\ OrderedReplies \in BOOLEAN

ASSUME NoneAssumption == None \notin Sessions \cup Views

VARIABLES
  (* the server *)
  srv,       \* grokoo.session.state, as far as the client tells it apart
  worker,    \* does the session have a worker that emits events?
  saved,     \* how often its messages have changed
  settled,   \* `saved` when it last emitted done
  bus,       \* committed, undelivered notifications
  rpcs,      \* RPCs in flight, in the order they were issued
  (* the browser tab *)
  handlers,  \* the service's Map: session -> view
  mount,     \* life of each view
  cur,       \* state.currentId
  running,   \* state.running
  shown,     \* state.messages: which changes of which session
  artifact   \* state.artifact: the session it came from

server == <<srv, worker, saved, settled>>
view   == <<cur, running, shown, artifact>>
vars   == <<server, bus, rpcs, handlers, mount, view>>

Changes == 1..MaxChanges
Kinds   == {"pick", "open", "reload", "send", "stop"}
Rpc     == [by : Views, kind : Kinds, of : Sessions, served : BOOLEAN,
            upTo : 0..MaxChanges, busy : BOOLEAN]
Event   == [of : Sessions, kind : {"started", "message", "done", "error"},
            change : 0..MaxChanges]

TypeOK ==
  /\ srv \in [Sessions -> {"idle", "running"}]
  /\ worker \in [Sessions -> BOOLEAN]
  /\ saved \in [Sessions -> 0..MaxChanges]
  /\ settled \in [Sessions -> 0..MaxChanges]
  /\ bus \in Seq(Event)
  /\ rpcs \in Seq(Rpc)
  /\ handlers \in [Sessions -> Views \cup {None}]
  /\ mount \in [Views -> {"none", "starting", "ready", "mounted", "gone"}]
  /\ cur \in [Views -> Sessions \cup {None}]
  /\ running \in [Views -> BOOLEAN]
  /\ shown \in [Views -> SUBSET (Sessions \X Changes)]
  /\ artifact \in [Views -> Sessions \cup {None}]

Init ==
  /\ srv = [s \in Sessions |-> "idle"] /\ worker = [s \in Sessions |-> FALSE]
  /\ saved = [s \in Sessions |-> 0] /\ settled = [s \in Sessions |-> 0]
  /\ bus = <<>> /\ rpcs = <<>>
  /\ handlers = [s \in Sessions |-> None]
  /\ mount = [v \in Views |-> "none"]
  /\ cur = [v \in Views |-> None] /\ running = [v \in Views |-> FALSE]
  /\ shown = [v \in Views |-> {}] /\ artifact = [v \in Views |-> None]

-----------------------------------------------------------------------------
(* The server: a worker's turn.                                             *)
Emit(s, kind, change) ==
  /\ Len(bus) < MaxBus
  /\ bus' = Append(bus, [of |-> s, kind |-> kind, change |-> change])

Started(s) ==
  /\ worker[s] /\ Emit(s, "started", 0)
  /\ UNCHANGED <<server, rpcs, handlers, mount, view>>

(* The assistant record or a tool chip changes; the event carries it.       *)
MessageChanges(s) ==
  /\ worker[s] /\ saved[s] < MaxChanges
  /\ saved' = [saved EXCEPT ![s] = @ + 1]
  /\ Emit(s, "message", saved[s] + 1)
  /\ UNCHANGED <<srv, worker, settled, rpcs, handlers, mount, view>>

(* A result event, or the end of the stream: done is emitted in any case    *)
(* but a stop that the worker noticed.                                      *)
TurnDone(s) ==
  /\ worker[s] /\ Emit(s, "done", 0)
  /\ srv' = [srv EXCEPT ![s] = "idle"]
  /\ worker' = [worker EXCEPT ![s] = FALSE]
  /\ settled' = [settled EXCEPT ![s] = saved[s]]
  /\ UNCHANGED <<saved, rpcs, handlers, mount, view>>

TurnFails(s) ==
  /\ worker[s] /\ Emit(s, "error", 0)
  /\ srv' = [srv EXCEPT ![s] = "idle"]
  /\ worker' = [worker EXCEPT ![s] = FALSE]
  /\ UNCHANGED <<saved, settled, rpcs, handlers, mount, view>>

(* The worker is lost or ends after a stop: no event; the row is reaped.    *)
WorkerLost(s) ==
  /\ worker[s]
  /\ srv' = [srv EXCEPT ![s] = "idle"]
  /\ worker' = [worker EXCEPT ![s] = FALSE]
  /\ UNCHANGED <<saved, settled, bus, rpcs, handlers, mount, view>>

(* RPC i is processed: messages, send and stop of controllers/main.py.      *)
(* A send is refused while the row is running.                              *)
Serve(i) ==
  LET s == rpcs[i].of
      accepted == rpcs[i].kind = "send" /\ srv[s] = "idle" /\ saved[s] < MaxChanges
  IN
  /\ ~rpcs[i].served
  /\ OrderedReplies => \A j \in 1..(i - 1) : rpcs[j].served
  /\ saved' = IF accepted THEN [saved EXCEPT ![s] = @ + 1] ELSE saved
  /\ worker' = IF accepted THEN [worker EXCEPT ![s] = TRUE] ELSE worker
  /\ srv' = IF accepted THEN [srv EXCEPT ![s] = "running"]
            ELSE IF rpcs[i].kind = "stop" THEN [srv EXCEPT ![s] = "idle"] ELSE srv
  /\ rpcs' = [rpcs EXCEPT ![i] =
       [@ EXCEPT !.served = TRUE, !.upTo = saved[s],
                 !.busy = IF rpcs[i].kind = "send" THEN accepted ELSE srv[s] = "running"]]
  /\ UNCHANGED <<settled, bus, handlers, mount, view>>

-----------------------------------------------------------------------------
(* The browser.                                                             *)
Call(q, v, kind, s) ==
  Append(q, [by |-> v, kind |-> kind, of |-> s, served |-> FALSE, upTo |-> 0,
             busy |-> FALSE])

(* aiBus.unregister(id): whoever the handler belongs to.                    *)
Unregister(h, s) == IF s = None THEN h ELSE [h EXCEPT ![s] = None]

(* Slip: the handler of the session that was open stays registered.         *)
OpenSessionKeeps(v, s, q) ==
  /\ handlers' = [handlers EXCEPT ![s] = v]
  /\ cur' = [cur EXCEPT ![v] = s]
  /\ rpcs' = Call(q, v, "open", s)

(* _openSession up to its await.                                            *)
OpenSession(v, s, q) ==
  /\ handlers' = [Unregister(handlers, cur[v]) EXCEPT ![s] = v]
  /\ cur' = [cur EXCEPT ![v] = s]
  /\ rpcs' = Call(q, v, "open", s)

(* The action is started: the views come one after the other.  onWillStart  *)
(* awaits the status and the session list, then opens a session.            *)
Start(v) ==
  /\ mount[v] = "none" /\ \A w \in Views : mount[w] \notin {"starting", "ready"}
  /\ Len(rpcs) < MaxRpcs
  /\ mount' = [mount EXCEPT ![v] = "starting"]
  /\ \E s \in Sessions : rpcs' = Call(rpcs, v, "pick", s)
  /\ UNCHANGED <<server, bus, handlers, view>>

(* The new view replaces the one on screen, whose onWillUnmount runs now.   *)
Mount(v) ==
  LET old == {w \in Views : mount[w] = "mounted"} IN
  /\ mount[v] = "ready"
  /\ mount' = [w \in Views |-> IF w = v THEN "mounted"
                               ELSE IF w \in old THEN "gone" ELSE mount[w]]
  /\ handlers' = [s \in Sessions |->
       IF \E w \in old : cur[w] = s THEN None ELSE handlers[s]]
  /\ UNCHANGED <<server, bus, rpcs, view>>

(* The user goes elsewhere.                                                 *)
Unmount(v) ==
  /\ mount[v] = "mounted"
  /\ mount' = [mount EXCEPT ![v] = "gone"]
  /\ handlers' = Unregister(handlers, cur[v])
  /\ UNCHANGED <<server, bus, rpcs, view>>

UserMay(v) == mount[v] = "mounted" /\ Len(rpcs) < MaxRpcs

ClickSession(v, s) ==
  /\ UserMay(v) /\ OpenSession(v, s, rpcs)
  /\ UNCHANGED <<server, bus, mount, running, shown, artifact>>

(* _newSession up to its await; s is the session the server will create.    *)
ClickNew(v, s) ==
  /\ UserMay(v) /\ rpcs' = Call(rpcs, v, "pick", s)
  /\ UNCHANGED <<server, bus, handlers, mount, view>>

(* onSend up to its await; the optimistic bubble, which the next snapshot   *)
(* replaces, is left out.  The composer is disabled while running.          *)
OnSend(v) ==
  /\ UserMay(v) /\ cur[v] # None /\ ~running[v]
  /\ running' = [running EXCEPT ![v] = TRUE]
  /\ rpcs' = Call(rpcs, v, "send", cur[v])
  /\ UNCHANGED <<server, bus, handlers, mount, cur, shown, artifact>>

OnStop(v) ==
  /\ UserMay(v) /\ cur[v] # None /\ running[v]
  /\ rpcs' = Call(rpcs, v, "stop", cur[v])
  /\ UNCHANGED <<server, bus, handlers, mount, view>>

Snapshot(r) == {r.of} \X (1..r.upTo)

(* Slip: the artifact of the session before is not dismissed.               *)
ArtifactKept(r) == IF r.upTo > 0 THEN r.of ELSE artifact[r.by]

(* _captureLatestArtifact; every message is taken to carry an artifact.     *)
LatestArtifact(r) == IF r.upTo > 0 THEN r.of ELSE None

(* The answer to RPC i resumes the function that awaits it.                 *)
Reply(i) ==
  LET r == rpcs[i]
      v == r.by
      rest == RemoveAt(rpcs, i)
  IN
  /\ r.served /\ (OrderedReplies => i = 1)
  /\ \/ /\ r.kind = "pick"
        /\ OpenSession(v, r.of, rest)
        /\ UNCHANGED <<mount, running, shown, artifact>>
     \/ /\ r.kind = "open"
        /\ shown' = [shown EXCEPT ![v] = Snapshot(r)]
        /\ running' = [running EXCEPT ![v] = r.busy]
        /\ artifact' = [artifact EXCEPT ![v] = LatestArtifact(r)]
        /\ mount' = IF mount[v] = "starting" THEN [mount EXCEPT ![v] = "ready"] ELSE mount
        /\ rpcs' = rest /\ UNCHANGED <<handlers, cur>>
     \/ /\ r.kind = "reload"
        /\ shown' = [shown EXCEPT ![v] = Snapshot(r)]
        /\ rpcs' = rest /\ UNCHANGED <<handlers, mount, cur, running, artifact>>
     \/ /\ r.kind \in {"send", "stop"}
        /\ running' = IF r.kind = "stop" \/ ~r.busy
                      THEN [running EXCEPT ![v] = FALSE] ELSE running
        /\ rpcs' = rest /\ UNCHANGED <<handlers, mount, cur, shown, artifact>>
  /\ UNCHANGED <<server, bus>>

(* Slip: done stops the spinner but does not reload the messages.           *)
OnBusEventNoReload(v, e) ==
  /\ running' = [running EXCEPT ![v] =
       IF e.kind = "started" THEN TRUE ELSE IF e.kind = "message" THEN @ ELSE FALSE]
  /\ shown' = IF e.kind = "message" THEN [shown EXCEPT ![v] = @ \cup {<<e.of, e.change>>}]
              ELSE shown
  /\ artifact' = IF e.kind = "message" THEN [artifact EXCEPT ![v] = e.of] ELSE artifact
  /\ rpcs' = rpcs

(* Slip: a missing break: `started` falls through to `message`.             *)
OnBusEventFallsThrough(v, e) ==
  /\ running' = [running EXCEPT ![v] =
       IF e.kind = "started" THEN TRUE ELSE IF e.kind = "message" THEN @ ELSE FALSE]
  /\ shown' = IF e.kind \in {"started", "message"}
              THEN [shown EXCEPT ![v] = @ \cup {<<e.of, e.change>>}] ELSE shown
  /\ artifact' = IF e.kind = "message" THEN [artifact EXCEPT ![v] = e.of] ELSE artifact
  /\ rpcs' = IF e.kind = "done" /\ cur[v] # None THEN Call(rpcs, v, "reload", cur[v]) ELSE rpcs

(* _onBusEvent of view v; done reloads whatever session is open by now.     *)
OnBusEvent(v, e) ==
  /\ running' = [running EXCEPT ![v] =
       IF e.kind = "started" THEN TRUE ELSE IF e.kind = "message" THEN @ ELSE FALSE]
  /\ shown' = IF e.kind = "message" THEN [shown EXCEPT ![v] = @ \cup {<<e.of, e.change>>}]
              ELSE shown
  /\ artifact' = IF e.kind = "message" THEN [artifact EXCEPT ![v] = e.of] ELSE artifact
  /\ rpcs' = IF e.kind = "done" /\ cur[v] # None THEN Call(rpcs, v, "reload", cur[v]) ELSE rpcs

(* The service hands the next notification to the handler of its session.   *)
Deliver ==
  /\ bus # <<>> /\ bus' = Tail(bus)
  /\ IF handlers[Head(bus).of] = None
     THEN UNCHANGED <<rpcs, running, shown, artifact>>
     ELSE OnBusEvent(handlers[Head(bus).of], Head(bus))
  /\ UNCHANGED <<server, handlers, mount, cur>>

-----------------------------------------------------------------------------
ServerNext == \E s \in Sessions :
  Started(s) \/ MessageChanges(s) \/ TurnDone(s) \/ TurnFails(s) \/ WorkerLost(s)

UserNext == \E v \in Views :
  \/ Start(v) \/ Mount(v) \/ Unmount(v) \/ OnSend(v) \/ OnStop(v)
  \/ \E s \in Sessions : ClickSession(v, s) \/ ClickNew(v, s)

Next ==
  \/ ServerNext \/ UserNext \/ Deliver
  \/ \E i \in DOMAIN rpcs : Serve(i) \/ Reply(i)

Spec == Init /\ [][Next]_vars

(***************************************************************************)
(* Properties                                                              *)
(***************************************************************************)
OnScreen(v) == mount[v] = "mounted"

(* No other view was ever started.                                          *)
Alone(v) == \A w \in Views \ {v} : mount[w] = "none"

(* Nothing is on its way to view v.                                         *)
Quiet(v) == bus = <<>> /\ \A i \in DOMAIN rpcs : rpcs[i].by # v

(* A view is told the events of the session it has open and of no other,    *)
(* however the user jumps between sessions while answers are outstanding:   *)
(* of no other whatever views come and go, of this one while it is alone.   *)
ToldOfOpenSession ==
  \A v \in Views, s \in Sessions :
    /\ handlers[s] = v => cur[v] = s
    /\ OnScreen(v) /\ Alone(v) /\ cur[v] = s => handlers[s] = v

(* Once a turn has ended with done and everything has arrived, a view that  *)
(* is told shows the messages of its session, all of them and no others,   *)
(* although it was opened in the middle of the turn or a snapshot was       *)
(* overtaken by events (if answers keep the order of the requests).         *)
SettledTurnShown ==
  \A v \in Views, s \in Sessions :
    handlers[s] = v /\ Quiet(v) /\ settled[s] = saved[s] => shown[v] = {s} \X (1..saved[s])

(* "Surface this conversation's most recent chart/report on the right":     *)
(* once everything has arrived, the artifact is one of the open session.    *)
ArtifactOfOpenSession ==
  \A v \in Views : OnScreen(v) /\ Quiet(v) => artifact[v] \in {None, cur[v]}

(* The next two are what names and comments say; the code does not keep to  *)
(* them.                                                                    *)
(*                                                                          *)
(* "disabled" (composer.js) says a turn is running: a view whose turn has   *)
(* ended with done, and to which all has arrived, takes the next message.   *)
(* (Broken when the answer to the opening is older than done and comes      *)
(* after it; the reaper, which sends no event, is not even considered.)     *)
SettledTurnFreesView ==
  \A v \in Views : OnScreen(v) /\ Quiet(v) /\ settled[cur[v]] = saved[cur[v]] =>
    ~running[v]

(* grokoo_service: notifications are fanned out to "the currently-open chat *)
(* component": unless a new one is about to replace it, the view on screen  *)
(* has the handler of the session it has open.  (Broken when the action is   *)
(* opened again over itself.)                                               *)
OpenChatIsTold ==
  \A v \in Views :
    OnScreen(v) /\ (\A w \in Views : mount[w] \notin {"starting", "ready"}) =>
      handlers[cur[v]] = v
=============================================================================
