------------------------------ MODULE SlotPool ------------------------------
(* What the cap of send_message (models/grokoo_session.py) promises:        *)
(* a pool of slots, one per session that is `running`, entered through      *)
(* requests that check the pool on a snapshot and enter it only when they   *)
(* commit.  The check and the entry are two steps, so the cap is soft; the  *)
(* pool says by how much.  SessionRuns implements it.                       *)
EXTENDS Integers, FiniteSets

CONSTANTS
  Sessions,       \* what can hold a slot
  Requests,       \* send requests
  MaxConcurrent,  \* the cap, 0 = none
  HttpWorkers     \* requests that can be open at once

VARIABLES
  running,  \* sessions that hold a slot
  open,     \* requests between their check and their commit
  done      \* requests that were answered

vars == <<running, open, done>>

TypeOK ==
  /\ running \in SUBSET Sessions
  /\ open \in SUBSET Requests
  /\ done \in SUBSET Requests

Init == running = {} /\ open = {} /\ done = {}

(* The check, on a snapshot of the committed rows.                         *)
Check(r) ==
  /\ r \notin open \cup done
  /\ Cardinality(open) < HttpWorkers
  /\ MaxConcurrent = 0 \/ Cardinality(running) < MaxConcurrent
  /\ open' = open \cup {r}
  /\ UNCHANGED <<running, done>>

(* The commit: a free session takes a slot; the requests that lose the     *)
(* race for the same row are sent away with it.                            *)
Enter(r, s, losers) ==
  /\ r \in open \ losers /\ s \notin running
  /\ running' = running \cup {s}
  /\ open' = open \ (losers \cup {r})
  /\ done' = done \cup losers \cup {r}

(* A session gives its slot back (settled, stopped or reaped), or only     *)
(* makes open requests fail.                                               *)
Leave(freed, losers) ==
  /\ running' = running \ freed
  /\ open' = open \ losers
  /\ done' = done \cup losers

Next ==
  \/ \E r \in Requests : Check(r)
  \/ \E losers \in SUBSET open :
       \/ \E r \in Requests, s \in Sessions : Enter(r, s, losers)
       \/ \E freed \in SUBSET running : Leave(freed, losers)

Spec == Init /\ [][Next]_vars

(* The soft cap: the comment of send_message says that simultaneous bursts *)
(* "may briefly exceed the cap".  They exceed it by less than the number   *)
(* of requests that can be open at once, never by more.                    *)
SoftCap ==
  MaxConcurrent > 0 =>
    Cardinality(running) + Cardinality(open) <= MaxConcurrent - 1 + HttpWorkers
=============================================================================
