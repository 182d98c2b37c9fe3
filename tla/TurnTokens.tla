----------------------------- MODULE TurnTokens -----------------------------
(* The bridge token of a turn (_mint_bridge_token and _verify_bridge_token  *)
(* of models/grokoo_session.py) beside the life of the turn.  A token is    *)
(* minted in the transaction of the send, with a life of its own: it is not *)
(* revoked when the turn ends, is stopped or is reaped, only outdated by    *)
(* the next committed send (jti of SessionRuns) or by time.                 *)
EXTENDS SessionRuns

CONSTANT Ttl  \* the token's life (ttl_seconds, 900 s), in ticks

ASSUME TtlAssumption == Ttl \in Nat \ {0}

VARIABLE tok  \* ticks for which the token of a run has not expired

tokenVars == <<vars, tok>>

TokenInit == Init /\ tok = [r \in Runs |-> 0]

(* Slips: the life of a token comes on top of the longest run; the row      *)
(* keeps its salt and jti and only gets a new expiry.                       *)
MintForTurn(r) == tok' = [tok EXCEPT ![r] = Ttl + Overdue]
MintExtends(r) ==
  tok' = [q \in Runs |-> IF q = r \/ sess[q] = sess'[r] THEN Ttl ELSE tok[q]]

(* Salt, jti and expiry are drawn in the request; the row has them once it  *)
(* commits, and a send that is rolled back leaves the token of the turn     *)
(* before it the current one.                                               *)
Mint(r) == tok' = [tok EXCEPT ![r] = Ttl]

(* Slip: the expiry is not compared.                                        *)
AcceptsForEver(r) == sess[r] # None /\ jti[sess[r]] = r

(* The signature is made with the salt of the row, the jti is that of the   *)
(* row, and neither the payload nor the row has expired.                    *)
Accepts(r) == sess[r] # None /\ jti[sess[r]] = r /\ tok[r] > 0

Elapse == Tick /\ tok' = [r \in Runs |-> IF tok[r] > 0 THEN tok[r] - 1 ELSE 0]

TokenNext ==
  \/ \E r \in Runs, s \in Sessions : SendBegin(r, s) /\ Mint(r)
  \/ \E r \in Runs : RunStep(r) /\ UNCHANGED tok
  \/ \E s \in Sessions : (Stop(s) \/ Reap(s)) /\ UNCHANGED tok
  \/ Elapse

TokenSpec == TokenInit /\ [][TokenNext]_tokenVars

(* Time passes for tokens, too, whatever the runs do.                       *)
TokenFairSpec == TokenSpec /\ Fairness /\ WF_tokenVars(Elapse)

TokenTypeOK == tok \in [Runs -> 0..Ttl]

(***************************************************************************)
(* Properties                                                              *)
(***************************************************************************)
(* A token that has been refused once its send was committed is refused    *)
(* from then on, whatever sends of the session follow, are rolled back or  *)
(* retried.  ToolGateway builds on it: its tokenOk never becomes true      *)
(* again.                                                                  *)
LapseIsFinal ==
  [][\A r \in Runs : phase[r] \notin {"unused", "sending"} /\ ~Accepts(r)
                       => ~Accepts(r)']_tokenVars

(* The CLI of a turn the reaper gives up may live on (its pid may be        *)
(* unknown), but it can no longer act on Odoo: its token has expired.  The  *)
(* two clocks start at different moments and only one of them is refreshed; *)
(* it holds while the token's life is no longer than the reaper's wait.     *)
ReapedIsDenied ==
  [][\A s \in Sessions : Reap(s) /\ Ttl <= Timeout + Grace
                            => \A r \in Of(s) : ~Accepts(r)]_tokenVars

(* A turn that is over does not leave an open door: its token is refused    *)
(* in the end, although nothing revokes it.                                 *)
LeftoverLapses == \A r \in Runs : phase[r] \in Ended ~> ~Accepts(r)

(* README: tokens "expire", and the turn they are for has its own limit     *)
(* timeout_s: a CLI within its deadline is not refused.  The token is older *)
(* than the deadline, and its life does not follow timeout_s.               *)
TurnKeepsToken == \A r \in Runs : InTime(r) /\ jti[sess[r]] = r => Accepts(r)
=============================================================================
