--------------------------- MODULE MCIngestRecovery ---------------------------
(* IngestRecovery on a small instance: a frame and its retry with a new nonce. *)
EXTENDS IngestRecovery, TLC

CONSTANTS h1, s1, b1, n1, n2, k1

OneHandler == {h1}
OneStore == {s1}
OneBody == {b1}
TwoNonces == {n1, n2}
OneKey == {k1}

Original == [stamp |-> 1, nonce |-> n1, key |-> k1, body |-> b1, form |-> "ok"]
Resigned == [Original EXCEPT !.nonce = n2]
TwoRequests == {Original, Resigned}

MatchAll == (b1 :> {s1})
==============================================================================
