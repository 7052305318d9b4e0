----------------------------- MODULE MCMailbox -----------------------------
(* Two workers with one client each that send each other REQUESTs; plain     *)
(* SENDs go to the first client.                                             *)
EXTENDS Mailbox, TLC

CONSTANTS w1, w2, a, b, r1, r2, s1

MCOwner == (a :> w1) @@ (b :> w2)
MCFrom  == [r \in Requests |-> IF r = r1 THEN a ELSE b]
MCTo    == [r \in Requests |-> IF r = r1 THEN b ELSE a]
MCDest  == [s \in Sends |-> a]

=============================================================================
