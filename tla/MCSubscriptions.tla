-------------------------- MODULE MCSubscriptions --------------------------
(* Two clients on two workers.                                               *)
EXTENDS Subscriptions, TLC

CONSTANTS w1, w2, a, b, s1, s2, none, g

MCOwner     == (a :> w1) @@ (b :> w2)
Sub(p, q)   == [pat |-> p, grp |-> q]
MCInterests == {Sub(<<"*", "n">>, none), Sub(<<"n", ">">>, g), Sub(<<"i", "n">>, none)}
MCTopics    == {<<"n", "n">>, <<"i", "n">>}
MCInboxes   == {<<"i", "n">>}

(* Either one publication and one fault of any kind, or two faults and no    *)
(* publication.                                                              *)
Unspent == [k \in DOMAIN Limit |-> 0]
MCInit  == Fresh /\ spent \in {[Unspent EXCEPT !.admin = 1], [Unspent EXCEPT !.pub = 1]}
MCSpec  == MCInit /\ [][Next]_vars

(* The two clients may change places together with their workers, and the    *)
(* two subscription ids with each other.                                     *)
Swap == {f \in Permutations({a, b, w1, w2, s1, s2}) :
             /\ \A c \in {a, b} : f[c] \in {a, b} /\ MCOwner[f[c]] = f[MCOwner[c]]
             /\ f[s1] \in {s1, s2} /\ f[s2] \in {s1, s2}}

=============================================================================
