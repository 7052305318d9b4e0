----------------------------- MODULE RetainedLog -----------------------------
(***************************************************************************)
(* What a stream promises its users, without ring, slots, watermarks or    *)
(* partitions: a log that keeps a suffix of what was accepted and, for     *)
(* each consumer, the set of retained messages it has not acknowledged.    *)
(***************************************************************************)
EXTENDS Integers

CONSTANTS Values, Consumers, Miss

VARIABLES
    window,   \* retained sequence number -> message
    next,     \* the next sequence number
    pending,  \* consumer that joined -> retained messages it has not acknowledged
    got       \* what the last read returned: <<number, message>> or Miss

vars == <<window, next, pending, got>>

Init ==
    /\ window = [s \in {} |-> Miss]
    /\ next = 1
    /\ pending = [c \in {} |-> {}]
    /\ got = Miss

\* nobody is still waiting for s
Settled(s) == \A c \in DOMAIN pending : s \notin pending[c]

\* The oldest messages may go, but only settled ones.
Kept(keep) ==
    /\ keep \subseteq DOMAIN window
    /\ \A s \in keep, t \in DOMAIN window : t > s => t \in keep
    /\ \A s \in DOMAIN window \ keep : Settled(s)

\* A message is accepted under the next number, owed to every consumer.
Accept(v) ==
    \E keep \in SUBSET DOMAIN window :
        /\ Kept(keep)
        /\ window' = [s \in keep \cup {next} |-> IF s = next THEN v ELSE window[s]]
        /\ pending' = [c \in DOMAIN pending |-> pending[c] \cup {next}]
        /\ next' = next + 1
        /\ UNCHANGED got

\* A refused message may have made the log drop settled ones.
Refuse ==
    \E keep \in SUBSET DOMAIN window :
        /\ Kept(keep)
        /\ window' = [s \in keep |-> window[s]]
        /\ UNCHANGED <<next, pending, got>>

\* A consumer joins and is owed everything retained, or leaves.
Join(c) ==
    /\ c \notin DOMAIN pending
    /\ pending' = [d \in DOMAIN pending \cup {c} |->
                      IF d = c THEN DOMAIN window ELSE pending[d]]
    /\ UNCHANGED <<window, next, got>>
Leave(c) ==
    /\ pending' = [d \in DOMAIN pending \ {c} |-> pending[d]]
    /\ UNCHANGED <<window, next, got>>

\* An acknowledgement of s settles s, and perhaps older messages, for c only.
Settle(c, s) ==
    /\ c \in DOMAIN pending /\ s \in DOMAIN window
    /\ \E rest \in SUBSET pending[c] :
          /\ s \notin rest
          /\ \A t \in pending[c] : t > s => t \in rest
          /\ pending' = [pending EXCEPT ![c] = rest]
    /\ UNCHANGED <<window, next, got>>

\* A read returns the message of that number, or misses.
Read(s) ==
    /\ got' \in {Miss} \cup (IF s \in DOMAIN window THEN {<<s, window[s]>>} ELSE {})
    /\ UNCHANGED <<window, next, pending>>

Next ==
    \/ \E v \in Values : Accept(v)
    \/ Refuse
    \/ \E c \in Consumers : Join(c) \/ Leave(c) \/ \E s \in DOMAIN window : Settle(c, s)
    \/ \E s \in 1 .. next : Read(s)

Spec == Init /\ [][Next]_vars
=============================================================================
