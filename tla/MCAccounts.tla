----------------------------- MODULE MCAccounts -----------------------------
(***************************************************************************)
(* The account manager: the table under its lock, with three names for two   *)
(* slots, and the counter of one account, which takes no lock.  Neither      *)
(* looks at the other, so a behaviour picks one of the two and leaves the    *)
(* other as it starts.                                                       *)
(***************************************************************************)
EXTENDS Accounts, Credits, TLC

CONSTANTS n1, n2, n3

VARIABLE side

MCPatterns == {<<">">>, <<"a", "b">>}
MCSources  == {<<"a", "b">>}
MCTopics   == {<<"a", "b">>, <<"c">>, <<"_INBOX", "x">>}
MCInboxes  == {<<"_INBOX", "x">>}

MCInit ==
    /\ Init /\ CreditInit
    /\ side \in {"table", "counter"}
    /\ side = "table" => slot.max = 0

TableNext   == side = "table" /\ Next /\ UNCHANGED <<side, creditVars>>
CounterNext == side = "counter" /\ CreditNext /\ UNCHANGED <<side, vars>>
MCNext      == TableNext \/ CounterNext

Sym == Permutations(Names)
=============================================================================
