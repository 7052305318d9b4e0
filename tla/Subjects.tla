------------------------------ MODULE Subjects ------------------------------
(***************************************************************************)
(* Subjects and subscription patterns: sequences of tokens, where "*" stands *)
(* for one token and a final ">" for the rest.  The server keeps the same    *)
(* matcher twice, subject_match of enterprise/cmq_account.c and              *)
(* sub_pattern_match of server/cmq_server.c.                                 *)
(***************************************************************************)
EXTENDS Naturals, Sequences

(* A final ">" also matches no token at all: a.> matches a.                  *)
SubjectMatch(p, s) ==
    LET rest == p # <<>> /\ p[Len(p)] = ">"
        n    == IF rest THEN Len(p) - 1 ELSE Len(p)
    IN /\ IF rest THEN Len(s) >= n ELSE Len(s) = n
       /\ \A i \in 1 .. n : p[i] \in {"*", s[i]}

(* pattern_wildcard_only: no literal token, as in ">" and "*.>"              *)
WildcardOnly(p) == \A i \in 1 .. Len(p) : p[i] \in {"*", ">"}

=============================================================================
