---------------------------- MODULE MCFilestore ----------------------------
(* Instances of Filestore for TLC: a value and a tombstone of one key, and a *)
(* longer payload without a key.                                             *)
EXTENDS Filestore, TLC

CONSTANTS val, tomb, plain, key

MCSize  == [p \in Payloads |-> IF p = plain THEN 2 ELSE 1]
MCKeyOf == [p \in Payloads |-> IF p = plain THEN NoKey ELSE key]

=============================================================================
