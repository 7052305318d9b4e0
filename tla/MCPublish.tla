----------------------------- MODULE MCPublish ------------------------------
(***************************************************************************)
(* What becomes of a publish: the handlers that answer it, and the log it   *)
(* is appended to.  A handler ignores what the append returns and the log   *)
(* never looks at a handler, so a behaviour picks one of the two and leaves *)
(* the other as it starts.                                                  *)
(***************************************************************************)
EXTENDS Publish

CONSTANTS
    c1, c2,                                       \* connections
    val, tomb, plain, key,                        \* payloads and their key
    NoKey, Unknown, Torn, Nobody, RotateAt, DirtyNum, DirtyDen, Young, RingMax,
    Troubles, MaxAppend, MaxOpen, MaxUpkeep, MaxTrouble

VARIABLES
    side,
    data, idx, adata, aidx, have, synced, status, job, cache, due, ring,
    acked, promised, harm, sealed, exact, spent, hit

(* Producers 1 and 2 of a window table of one slot, sequence numbers up to   *)
(* twice the window                                                          *)
MsgIds == {1, 2} \X (0 .. 2 * Window)

(* Two batches that compete for the budget while the account is deleted and  *)
(* recreated; producers out of order; and every kind of frame with every     *)
(* outcome while the account may be deleted.                                 *)
MCPlans ==
    {[conns |-> {c1, c2}, ops |-> {"batch"}, sizes |-> {1}, finds |-> {"few"},
      cluster |-> {FALSE}, ids |-> {<<>>}, epochs |-> 3, jobs |-> 1, connects |-> 1],
     [conns |-> {c1}, ops |-> {"publish"}, sizes |-> {1}, finds |-> {"none"},
      cluster |-> {FALSE}, ids |-> MsgIds, epochs |-> 1, jobs |-> 4, connects |-> 1],
     [conns |-> {c1}, ops |-> {"publish", "batch", "request", "response"},
      sizes |-> {0, 1}, finds |-> {"none", "few", "many"}, cluster |-> BOOLEAN,
      ids |-> {<<>>}, epochs |-> 2, jobs |-> 2, connects |-> 1]}

(* A value and a tombstone of one key, and a longer payload without a key    *)
Log == INSTANCE Filestore WITH
    Payloads <- {val, tomb, plain}, Tombs <- {tomb},
    Size <- [p \in {val, tomb, plain} |-> IF p = plain THEN 2 ELSE 1],
    KeyOf <- [p \in {val, tomb, plain} |-> IF p = plain THEN NoKey ELSE key]

ASSUME LogAssumption == Log!FilestoreAssumption

LogVars == <<data, idx, adata, aidx, have, synced, status, job, cache, due, ring,
             acked, promised, harm, sealed, exact, spent, hit>>

MCInit ==
    /\ side \in {"log", "frames"}
    /\ Init /\ Log!Init
    /\ side = "log" => plan.epochs = 1 /\ ~routed

LogNext == side = "log" /\ Log!Next /\ UNCHANGED <<side, vars>>
FramesNext == side = "frames" /\ Next /\ UNCHANGED <<side, LogVars>>
MCNext == LogNext \/ FramesNext

-----------------------------------------------------------------------------
(* What an append acknowledged can be read back, across kill -9 and, once    *)
(* synced, across a power loss (module Filestore, filestore_append_impl).    *)
Durable == Log!Durable

(* A read never returns another payload than the one acknowledged under that *)
(* sequence number (module Filestore, filestore_read_impl).                  *)
ReadSound == Log!ReadSound

(* The archived data file keeps every unkeyed record and the last value of   *)
(* each key, also when only one of two renames was done (module Filestore,   *)
(* filestore_rotate_archive_locked, filestore_compact_keys_impl).            *)
ArchiveView == Log!ArchiveView

(* Opening a store repairs it without dropping an acknowledged record        *)
(* (module Filestore, cmq_filestore_create).                                  *)
ReopenKeeps == Log!ReopenKeeps
=============================================================================
