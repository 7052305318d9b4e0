------------------------------ MODULE MCStores ------------------------------
(***************************************************************************)
(* The stores for model checking: a stream, one $JS stream on disk, and    *)
(* the $KV and $OBJ stores.  They do not interact, so a behaviour picks    *)
(* one of them and leaves the others as they start.  A read of a stream    *)
(* does not look at partitions, so a behaviour of the stream has readers   *)
(* ("read") or partitions and appends by key ("parts"); the files of the   *)
(* $OBJ store ("obj") are not those of the buckets ("kv").                 *)
(***************************************************************************)
EXTENDS StreamApi

CONSTANTS
    c1, o1, o1t, o1tt,
    Torn, Junk, NoSlot, Rotates, MaxPublish, MaxRestart, MaxReload, MaxTrouble,
    Buckets, Keys, KvValues, Empty, NoTable, BucketMax, SlotMax, MaxWrite

VARIABLES
    side,
    slot, disk, json, def, rotate, sent, oked, settled, astray, lastLost, jbudget,
    table, wal, blob, on, logged, want, kept, wantBlob, crowded, budget

jsVars == <<slot, disk, json, def, rotate, sent, oked, settled, astray, lastLost, jbudget>>
kvVars == <<table, wal, blob, on, logged, want, kept, wantBlob, crowded, budget>>

MCSize == [v \in Values |-> v]
MCPart == [x \in Values \X (1 .. MaxParts) |-> (IF x[1] = 1 THEN 0 ELSE 5) % x[2]]
MCTemp == (o1 :> o1t) @@ (o1t :> o1tt)
JsMsgs == 1 .. Junk

Js == INSTANCE JetStream WITH
    Values <- JsMsgs, Size <- [v \in JsMsgs |-> 1],
    PartOf <- [x \in JsMsgs \X (1 .. 2) |-> x[1] % x[2]],
    MaxParts <- 2, MaxBytes <- 0, Consumers <- {c1}, on <- json, budget <- jbudget
Kv == INSTANCE KeyValue WITH
    Values <- KvValues, Objects <- {o1, o1t}, Temp <- MCTemp

MCInit ==
    /\ side \in {"read", "parts", "js", "kv", "obj"}
    /\ Init /\ Js!Init /\ Kv!Init
    /\ side # "js" => json = FALSE /\ def = 1 /\ rotate = 0
    /\ side # "kv" => \A b \in Buckets : wal[b] = <<>>
    /\ side \notin {"kv", "obj"} => on = FALSE

StreamNext ==
    /\ side \in {"read", "parts"} /\ Next
    /\ side = "read" => st'.nparts = 1 /\ wr' = wr
    /\ side = "parts" => rd' = rd
    /\ UNCHANGED <<side, jsVars, kvVars>>
JsNext == side = "js" /\ Js!Next /\ UNCHANGED <<side, vars, kvVars>>
KvNext ==
    /\ side \in {"kv", "obj"} /\ Kv!Next
    /\ side = "kv" => blob' = blob /\ wantBlob' = wantBlob
    /\ side = "obj" => table' = table /\ wal' = wal
    /\ UNCHANGED <<side, vars, jsVars>>
MCNext == StreamNext \/ JsNext \/ KvNext

-----------------------------------------------------------------------------
\* A published $JS message is owed to every known consumer until it acknowledges it,
\* across kills and reopens, and a pull hands out the oldest (module JetStream,
\* cmq_js_publish, js_replay_msgs and cmq_js_consume).
NothingSkipped == Js!NothingSkipped

\* REQUEST $JS never answers with a message older than the newest acknowledged one
\* (module JetStream, js_save_last and cmq_js_last).
LastNotStale == Js!LastNotStale

\* A bucket gives the last answered write of a key, across kills, failed records and a
\* late persist_dir, and an object is the last blob put, whole, or absent (module
\* KeyValue, cmq_kv_put, kv_replay and cmq_obj_put).
Recovered == Kv!KvRecovered /\ Kv!BlobWhole
=============================================================================
