------------------------------ MODULE Credits -------------------------------
(***************************************************************************)
(* The counters of connections and subscriptions of an account in            *)
(* enterprise/cmq_account.c: account_inc_counter, account_undo_stale_inc and *)
(* the two dec functions, which use no lock, against the deletions and       *)
(* creations of the account.  The two counters run the same code on fields   *)
(* of their own, so one counter stands for both; a taker is one CONNECT or   *)
(* one SUBSCRIBE of server/cmq_server.c, from the epoch it copied to the end *)
(* of what it counts.                                                        *)
(*                                                                           *)
(* Epoch and clear_gen only grow and the account is never active with an     *)
(* epoch it had before, so a look at active, epoch and clear_gen one after   *)
(* the other finds what one look at the time of the first load finds.  Each  *)
(* other access to the counter or to clear_gen is a step of its own.         *)
(***************************************************************************)
EXTENDS Integers, FiniteSets

CONSTANTS
    Takers,         \* CONNECTs and SUBSCRIBEs of the account
    Limits,         \* values of max_connections, max_subscriptions; 0: none
    MaxLife         \* bound: epochs explored

ASSUME CreditsAssumption ==
    IsFiniteSet(Takers) /\ Limits \subseteq Nat /\ MaxLife \in Nat

VARIABLES
    slot,       \* active, epoch, clear_gen, the counter n and its limit
    admin,      \* what the holder of mgr->lock has left of a delete or create
    call,       \* call[h]: where h is, its epoch, and the locals g0 and cur;
                \* got is history: the clear_gen its credit belongs to
    torn        \* history: the last clear met a call between check and swap

creditVars == <<slot, admin, call, torn>>

Out == [pc |-> "out", ep |-> 0, g0 |-> 0, cur |-> 0, got |-> 0]

CreditInit ==
    /\ \E m \in Limits :
           slot = [active |-> TRUE, epoch |-> 1, gen |-> 1, n |-> 0, max |-> m]
    /\ admin = "none"
    /\ call = [h \in Takers |-> Out]
    /\ torn = FALSE

-----------------------------------------------------------------------------
(* account_delete_impl and account_create_impl: account_bump_epoch, the two  *)
(* stores of account_clear_counters, then active.                            *)

BumpEpoch ==
    /\ admin = "none" /\ slot.epoch < MaxLife
    /\ slot' = [slot EXCEPT !.epoch = @ + 1]
    /\ admin' = "gen"
    /\ UNCHANGED <<call, torn>>

BumpGen ==
    /\ admin = "gen"
    /\ slot' = [slot EXCEPT !.gen = @ + 1]
    /\ admin' = "zero"
    /\ UNCHANGED <<call, torn>>

(* A swap decided before the clear and not yet done, or an add under the new *)
(* clear_gen that the store of 0 wipes out                                   *)
Swapping == {"add", "swap", "undo_swap", "dec_swap"}
Caught(h) == \/ call[h].pc \in Swapping /\ call[h].g0 # slot.gen
             \/ call[h].got = slot.gen

ClearCounter ==
    /\ admin = "zero"
    /\ slot' = [slot EXCEPT !.n = 0]
    /\ torn' = \E h \in Takers : Caught(h)
    /\ admin' = "flip"
    /\ UNCHANGED call

FlipActive ==
    /\ admin = "flip"
    /\ slot' = [slot EXCEPT !.active = ~@]
    /\ admin' = "none"
    /\ UNCHANGED <<call, torn>>

-----------------------------------------------------------------------------
Turn(h, p)  == call' = [call EXCEPT ![h].pc = p]
Leave(h)    == call' = [call EXCEPT ![h] = Out]
Seen(h)     == slot.active /\ slot.epoch = call[h].ep
Fence(h)    == Seen(h) /\ slot.gen = call[h].g0
InCall(h, p) == call[h].pc = p

(* cmq_account_get, under mgr->lock                                          *)
GetEpoch(h) ==
    /\ InCall(h, "out") /\ admin = "none" /\ slot.active
    /\ call' = [call EXCEPT ![h].pc = "look", ![h].ep = slot.epoch]
    /\ UNCHANGED <<slot, admin, torn>>

-----------------------------------------------------------------------------
(* account_inc_counter                                                       *)

IncLook(h) ==
    /\ InCall(h, "look")
    /\ \/ Seen(h) /\ Turn(h, "gen")
       \/ ~Seen(h) /\ Leave(h)
    /\ UNCHANGED <<slot, admin, torn>>

IncGen(h) ==
    /\ InCall(h, "gen")
    /\ call' = [call EXCEPT ![h].g0 = slot.gen,
                            ![h].pc = IF slot.max = 0 THEN "add" ELSE "load"]
    /\ UNCHANGED <<slot, admin, torn>>

(* No limit: fetch_add, with no look before it                               *)
IncAdd(h) ==
    /\ InCall(h, "add")
    /\ slot' = [slot EXCEPT !.n = @ + 1]
    /\ call' = [call EXCEPT ![h].got = call[h].g0, ![h].pc = "check"]
    /\ UNCHANGED <<admin, torn>>

IncLoad(h) ==
    /\ InCall(h, "load")
    /\ call' = [call EXCEPT ![h].cur = slot.n, ![h].pc = "try"]
    /\ UNCHANGED <<slot, admin, torn>>

IncTry(h) ==
    /\ InCall(h, "try")
    /\ \/ Fence(h) /\ call[h].cur < slot.max /\ Turn(h, "swap")
       \/ (~Fence(h) \/ call[h].cur >= slot.max) /\ Leave(h)
    /\ UNCHANGED <<slot, admin, torn>>

IncSwap(h) ==
    /\ InCall(h, "swap")
    /\ \/ /\ slot.n = call[h].cur
          /\ slot' = [slot EXCEPT !.n = @ + 1]
          /\ call' = [call EXCEPT ![h].got = call[h].g0, ![h].pc = "check"]
       \/ /\ slot.n # call[h].cur
          /\ call' = [call EXCEPT ![h].cur = slot.n, ![h].pc = "try"]
          /\ UNCHANGED slot
    /\ UNCHANGED <<admin, torn>>

(* The second look after the credit                                          *)
IncCheck(h) ==
    /\ InCall(h, "check")
    /\ Turn(h, IF Fence(h) THEN "held" ELSE "undo")
    /\ UNCHANGED <<slot, admin, torn>>

-----------------------------------------------------------------------------
(* account_undo_stale_inc                                                    *)

UndoLoad(h) ==
    /\ InCall(h, "undo")
    /\ call' = [call EXCEPT ![h].cur = slot.n, ![h].pc = "undo_try"]
    /\ UNCHANGED <<slot, admin, torn>>

(* Mutant: the undo does not look at clear_gen.                              *)
UndoTry_AnyGen(h) ==
    /\ InCall(h, "undo_try")
    /\ Turn(h, "undo_swap")
    /\ UNCHANGED <<slot, admin, torn>>

UndoTry(h) ==
    /\ InCall(h, "undo_try")
    /\ \/ slot.gen = call[h].g0 /\ Turn(h, "undo_swap")
       \/ slot.gen # call[h].g0 /\ Leave(h)
    /\ UNCHANGED <<slot, admin, torn>>

UndoSwap(h) ==
    /\ InCall(h, "undo_swap")
    /\ \/ /\ slot.n = call[h].cur
          /\ slot' = [slot EXCEPT !.n = IF @ > 1 THEN @ - 1 ELSE 0]
          /\ Leave(h)
       \/ /\ slot.n # call[h].cur
          /\ call' = [call EXCEPT ![h].cur = slot.n, ![h].pc = "undo_try"]
          /\ UNCHANGED slot
    /\ UNCHANGED <<admin, torn>>

-----------------------------------------------------------------------------
(* cmq_account_dec_connections, cmq_account_dec_subscriptions: the session   *)
(* or the subscription ends, or the look of the server after the credit      *)
(* finds the account gone.                                                   *)

EndHeld(h) ==
    /\ InCall(h, "held")
    /\ Turn(h, "dec")
    /\ UNCHANGED <<slot, admin, torn>>

DecLook(h) ==
    /\ InCall(h, "dec")
    /\ \/ Seen(h) /\ Turn(h, "dec_gen")
       \/ ~Seen(h) /\ Leave(h)
    /\ UNCHANGED <<slot, admin, torn>>

DecGen(h) ==
    /\ InCall(h, "dec_gen")
    /\ call' = [call EXCEPT ![h].g0 = slot.gen, ![h].pc = "dec_load"]
    /\ UNCHANGED <<slot, admin, torn>>

DecLoad(h) ==
    /\ InCall(h, "dec_load")
    /\ call' = [call EXCEPT ![h].cur = slot.n, ![h].pc = "dec_try"]
    /\ UNCHANGED <<slot, admin, torn>>

DecTry(h) ==
    LET go == /\ call[h].cur > 0
              /\ slot.epoch = call[h].ep /\ slot.gen = call[h].g0
    IN /\ InCall(h, "dec_try")
       /\ \/ go /\ Turn(h, "dec_swap")
          \/ ~go /\ Leave(h)
       /\ UNCHANGED <<slot, admin, torn>>

DecSwap(h) ==
    /\ InCall(h, "dec_swap")
    /\ \/ /\ slot.n = call[h].cur
          /\ slot' = [slot EXCEPT !.n = @ - 1]
          /\ Leave(h)
       \/ /\ slot.n # call[h].cur
          /\ call' = [call EXCEPT ![h].cur = slot.n, ![h].pc = "dec_try"]
          /\ UNCHANGED slot
    /\ UNCHANGED <<admin, torn>>

-----------------------------------------------------------------------------
CreditAdmin == BumpEpoch \/ BumpGen \/ ClearCounter \/ FlipActive

CreditCall(h) ==
    \/ GetEpoch(h)
    \/ IncLook(h) \/ IncGen(h) \/ IncAdd(h) \/ IncLoad(h) \/ IncTry(h) \/ IncSwap(h)
    \/ IncCheck(h) \/ UndoLoad(h) \/ UndoTry(h) \/ UndoSwap(h)
    \/ EndHeld(h) \/ DecLook(h) \/ DecGen(h) \/ DecLoad(h) \/ DecTry(h) \/ DecSwap(h)

CreditNext == CreditAdmin \/ \E h \in Takers : CreditCall(h)

CreditSpec == CreditInit /\ [][CreditNext]_creditVars

-----------------------------------------------------------------------------
Creditors == {h \in Takers : call[h].got = slot.gen}

(* The counter never passes its limit; it counts exactly the credits taken   *)
(* since the last clear, unless that clear fell between the check and the    *)
(* swap of a call; and whoever was let in under the epoch the account still  *)
(* has is counted (account_inc_counter, account_undo_stale_inc and the dec   *)
(* functions against account_clear_counters).                                *)
CreditsExact ==
    /\ slot.max # 0 => slot.n <= slot.max
    /\ admin = "none" /\ slot.active /\ ~torn => slot.n = Cardinality(Creditors)
    /\ \A h \in Takers : InCall(h, "held") /\ Seen(h) => h \in Creditors

=============================================================================
