--------------------------- MODULE TwoPhaseProofs ---------------------------
(* Proofs about the cluster transaction, for any number of peers, threads,  *)
(* ops and faults.                                                           *)
EXTENDS TwoPhase, SequenceTheorems, TLAPS

-----------------------------------------------------------------------------
(* What the building blocks of the actions do to the types. *)

(* cmq_txn_abort and the memset of cmq_txn_commit leave a well-formed entry. *)
LEMMA ClearType ==
    ASSUME TypeEntry, NEW n \in Nodes, Clear(n)
    PROVE  TypeEntry'
<1>1. <<>> \in Seq(Ops) /\ Len(<<>>) <= OpsMax
  BY TwoPhaseAssumption
<1>2. (ops \in [Nodes -> Seq(Ops)])'
  BY <1>1 DEF Clear, TypeEntry
<1>3. (\A m \in Nodes : Len(ops[m]) <= OpsMax)'
  BY <1>1 DEF Clear, TypeEntry
<1>4. (busy \subseteq Nodes /\ prepared \subseteq busy
          /\ parts \subseteq Parts /\ votes \subseteq parts)'
  BY DEF Clear, TypeEntry
<1> QED
  BY <1>2, <1>3, <1>4 DEF TypeEntry

(* An ADD below the bound leaves a well-formed entry. *)
LEMMA AppendType ==
    ASSUME TypeEntry, NEW n \in Nodes, NEW o \in Ops, Len(ops[n]) < OpsMax,
           ops' = [ops EXCEPT ![n] = Append(@, o)],
           UNCHANGED <<busy, prepared, parts, votes>>
    PROVE  TypeEntry'
<1>1. ops[n] \in Seq(Ops)
  BY DEF TypeEntry
<1>2. Append(ops[n], o) \in Seq(Ops) /\ Len(Append(ops[n], o)) = Len(ops[n]) + 1
  BY <1>1, AppendProperties
<1>3. Len(Append(ops[n], o)) <= OpsMax
  BY <1>1, <1>2, TwoPhaseAssumption, LenProperties
<1>4. (ops \in [Nodes -> Seq(Ops)])'
  BY <1>2 DEF TypeEntry
<1>5. (\A m \in Nodes : Len(ops[m]) <= OpsMax)'
  BY <1>3 DEF TypeEntry
<1> QED
  BY <1>4, <1>5 DEF TypeEntry

(* A handler that returns leaves well-typed locals. *)
LEMMA LeaveType ==
    ASSUME TypeThreads, NEW t \in Drainers, Leave(t), UNCHANGED <<link, voting>>
    PROVE  TypeThreads'
<1>1. <<>> \in Seq(Ops)
  OBVIOUS
<1> QED
  BY <1>1 DEF TypeThreads, Labels, Leave

(* txn_fanout_op starts a broadcast with well-typed locals. *)
LEMMA FanOutType ==
    ASSUME TypeThreads, NEW t \in Drainers,
           NEW j \in {"prepare", "abort", "cabort", "commit"}, NEW f,
           FanOut(t, j, f), UNCHANGED <<link, voting>>
    PROVE  TypeThreads'
BY DEF TypeThreads, Labels, FanOut, loop, drain

(* A peer whose connection is dropped keeps the broadcast well typed. *)
LEMMA CutType ==
    ASSUME TypeThreads, NEW p \in Parts, Vanish(p),
           link' = [link EXCEPT ![p] = "down"],
           UNCHANGED <<voting, pc, job, loop, di, rest>>
    PROVE  TypeThreads'
<1>1. link' \in [Parts -> {"up", "torn", "down"}]
  BY DEF TypeThreads
<1>2. todo' \in [Drainers -> SUBSET Parts] /\ missed' \subseteq Drainers
  BY DEF TypeThreads, Vanish
<1> QED
  BY <1>1, <1>2 DEF TypeThreads, loop

(* A spent request or fault keeps the counters natural. *)
LEMMA SpendType ==
    ASSUME TypeHistory, NEW k \in Limited, Spend(k)
    PROVE  spent' \in [Limited -> Nat]
BY DEF TypeHistory, Spend

(* A handler that returns adds a well-formed outcome to the history. *)
LEMMA ReturnType ==
    ASSUME TypeHistory, NEW t, NEW r \in {"ok", "error"}, Return(t, r)
    PROVE  reply' \subseteq {"ok", "error"}
BY DEF TypeHistory, Return

-----------------------------------------------------------------------------
(* What they do to the frames that are under way. *)

(* route_write_named puts only its own frame on the connection. *)
LEMMA WriteCarried ==
    ASSUME NEW F, NEW p \in Parts, NEW f \in F, wire \in [Parts -> Seq(F)],
           Write(p, f)
    PROVE  wire' \in [Parts -> Seq(F)]
<1>1. Append(wire[p], f) \in Seq(F)
  BY AppendProperties
<1> QED
  BY <1>1 DEF Write

(* retry_offer puts only its own frame in the queue. *)
LEMMA OfferCarried ==
    ASSUME NEW F, NEW p \in Parts, NEW f \in F,
           retry \in [Slots -> [peer : Parts, frame : F] \cup {Nothing}],
           Offer(p, f)
    PROVE  retry' \in [Slots -> [peer : Parts, frame : F] \cup {Nothing}]
<1>1. [peer |-> p, frame |-> f] \in [peer : Parts, frame : F]
  OBVIOUS
<1> QED
  BY <1>1 DEF Offer

(* Dropping a connection moves its unread frames and adds none. *)
LEMMA CutCarried ==
    ASSUME NEW F, NEW p \in Parts, wire \in [Parts -> Seq(F)],
           stale \in [Parts -> Seq(F)], Cut(p)
    PROVE  wire' \in [Parts -> Seq(F)] /\ stale' \in [Parts -> Seq(F)]
<1>1. PICK k \in 0..Len(wire[p]) :
          stale' = [stale EXCEPT ![p] = @ \o SubSeq(wire[p], 1, k)]
  BY DEF Cut
<1>2. wire[p] \in Seq(F) /\ stale[p] \in Seq(F)
  OBVIOUS
<1>3. \A i \in 1..k : wire[p][i] \in F
  BY <1>2, LenProperties, ElementOfSeq
<1>4. SubSeq(wire[p], 1, k) \in Seq(F)
  BY <1>2, <1>3, SubSeqProperties, LenProperties
<1>5. stale[p] \o SubSeq(wire[p], 1, k) \in Seq(F)
  BY <1>2, <1>4, ConcatProperties
<1>6. stale' \in [Parts -> Seq(F)]
  BY <1>1, <1>5
<1>7. wire' \in [Parts -> Seq(F)]
  BY DEF Cut
<1> QED
  BY <1>6, <1>7

(* The frames other than COMMIT. *)
Quiet == {f \in Frame : f.kind # "COMMIT"}

(* Every control frame but COMMIT, and every ADD, is a quiet frame. *)
LEMMA QuietFrames ==
    /\ Ctl("BEGIN") \in Quiet /\ Ctl("PREPARE") \in Quiet
    /\ Ctl("ABORT") \in Quiet
    /\ \A o \in Ops : Add(o) \in Quiet
    /\ Quiet \subseteq Frame /\ Ctl("COMMIT") \in Frame
BY DEF Quiet, Frame, Ctl, Add

(* A handler that returns sends nothing. *)
LEMMA LeaveCarried ==
    ASSUME NEW F, Carried(F), Ctl("BEGIN") \in F, NEW t \in Drainers, Leave(t),
           pc \in [Drainers -> Labels], UNCHANGED <<wire, stale, retry>>
    PROVE  Carried(F)'
BY DEF Carried, Leave

(* A fan-out carries the one frame it was started with. *)
LEMMA FanOutCarried ==
    ASSUME NEW F, Carried(F), NEW t \in Drainers, NEW j, NEW f \in F,
           FanOut(t, j, f), UNCHANGED <<wire, stale, retry>>
    PROVE  Carried(F)'
BY DEF Carried, FanOut, drain

(* A step of the program counter alone sends nothing. *)
LEMMA StepCarried ==
    ASSUME NEW F, Carried(F), NEW t \in Drainers, NEW v, v # "resend",
           pc' = pc \/ pc' = [pc EXCEPT ![t] = v],
           pc \in [Drainers -> Labels],
           UNCHANGED <<wire, stale, retry, frame, held>>
    PROVE  Carried(F)'
BY DEF Carried

(* Frames only ever come from the handlers: if F has every kind but COMMIT,  *)
(* and COMMIT too once the coordinator has committed, F stays closed.        *)
LEMMA CarriedStep ==
    ASSUME NEW F \in SUBSET Frame, Quiet \subseteq F,
           commits[Coord] > 0 => Ctl("COMMIT") \in F,
           Announced, TypeOK, Carried(F), [Next]_vars
    PROVE  Carried(F)'
<1> USE DEF entry, history, disk, tables, routes, loop, drain, locals
<1>f. /\ Ctl("BEGIN") \in F /\ Ctl("PREPARE") \in F /\ Ctl("ABORT") \in F
      /\ \A o \in Ops : Add(o) \in F
  BY QuietFrames
<1>p. pc \in [Drainers -> Labels]
  BY DEF TypeOK, TypeThreads
<1>d. Threads \subseteq Drainers /\ Sidecar \in Drainers
  BY DEF Drainers
<1>r. \A r : \A t \in Drainers :
          Return(t, r) /\ UNCHANGED <<wire, stale, retry>> => Carried(F)'
  BY <1>f, <1>p, LeaveCarried DEF Return
<1>a. \A t \in Drainers : AbortAndReturn(t) /\ UNCHANGED <<wire, stale, retry>>
                                => Carried(F)'
  BY <1>r DEF AbortAndReturn
<1>1. CASE UNCHANGED vars
  BY <1>1 DEF vars, Carried
<1>2. CASE ClientBegin \/ \E o \in Ops : ClientAdd(o)
  BY <1>2 DEF ClientBegin, ClientAdd, Carried
<1>3. ASSUME NEW t \in Threads, ClientAbort(t) \/ ClientCommit(t)
      PROVE  Carried(F)'
  <2>1. CASE ClientAbort(t)
    BY <2>1, <1>d, <1>f, FanOutCarried DEF ClientAbort
  <2>2. CASE ClientCommit(t)
    BY <2>2, <1>d, <1>p, StepCarried DEF ClientCommit
  <2> QED BY <1>3, <2>1, <2>2
<1>4. ASSUME NEW t \in Drainers, DrainTake(t)
      PROVE  Carried(F)'
  BY <1>4 DEF DrainTake, NextUsed, Carried
<1>5. ASSUME NEW t \in Drainers, DrainWrite(t)
      PROVE  Carried(F)'
  <2> DEFINE p == held[t].peer
             f == held[t].frame
  <2>1. p \in Parts /\ f \in F
    BY <1>5 DEF DrainWrite, Carried
  <2>2. wire' \in [Parts -> Seq(F)]
    <3> HIDE DEF p, f
    <3>1. wire' = wire \/ Write(p, f)
      BY <1>5 DEF DrainWrite, p, f
    <3> QED BY <2>1, <3>1, WriteCarried DEF Carried
  <2>3. retry' \in [Slots -> [peer : Parts, frame : F] \cup {Nothing}]
    <3> HIDE DEF p, f
    <3>1. retry' = retry \/ Offer(p, f)
      BY <1>5 DEF DrainWrite, p, f
    <3> QED BY <2>1, <3>1, OfferCarried DEF Carried
  <2> QED BY <1>5, <1>p, <2>2, <2>3 DEF DrainWrite, Carried
<1>6. CASE SidecarDrain \/ SidecarDone
  <2>1. CASE SidecarDrain
    BY <2>1, <1>d, <1>p, StepCarried DEF SidecarDrain
  <2>2. CASE SidecarDone
    BY <2>2, <1>d, <1>f, <1>p, LeaveCarried DEF SidecarDone
  <2> QED BY <1>6, <2>1, <2>2
<1>7. ASSUME NEW t \in Threads, Handler(t)
      PROVE  Carried(F)'
  <2> t \in Drainers
    BY <1>d
  <2>1. CASE LiveParts(t) \/ \E p \in Parts : AddPart(t, p)
    BY <2>1, <1>r, <1>p, StepCarried DEF LiveParts, AddPart
  <2>2. CASE Prepare(t) \/ CountParts(t)
    BY <2>2, <1>r, <1>p, <1>f, StepCarried, FanOutCarried DEF Prepare, CountParts
  <2>3. CASE Snapshot(t)
    BY <2>3, <1>p, StepCarried DEF Snapshot
  <2>4. ASSUME NEW p \in Parts, WritePeer(t, p)
        PROVE  Carried(F)'
    <3>1. frame[t] \in F /\ wire \in [Parts -> Seq(F)]
      BY DEF Carried
    <3>2. wire' \in [Parts -> Seq(F)]
      BY <2>4, <3>1, WriteCarried, CutCarried DEF WritePeer, Carried
    <3>3. stale' \in [Parts -> Seq(F)]
      BY <2>4, <3>1, CutCarried DEF WritePeer, Carried
    <3>4. retry' \in [Slots -> [peer : Parts, frame : F] \cup {Nothing}]
      BY <2>4, <3>1, OfferCarried DEF WritePeer, Carried
    <3> QED BY <2>4, <3>2, <3>3, <3>4 DEF WritePeer, Carried
  <2>5. CASE BroadcastDone(t)
    BY <2>5, <1>p, StepCarried DEF BroadcastDone
  <2>6. CASE AfterBegin(t) \/ AfterAdd(t) \/ AfterPrepare(t)
    BY <2>6, <1>a, <1>p, StepCarried DEF AfterBegin, AfterAdd, AfterPrepare
  <2>7. CASE NextOp(t)
    <3>1. Coord \in Nodes /\ ops[Coord] \in Seq(Ops)
      BY DEF TypeOK, TypeEntry, Nodes
    <3>2. idx[t] \in Nat /\ idx[t] >= 1
      BY <2>7 DEF NextOp, TypeOK, TypeThreads
    <3>3. idx[t] <= Len(ops[Coord]) => ops[Coord][idx[t]] \in Ops
      BY <3>1, <3>2, LenProperties, ElementOfSeq
    <3> QED BY <2>7, <1>a, <1>f, <3>3, FanOutCarried DEF NextOp
  <2>8. CASE AfterDecision(t)
    BY <2>8, <1>a, <1>r, <1>f, <1>p, LeaveCarried DEF AfterDecision
  <2>9. CASE VotesIn(t) \/ WaitFails(t)
    BY <2>9, <1>p, <1>f, StepCarried, FanOutCarried DEF VotesIn, WaitFails
  <2>10. CASE CommitKnown(t)
    BY <2>10, <1>r, FanOutCarried DEF CommitKnown, Announced
  <2>11. CASE CommitRefused(t) \/ CommitNotLogged(t)
    BY <2>11, <1>r, <1>f, FanOutCarried
       DEF CommitRefused, CommitNotLogged, CommitFails, LogFails
  <2>12. CASE CommitLogged(t)
    BY <2>12, <1>p, StepCarried DEF CommitLogged
  <2>13. CASE ApplyOp(t)
    BY <2>13, <1>r, <1>f, <1>p, StepCarried, FanOutCarried DEF ApplyOp
  <2>14. CASE ApplyDone(t)
    BY <2>14, <1>r, FanOutCarried DEF ApplyDone, Announced
  <2> QED
    BY <1>4, <1>5, <1>7, <2>1, <2>2, <2>3, <2>4, <2>5, <2>6, <2>7, <2>8,
       <2>9, <2>10, <2>11, <2>12, <2>13, <2>14 DEF Handler
<1>8. ASSUME NEW p \in Parts, Peer(p)
      PROVE  Carried(F)'
  <2>1. CASE Receive(p)
    <3>1. wire[p] # <<>> => Tail(wire[p]) \in Seq(F)
      BY HeadTailProperties DEF Carried
    <3>2. stale[p] # <<>> => Tail(stale[p]) \in Seq(F)
      BY HeadTailProperties DEF Carried
    <3> QED BY <2>1, <3>1, <3>2 DEF Receive, Carried
  <2>2. CASE RecvVote(p) \/ LoseVote(p)
    BY <2>2 DEF RecvVote, LoseVote, Carried
  <2> QED BY <1>8, <2>1, <2>2 DEF Peer
<1>9. ASSUME NEW p \in Parts, Flap(p) \/ Reconnect(p) \/ CrashPart(p)
      PROVE  Carried(F)'
  <2>1. CASE Flap(p)
    BY <2>1, CutCarried DEF Flap, Carried
  <2>2. CASE Reconnect(p)
    BY <2>2 DEF Reconnect, Carried
  <2>3. CASE CrashPart(p)
    BY <2>3 DEF CrashPart, Carried
  <2> QED BY <1>9, <2>1, <2>2, <2>3
<1>11. ASSUME NEW n \in Nodes, OtherCutShort(n)
       PROVE  Carried(F)'
  BY <1>11 DEF OtherCutShort, Carried
<1>10. CASE CrashCoord
  <2>1. \A p \in Parts : stale[p] \o wire[p] \in Seq(F)
    BY ConcatProperties DEF Carried
  <2> QED BY <1>10, <1>f, <2>1 DEF CrashCoord, Carried
<1> QED
  BY <1>1, <1>2, <1>3, <1>4, <1>5, <1>6, <1>7, <1>8, <1>9, <1>10, <1>11, <1>d
     DEF Next, Client, SidecarStep, Fault

-----------------------------------------------------------------------------
(* The type invariant. *)

(* cmq_txn_create and the route pool start well typed. *)
LEMMA InitType == Init => TypeOK
<1> SUFFICES ASSUME Init PROVE TypeOK
  OBVIOUS
<1>1. <<>> \in Seq(Ops) /\ <<>> \in Seq(Frame) /\ Len(<<>>) <= OpsMax
  BY TwoPhaseAssumption
<1>2. TypeEntry
  BY <1>1 DEF Init, TypeEntry
<1>3. TypeHistory
  BY <1>1 DEF Init, TypeHistory
<1>4. TypeThreads
  BY <1>1 DEF Init, TypeThreads, Labels
<1>5. Carried(Frame)
  BY <1>1, QuietFrames DEF Init, Carried
<1> QED BY <1>2, <1>3, <1>4, <1>5 DEF TypeOK

(* Every step keeps the txn table entries well formed; ADD keeps the bound. *)
LEMMA EntryStep ==
    ASSUME TypeOK, [Next]_vars
    PROVE  TypeEntry'
<1> USE DEF entry, history, disk, tables, routes, loop, drain, locals
<1>e. TypeEntry
  BY DEF TypeOK
<1>c. Coord \in Nodes /\ Parts \subseteq Nodes
  BY DEF Nodes
<1>a. \A t : AbortAndReturn(t) => TypeEntry'
  BY <1>e, <1>c, ClearType DEF AbortAndReturn
<1>u. UNCHANGED entry => TypeEntry'
  BY <1>e DEF TypeEntry
<1>1. CASE UNCHANGED vars
  BY <1>1, <1>u DEF vars
<1>2. CASE ClientBegin
  BY <1>2, <1>e, <1>c DEF ClientBegin, Begin, TypeEntry
<1>3. ASSUME NEW o \in Ops, ClientAdd(o)
      PROVE  TypeEntry'
  BY <1>3, <1>e, <1>c, AppendType DEF ClientAdd, CanAdd
<1>4. ASSUME NEW t, ClientAbort(t) \/ ClientCommit(t)
      PROVE  TypeEntry'
  BY <1>4, <1>e, <1>c, <1>u, ClearType DEF ClientAbort, ClientCommit
<1>5. ASSUME NEW t, DrainTake(t) \/ DrainWrite(t)
      PROVE  TypeEntry'
  BY <1>5, <1>u DEF DrainTake, DrainWrite
<1>6. CASE SidecarDrain \/ SidecarDone
  BY <1>6, <1>u DEF SidecarDrain, SidecarDone
<1>7. ASSUME NEW t, Handler(t)
      PROVE  TypeEntry'
  <2>1. CASE LiveParts(t) \/ CountParts(t)
    BY <2>1, <1>u DEF LiveParts, CountParts
  <2>2. CASE Prepare(t) \/ \E p \in Parts : AddPart(t, p)
    BY <2>2, <1>e DEF Prepare, AddPart, TypeEntry
  <2>3. CASE Snapshot(t) \/ BroadcastDone(t) \/ \E p \in Parts : WritePeer(t, p)
    BY <2>3, <1>u DEF Snapshot, BroadcastDone, WritePeer
  <2>4. CASE AfterBegin(t) \/ AfterAdd(t) \/ AfterPrepare(t) \/ AfterDecision(t)
    BY <2>4, <1>u, <1>a DEF AfterBegin, AfterAdd, AfterPrepare, AfterDecision
  <2>5. CASE NextOp(t)
    BY <2>5, <1>u, <1>a DEF NextOp
  <2>6. CASE VotesIn(t) \/ WaitFails(t) \/ CommitKnown(t) \/ CommitRefused(t)
    BY <2>6, <1>u DEF VotesIn, WaitFails, CommitKnown, CommitRefused
  <2>7. CASE CommitLogged(t)
    BY <2>7, <1>e, <1>c, ClearType DEF CommitLogged, LogCommit
  <2>8. CASE CommitNotLogged(t) \/ ApplyOp(t) \/ ApplyDone(t)
    BY <2>8, <1>u DEF CommitNotLogged, LogFails, ApplyOp, ApplyDone
  <2> QED
    BY <1>5, <1>7, <2>1, <2>2, <2>3, <2>4, <2>5, <2>6, <2>7, <2>8 DEF Handler
<1>8. ASSUME NEW p \in Parts, Peer(p)
      PROVE  TypeEntry'
  <2>1. ASSUME NEW f \in Frame, Recv(p, f)
        PROVE  TypeEntry'
    <3>1. CASE RecvBegin(p, f)
      BY <3>1, <1>e, <1>c DEF RecvBegin, Begin, TypeEntry
    <3>2. CASE RecvAdd(p, f)
      <4>1. f.op \in Ops
        BY <3>2 DEF RecvAdd, Frame
      <4>2. CASE CanAdd(p)
        BY <3>2, <4>1, <4>2, <1>e, <1>c, AppendType DEF RecvAdd, CanAdd
      <4> QED BY <3>2, <4>2, <1>u DEF RecvAdd
    <3>3. CASE RecvPrepare(p, f)
      BY <3>3, <1>e, <1>c DEF RecvPrepare, Begin, TypeEntry
    <3>4. CASE RecvCommit(p, f)
      BY <3>4, <1>e, <1>c, <1>u, ClearType DEF RecvCommit, LogCommit, LogFails
    <3>5. CASE RecvAbort(p, f)
      BY <3>5, <1>e, <1>c, ClearType DEF RecvAbort
    <3> QED BY <2>1, <3>1, <3>2, <3>3, <3>4, <3>5 DEF Recv
  <2>2. CASE Receive(p)
    <3>1. wire[p] # <<>> => Head(wire[p]) \in Frame
      BY HeadTailProperties DEF TypeOK, Carried
    <3>2. stale[p] # <<>> => Head(stale[p]) \in Frame
      BY HeadTailProperties DEF TypeOK, Carried
    <3> QED BY <2>1, <2>2, <3>1, <3>2 DEF Receive
  <2>3. CASE RecvVote(p)
    BY <2>3, <1>e DEF RecvVote, TypeEntry
  <2>4. CASE LoseVote(p)
    BY <2>4, <1>u DEF LoseVote
  <2> QED BY <1>8, <2>2, <2>3, <2>4 DEF Peer
<1>9. ASSUME NEW p \in Parts, Flap(p) \/ Reconnect(p) \/ CrashPart(p)
      PROVE  TypeEntry'
  BY <1>9, <1>e, <1>c, <1>u, ClearType DEF Flap, Reconnect, CrashPart, Restart
<1>10. CASE CrashCoord
  BY <1>10, <1>e, <1>c, ClearType DEF CrashCoord, Restart
<1>11. ASSUME NEW n \in Nodes, OtherCutShort(n)
       PROVE  TypeEntry'
  BY <1>11, <1>u DEF OtherCutShort
<1> QED
  BY <1>1, <1>2, <1>3, <1>4, <1>5, <1>6, <1>7, <1>8, <1>9, <1>10, <1>11
     DEF Next, Client, SidecarStep, Fault

(* Every step keeps what was applied, decided and answered well typed. *)
LEMMA HistoryStep ==
    ASSUME TypeOK, [Next]_vars
    PROVE  TypeHistory'
<1> USE DEF entry, history, disk, tables, routes, loop, drain, locals
<1>h. TypeHistory
  BY DEF TypeOK
<1>c. Coord \in Nodes /\ Parts \subseteq Nodes
  BY DEF Nodes
<1>k. {"begin", "commit", "abort", "eagain", "hard", "crash", "io"} = Limited
  BY DEF Limited
<1>s. \A k \in Limited : Spend(k) => spent' \in [Limited -> Nat]
  BY <1>h, SpendType
<1>r. \A t, r : r \in {"ok", "error"} /\ Return(t, r) =>
          reply' \subseteq {"ok", "error"}
  BY <1>h, ReturnType
<1>a. \A t : AbortAndReturn(t) =>
          reply' \subseteq {"ok", "error"}
  BY <1>r DEF AbortAndReturn
<1>l. \A n \in Nodes : LogCommit(n) =>
          done' \subseteq Nodes /\ log' \subseteq Nodes /\ skew' \subseteq Nodes
          /\ lost' \subseteq Nodes /\ commits' \in [Nodes -> Nat]
  BY <1>h DEF LogCommit, TypeHistory
<1>x. \A n \in Nodes : CutShort(n) =>
          log' \subseteq Nodes /\ skew' \subseteq Nodes /\ lost' \subseteq Nodes
  BY <1>h DEF CutShort, TypeHistory
<1>y. \A n \in Nodes : LogFails(n) /\ reply' \subseteq {"ok", "error"} => TypeHistory'
  BY <1>h, <1>x, <1>k, <1>s DEF LogFails, TypeHistory
<1>1. CASE UNCHANGED vars
  BY <1>1, <1>h DEF vars, TypeHistory
<1>2. CASE ClientBegin \/ \E o \in Ops : ClientAdd(o)
  BY <1>2, <1>h, <1>k, <1>s DEF ClientBegin, ClientAdd, TypeHistory
<1>4. ASSUME NEW t, ClientAbort(t) \/ ClientCommit(t)
      PROVE  TypeHistory'
  BY <1>4, <1>h, <1>k, <1>s DEF ClientAbort, ClientCommit, TypeHistory
<1>5. ASSUME NEW t, DrainTake(t) \/ DrainWrite(t)
      PROVE  TypeHistory'
  BY <1>5, <1>h, <1>k, <1>s DEF DrainTake, DrainWrite, TypeHistory
<1>6. CASE SidecarDrain \/ SidecarDone
  BY <1>6, <1>h DEF SidecarDrain, SidecarDone, TypeHistory
<1>7. ASSUME NEW t \in Threads, Handler(t)
      PROVE  TypeHistory'
  <2>1. CASE LiveParts(t) \/ (\E p \in Parts : AddPart(t, p)) \/ Prepare(t)
             \/ CountParts(t)
    BY <2>1, <1>h, <1>r DEF LiveParts, AddPart, Prepare, CountParts, TypeHistory
  <2>3. CASE Snapshot(t) \/ BroadcastDone(t) \/ \E p \in Parts : WritePeer(t, p)
    BY <2>3, <1>h, <1>k, <1>s DEF Snapshot, BroadcastDone, WritePeer, TypeHistory
  <2>4. CASE AfterBegin(t) \/ AfterAdd(t) \/ AfterPrepare(t) \/ AfterDecision(t)
    BY <2>4, <1>h, <1>a, <1>r
       DEF AfterBegin, AfterAdd, AfterPrepare, AfterDecision, TypeHistory
  <2>5. CASE NextOp(t)
    BY <2>5, <1>h, <1>a DEF NextOp, TypeHistory
  <2>6. CASE VotesIn(t) \/ WaitFails(t) \/ CommitKnown(t) \/ CommitRefused(t)
    BY <2>6, <1>h, <1>r
       DEF VotesIn, WaitFails, CommitKnown, CommitRefused, CommitFails, TypeHistory
  <2>7. CASE CommitLogged(t)
    BY <2>7, <1>h, <1>c, <1>l DEF CommitLogged, TypeHistory, TypeOK, TypeEntry
  <2>8. CASE CommitNotLogged(t)
    <3>1. reply' \subseteq {"ok", "error"}
      BY <2>8, <1>h, <1>r DEF CommitNotLogged, CommitFails, TypeHistory
    <3> QED BY <2>8, <3>1, <1>c, <1>y DEF CommitNotLogged
  <2>9. CASE ApplyOp(t)
    <3>1. rest[t] # <<>> => Head(rest[t]) \in Ops
      BY HeadTailProperties DEF TypeOK, TypeThreads, Drainers
    <3>2. rest[t] # <<>> => Append(applied[Coord], Head(rest[t])) \in Seq(Ops)
      BY <3>1, <1>c, <1>h, AppendProperties DEF TypeHistory
    <3> QED BY <2>9, <3>2, <1>h, <1>k, <1>s, <1>r DEF ApplyOp, TypeHistory
  <2>10. CASE ApplyDone(t)
    BY <2>10, <1>h, <1>r DEF ApplyDone, TypeHistory
  <2> QED
    BY <1>5, <1>7, <2>1, <2>3, <2>4, <2>5, <2>6, <2>7, <2>8, <2>9, <2>10
       DEF Handler
<1>8. ASSUME NEW p \in Parts, Peer(p)
      PROVE  TypeHistory'
  <2>1. ASSUME NEW f, Recv(p, f), UNCHANGED reply
        PROVE  TypeHistory'
    <3>1. CASE RecvBegin(p, f) \/ RecvAdd(p, f) \/ RecvPrepare(p, f)
               \/ RecvAbort(p, f)
      BY <3>1, <2>1, <1>h
         DEF RecvBegin, RecvAdd, RecvPrepare, RecvAbort, TypeHistory
    <3>2. CASE RecvCommit(p, f)
      <4>1. \A k \in 0..Len(ops[p]) :
                applied[p] \o SubSeq(ops[p], 1, k) \in Seq(Ops)
        <5> SUFFICES ASSUME NEW k \in 0..Len(ops[p])
                     PROVE  applied[p] \o SubSeq(ops[p], 1, k) \in Seq(Ops)
          OBVIOUS
        <5>1. ops[p] \in Seq(Ops) /\ applied[p] \in Seq(Ops)
          BY <1>c DEF TypeOK, TypeEntry, TypeHistory
        <5>2. \A i \in 1..k : ops[p][i] \in Ops
          BY <5>1, LenProperties, ElementOfSeq
        <5>3. SubSeq(ops[p], 1, k) \in Seq(Ops)
          BY <5>1, <5>2, SubSeqProperties, LenProperties
        <5> QED BY <5>1, <5>3, ConcatProperties
      <4>2. CASE UNCHANGED <<tables, spent>>
        BY <4>2, <2>1, <1>h DEF TypeHistory
      <4>3. ASSUME LogCommit(p), UNCHANGED joined, NEW k \in 0..Len(ops[p]),
                   applied' = [applied EXCEPT ![p] = @ \o SubSeq(ops[p], 1, k)],
                   UNCHANGED spent \/ Spend("io")
            PROVE  TypeHistory'
        <5>1. applied' \in [Nodes -> Seq(Ops)]
          BY <4>1, <4>3, <1>h, <1>c DEF TypeHistory
        <5>2. spent' \in [Limited -> Nat]
          BY <4>3, <1>h, <1>k, <1>s DEF TypeHistory
        <5>3. done' \subseteq Nodes /\ log' \subseteq Nodes /\ skew' \subseteq Nodes
              /\ lost' \subseteq Nodes /\ commits' \in [Nodes -> Nat]
          BY <4>3, <1>c, <1>l
        <5> QED
          BY <4>3, <5>1, <5>2, <5>3, <2>1, <1>h DEF TypeHistory
      <4>4. CASE LogFails(p)
        BY <4>4, <2>1, <1>h, <1>c, <1>y DEF TypeHistory
      <4> QED
        BY <3>2, <4>2, <4>3, <4>4 DEF RecvCommit
    <3> QED BY <2>1, <3>1, <3>2 DEF Recv
  <2>2. CASE Receive(p)
    BY <2>1, <2>2 DEF Receive
  <2>3. CASE RecvVote(p) \/ LoseVote(p)
    BY <2>3, <1>h DEF RecvVote, LoseVote, TypeHistory
  <2> QED BY <1>8, <2>2, <2>3 DEF Peer
<1>9. ASSUME NEW p \in Parts, Flap(p) \/ Reconnect(p) \/ CrashPart(p)
      PROVE  TypeHistory'
  BY <1>9, <1>h, <1>c, <1>k, <1>s
     DEF Flap, Reconnect, CrashPart, Restart, TypeHistory
<1>10. CASE CrashCoord
  BY <1>10, <1>h, <1>c, <1>k, <1>s DEF CrashCoord, Restart, TypeHistory
<1>11. ASSUME NEW n \in Nodes, OtherCutShort(n)
       PROVE  TypeHistory'
  BY <1>11, <1>h, <1>x, <1>k, <1>s DEF OtherCutShort, TypeHistory
<1> QED
  BY <1>1, <1>2, <1>4, <1>5, <1>6, <1>7, <1>8, <1>9, <1>10, <1>11
     DEF Next, Client, SidecarStep, Fault

(* Every step keeps the locals of the handlers and drains well typed. *)
LEMMA ThreadsStep ==
    ASSUME TypeOK, [Next]_vars
    PROVE  TypeThreads'
<1> USE DEF entry, history, disk, tables, routes, loop, drain, locals, Labels
<1>t. TypeThreads
  BY DEF TypeOK
<1>d. Threads \subseteq Drainers /\ Sidecar \in Drainers
  BY DEF Drainers
<1>r. \A r : \A t \in Drainers :
          Return(t, r) /\ UNCHANGED <<link, voting>> => TypeThreads'
  BY <1>t, LeaveType DEF Return
<1>a. \A t \in Drainers : AbortAndReturn(t) /\ UNCHANGED <<link, voting>>
                                => TypeThreads'
  BY <1>r DEF AbortAndReturn
<1>1. CASE UNCHANGED vars
  BY <1>1, <1>t DEF vars, TypeThreads
<1>2. CASE ClientBegin \/ \E o \in Ops : ClientAdd(o)
  BY <1>2, <1>t DEF ClientBegin, ClientAdd, TypeThreads
<1>4. ASSUME NEW t \in Threads, ClientAbort(t) \/ ClientCommit(t)
      PROVE  TypeThreads'
  <2>1. CASE ClientAbort(t)
    BY <2>1, <1>t, <1>d, FanOutType DEF ClientAbort
  <2>2. CASE ClientCommit(t)
    BY <2>2, <1>t, <1>d DEF ClientCommit, TypeThreads
  <2> QED BY <1>4, <2>1, <2>2
<1>5. ASSUME NEW t \in Drainers, DrainTake(t) \/ DrainWrite(t)
      PROVE  TypeThreads'
  <2>1. CASE DrainTake(t)
    <3>1. di' \in [Drainers -> Nat]
      BY <2>1, <1>t DEF DrainTake, Slots, TypeThreads
    <3>2. pc' = [pc EXCEPT ![t] = "resend"]
             /\ UNCHANGED <<link, voting, job, todo, missed, loop, rest>>
      BY <2>1 DEF DrainTake
    <3> QED BY <3>1, <3>2, <1>t DEF TypeThreads
  <2>2. CASE DrainWrite(t)
    <3>1. link' \in [Parts -> {"up", "torn", "down"}]
      BY <2>2, <1>t DEF DrainWrite, TypeThreads
    <3>2. pc' = [pc EXCEPT ![t] = "drain"]
             /\ UNCHANGED <<voting, job, todo, missed, loop, di, rest>>
      BY <2>2 DEF DrainWrite
    <3> QED BY <3>1, <3>2, <1>t DEF TypeThreads
  <2> QED BY <1>5, <2>1, <2>2
<1>6. CASE SidecarDrain \/ SidecarDone
  BY <1>6, <1>t, <1>d, LeaveType DEF SidecarDrain, SidecarDone, TypeThreads
<1>7. ASSUME NEW t \in Threads, Handler(t)
      PROVE  TypeThreads'
  <2> t \in Drainers
    BY <1>d
  <2>1. CASE LiveParts(t) \/ \E p \in Parts : AddPart(t, p)
    <3>1. CASE LiveParts(t)
      <4>1. Live \in SUBSET Parts
        BY DEF Live
      <4> HIDE DEF Live
      <4> QED BY <3>1, <4>1, <1>t, <1>r DEF LiveParts, TypeThreads
    <3>2. ASSUME NEW p \in Parts, AddPart(t, p)
          PROVE  TypeThreads'
      BY <3>2, <1>t, <1>r DEF AddPart, TypeThreads
    <3> QED BY <2>1, <3>1, <3>2
  <2>2. CASE Prepare(t) \/ CountParts(t)
    <3>1. CASE FanOut(t, "prepare", Ctl("BEGIN")) /\ UNCHANGED <<link, voting>>
      BY <3>1, <1>t, FanOutType
    <3>2. CASE /\ pc' = [pc EXCEPT ![t] = "plain"] \/ pc' = [pc EXCEPT ![t] = "count"]
               /\ UNCHANGED <<link, voting, locals>>
      BY <3>2, <1>t DEF TypeThreads
    <3> QED BY <2>2, <1>r, <3>1, <3>2 DEF Prepare, CountParts
  <2>3. CASE Snapshot(t) \/ BroadcastDone(t)
    <3>1. CASE Snapshot(t)
      <4>1. Live \in SUBSET Parts
        BY DEF Live
      <4> HIDE DEF Live
      <4> QED BY <3>1, <4>1, <1>t DEF Snapshot, TypeThreads
    <3>2. CASE BroadcastDone(t)
      BY <3>2, <1>t DEF BroadcastDone, TypeThreads
    <3> QED BY <2>3, <3>1, <3>2
  <2>4. ASSUME NEW p \in Parts, WritePeer(t, p)
        PROVE  TypeThreads'
    <3>1. UNCHANGED <<voting, pc, job, loop, drain, rest>>
      BY <2>4 DEF WritePeer
    <3>2. CASE Cut(p)
      BY <3>1, <3>2, <1>t, CutType DEF Cut
    <3>3. CASE todo' = [todo EXCEPT ![t] = @ \ {p}]
               /\ missed' \in {missed, missed \cup {t}} /\ UNCHANGED link
      BY <3>1, <3>3, <1>t DEF TypeThreads
    <3> QED BY <2>4, <3>2, <3>3 DEF WritePeer
  <2>5. CASE AfterBegin(t)
    <3>1. Coord \in Nodes /\ ops[Coord] \in Seq(Ops)
      BY DEF TypeOK, TypeEntry, Nodes
    <3>2. Len(ops[Coord]) \in Nat
      BY <3>1, LenProperties
    <3>3. CASE UNCHANGED <<entry, reply, job, frame, todo, missed, drain, rest>>
               /\ pc'   = [pc EXCEPT ![t] = "ops"]
               /\ idx'  = [idx EXCEPT ![t] = 1]
               /\ nops' = [nops EXCEPT ![t] = Len(ops[Coord])]
      <4>1. UNCHANGED <<link, voting>>
        BY <2>5 DEF AfterBegin
      <4> QED BY <3>2, <3>3, <4>1, <1>t DEF TypeThreads
    <3> QED BY <2>5, <3>3, <1>a DEF AfterBegin
  <2>6. CASE AfterAdd(t)
    BY <2>6, <1>t DEF AfterAdd, TypeThreads
  <2>7. CASE AfterPrepare(t) \/ AfterDecision(t)
    BY <2>7, <1>t, <1>a, <1>r, LeaveType
       DEF AfterPrepare, AfterDecision, TypeThreads
  <2>8. CASE NextOp(t)
    BY <2>8, <1>t, <1>a, FanOutType DEF NextOp
  <2>9. CASE VotesIn(t)
    BY <2>9, <1>t DEF VotesIn, TypeThreads
  <2>10. CASE WaitFails(t) \/ CommitKnown(t) \/ CommitRefused(t)
              \/ CommitNotLogged(t)
    BY <2>10, <1>t, <1>r, FanOutType
       DEF WaitFails, CommitKnown, CommitRefused, CommitNotLogged, CommitFails
  <2>11. CASE CommitLogged(t)
    BY <2>11, <1>t DEF CommitLogged, TypeThreads, TypeOK, TypeEntry, Nodes
  <2>12. CASE ApplyOp(t)
    <3>1. rest[t] # <<>> => Tail(rest[t]) \in Seq(Ops)
      BY <1>t, HeadTailProperties DEF TypeThreads
    <3>2. CASE UNCHANGED <<reply, spent, pc, job, frame, todo, missed, loop,
                           drain>>
      BY <2>12, <3>1, <3>2, <1>t, <1>r, FanOutType DEF ApplyOp, TypeThreads
    <3> QED BY <2>12, <3>2, <1>t, <1>r, FanOutType DEF ApplyOp
  <2>13. CASE ApplyDone(t)
    BY <2>13, <1>t, <1>r, FanOutType DEF ApplyDone
  <2> QED
    BY <1>5, <1>7, <2>1, <2>2, <2>3, <2>4, <2>5, <2>6, <2>7, <2>8, <2>9,
       <2>10, <2>11, <2>12, <2>13 DEF Handler
<1>8. ASSUME NEW p \in Parts, Peer(p)
      PROVE  TypeThreads'
  <2>1. \A f : Recv(p, f) => voting' \in [Parts -> Nat]
    <3>1. \A f : Recv(p, f) => voting' = voting
                               \/ voting' = [voting EXCEPT ![p] = @ + 1]
      BY DEF Recv, RecvBegin, RecvAdd, RecvPrepare, RecvCommit, RecvAbort
    <3>2. voting \in [Parts -> Nat]
      BY <1>t DEF TypeThreads
    <3> QED BY <3>1, <3>2
  <2>2. CASE Receive(p)
    BY <2>1, <2>2, <1>t DEF Receive, TypeThreads
  <2>3. CASE RecvVote(p) \/ LoseVote(p)
    <3>1. voting[p] > 0 => voting[p] - 1 \in Nat
      BY <1>t DEF TypeThreads
    <3> QED BY <2>3, <3>1, <1>t DEF RecvVote, LoseVote, TypeThreads
  <2> QED BY <1>8, <2>2, <2>3 DEF Peer
<1>9. ASSUME NEW p \in Parts, Flap(p) \/ Reconnect(p) \/ CrashPart(p)
      PROVE  TypeThreads'
  <2>1. CASE Flap(p)
    BY <2>1, <1>t, CutType DEF Flap, Cut
  <2>2. CASE Reconnect(p)
    BY <2>2, <1>t DEF Reconnect, TypeThreads
  <2>3. CASE CrashPart(p)
    BY <2>3, <1>t, CutType DEF CrashPart
  <2> QED BY <1>9, <2>1, <2>2, <2>3
<1>10. CASE CrashCoord
  <2>1. <<>> \in Seq(Ops)
    OBVIOUS
  <2> QED BY <1>10, <2>1, <1>t DEF CrashCoord, TypeThreads
<1>11. ASSUME NEW n \in Nodes, OtherCutShort(n)
       PROVE  TypeThreads'
  BY <1>11, <1>t DEF OtherCutShort, TypeThreads
<1> QED
  BY <1>1, <1>2, <1>4, <1>5, <1>6, <1>7, <1>8, <1>9, <1>10, <1>11, <1>d
     DEF Next, Client, SidecarStep, Fault

(* Every step keeps the type invariant. *)
LEMMA TypeStep ==
    ASSUME TypeOK, Announced, [Next]_vars
    PROVE  TypeOK'
<1>1. Carried(Frame)'
  BY CarriedStep, QuietFrames DEF TypeOK
<1> QED
  BY <1>1, EntryStep, HistoryStep, ThreadsStep DEF TypeOK

-----------------------------------------------------------------------------
(* The decision. *)

Inv == TypeOK /\ Decided

(* Nothing is decided at the start and no frame is under way. *)
LEMMA InitDecided == Init => Decided
<1> SUFFICES ASSUME Init PROVE Decided
  OBVIOUS
<1>1. <<>> \in Seq(Quiet)
  OBVIOUS
<1>2. Carried(Quiet)
  BY <1>1, QuietFrames DEF Init, Carried
<1>3. NoCommitYet
  BY <1>2 DEF Init, NoCommitYet, Quiet, Nodes
<1> QED
  BY <1>3 DEF Init, Decided, Remembered, Announced, OkIsDurable

(* What a step may do to the memory of commits, the logs and the counters:  *)
(* a record that a load finds is never lost, and a node decides again only  *)
(* when the record it decided with was appended to the part of another one. *)
LEMMA LogStep ==
    ASSUME Inv, [Next]_vars
    PROVE  /\ Remembered'
           /\ log \subseteq log' /\ lost \subseteq lost'
           /\ done \subseteq done' \cup lost
           /\ commits'[Coord] >= commits[Coord]
<1> USE DEF entry, history, disk, tables, routes, loop, drain, locals
<1> DEFINE G == /\ Remembered'
                /\ log \subseteq log' /\ lost \subseteq lost'
                /\ done \subseteq done' \cup lost
                /\ commits'[Coord] >= commits[Coord]
<1>c. Coord \in Nodes /\ Parts \subseteq Nodes
  BY DEF Nodes
<1>d. /\ done \subseteq log \cup lost
      /\ busy \cap done = {}
      /\ \A n \in Nodes \ lost : commits[n] = 0 \/ (commits[n] = 1 /\ n \in done)
      /\ done \subseteq Nodes
      /\ commits \in [Nodes -> Nat]
  BY DEF Inv, Decided, Remembered, TypeOK, TypeHistory
<1>u. UNCHANGED <<done, commits, lost>> /\ log \subseteq log' /\ busy' \cap done = {} => G
  BY <1>d, <1>c DEF Remembered
<1>s. UNCHANGED <<busy, done, commits, disk>> => G
  BY <1>u, <1>d
<1>b. \A n \in Nodes : Begin(n) /\ UNCHANGED <<done, commits, disk>> => G
  BY <1>u, <1>d DEF Begin
<1>e. \A n \in Nodes : Clear(n) /\ UNCHANGED <<done, commits, disk>> => G
  BY <1>u, <1>d DEF Clear
<1>f. \A n \in Nodes : LogFails(n) => G
  BY <1>u, <1>d DEF LogFails, CutShort
<1>l. \A m \in Nodes : m \notin done /\ LogCommit(m) => G
  <2> SUFFICES ASSUME NEW m \in Nodes, m \notin done, LogCommit(m)
               PROVE  G
    OBVIOUS
  <2>1. /\ done' = done \cup {m} /\ busy' = busy \ {m}
        /\ log \subseteq log' /\ lost \subseteq lost' /\ m \in log' \cup lost'
        /\ commits' = [commits EXCEPT ![m] = @ + 1]
    BY <1>d DEF LogCommit, Clear
  <2>2. \A n \in Nodes \ lost' : commits'[n] = 0 \/ (commits'[n] = 1 /\ n \in done')
    BY <1>d, <2>1
  <2>3. commits'[Coord] >= commits[Coord]
    BY <1>d, <1>c, <2>1
  <2> QED BY <1>d, <2>1, <2>2, <2>3 DEF Remembered
<1>r. \A m \in Nodes : Restart(m) /\ UNCHANGED <<disk, commits>> => G
  <2> SUFFICES ASSUME NEW m \in Nodes, Restart(m), UNCHANGED <<disk, commits>>
               PROVE  G
    OBVIOUS
  <2>1. done' = (done \ {m}) \cup (log \cap {m}) /\ busy' = busy \ {m}
    BY DEF Restart, Clear
  <2>2. done' \subseteq log \cup lost /\ done \subseteq done' \cup lost
        /\ busy' \cap done' = {}
    BY <2>1, <1>d
  <2>3. \A n \in Nodes \ lost : commits'[n] = 0 \/ (commits'[n] = 1 /\ n \in done')
    BY <1>d, <2>2
  <2> QED BY <1>c, <1>d, <2>2, <2>3 DEF Remembered
<1>a. \A t : AbortAndReturn(t) /\ UNCHANGED <<done, commits, disk>> => G
  BY <1>c, <1>e DEF AbortAndReturn
<1> HIDE DEF G
<1> SUFFICES G
  BY DEF G
<1>1. CASE UNCHANGED vars
  BY <1>1, <1>s DEF vars
<1>2. CASE Client
  <2>1. CASE ClientBegin
    BY <2>1, <1>b, <1>c DEF ClientBegin
  <2>2. ASSUME NEW t, ClientAbort(t)
        PROVE  G
    BY <2>2, <1>e, <1>c DEF ClientAbort
  <2>3. CASE (\E o \in Ops : ClientAdd(o)) \/ \E t \in Threads : ClientCommit(t)
    BY <2>3, <1>s DEF ClientAdd, ClientCommit
  <2> QED BY <1>2, <2>1, <2>2, <2>3 DEF Client
<1>3. ASSUME NEW t \in Threads, Handler(t)
      PROVE  G
  <2>1. CASE CommitLogged(t)
    BY <2>1, <1>c, <1>l DEF CommitLogged
  <2>2. CASE CommitNotLogged(t)
    BY <2>2, <1>c, <1>f DEF CommitNotLogged
  <2>3. CASE LiveParts(t) \/ (\E p \in Parts : AddPart(t, p)) \/ Prepare(t)
             \/ CountParts(t) \/ Snapshot(t)
             \/ (\E p \in Parts : WritePeer(t, p))
             \/ BroadcastDone(t) \/ DrainTake(t) \/ DrainWrite(t)
    BY <2>3, <1>s DEF LiveParts, AddPart, Prepare, CountParts, Snapshot, WritePeer,
                      BroadcastDone, DrainTake, DrainWrite
  <2>4. CASE AfterBegin(t) \/ AfterAdd(t) \/ NextOp(t) \/ AfterPrepare(t)
             \/ AfterDecision(t)
    BY <2>4, <1>s, <1>a DEF AfterBegin, AfterAdd, NextOp, AfterPrepare, AfterDecision
  <2>5. CASE VotesIn(t) \/ WaitFails(t) \/ CommitKnown(t) \/ CommitRefused(t)
             \/ ApplyOp(t) \/ ApplyDone(t)
    BY <2>5, <1>s DEF VotesIn, WaitFails, CommitKnown, CommitRefused, ApplyOp,
                      ApplyDone
  <2> QED BY <1>3, <2>1, <2>2, <2>3, <2>4, <2>5 DEF Handler
<1>4. CASE SidecarStep
  BY <1>4, <1>s DEF SidecarStep, SidecarDrain, SidecarDone, DrainTake, DrainWrite
<1>5. ASSUME NEW p \in Parts, Peer(p)
      PROVE  G
  <2>1. ASSUME NEW f, Recv(p, f)
        PROVE  G
    <3>1. CASE RecvCommit(p, f)
      BY <3>1, <1>c, <1>s, <1>f, <1>l DEF RecvCommit
    <3>2. CASE RecvBegin(p, f) \/ RecvPrepare(p, f)
      BY <3>2, <1>c, <1>b DEF RecvBegin, RecvPrepare
    <3>3. CASE RecvAdd(p, f) \/ RecvAbort(p, f)
      BY <3>3, <1>c, <1>s, <1>e DEF RecvAdd, RecvAbort
    <3> QED BY <2>1, <3>1, <3>2, <3>3 DEF Recv
  <2> QED BY <1>5, <2>1, <1>s DEF Peer, Receive, RecvVote, LoseVote
<1>6. CASE Fault
  <2>1. ASSUME NEW p \in Parts, Flap(p) \/ Reconnect(p) \/ CrashPart(p)
        PROVE  G
    BY <2>1, <1>c, <1>s, <1>r DEF Flap, Reconnect, CrashPart
  <2>2. CASE CrashCoord
    BY <2>2, <1>c, <1>r DEF CrashCoord
  <2>3. ASSUME NEW n \in Nodes, OtherCutShort(n)
        PROVE  G
    BY <2>3, <1>u, <1>d DEF OtherCutShort, CutShort
  <2> QED BY <1>6, <2>1, <2>2, <2>3 DEF Fault
<1> QED
  BY <1>1, <1>2, <1>3, <1>4, <1>5, <1>6 DEF Next

(* A peer decides only on a COMMIT frame, and while the coordinator has not *)
(* committed there is none.                                                 *)
LEMMA PeersWait ==
    ASSUME Inv, [Next]_vars, commits'[Coord] = 0
    PROVE  NoCommitYet'
<1> USE DEF entry, history, disk, tables, routes, loop, drain, locals
<1>c. Coord \notin Parts /\ applied \in [Nodes -> Seq(Ops)] /\ Coord \in Nodes
      /\ Parts \subseteq Nodes /\ commits \in [Nodes -> Nat]
  BY TwoPhaseAssumption DEF Inv, TypeOK, TypeHistory, Nodes
<1>z. commits[Coord] = 0
  BY LogStep, <1>c
<1>n. NoCommitYet
  BY <1>z DEF Inv, Decided
<1>q. Carried(Quiet)
  BY <1>n DEF NoCommitYet, Quiet
<1>f. Carried(Quiet)'
  BY <1>z, <1>q, CarriedStep, QuietFrames DEF Inv, Decided
<1> DEFINE N == \A p \in Parts : p \notin log /\ p \notin done /\ applied[p] = <<>>
<1>p. N
  BY <1>n DEF NoCommitYet
<1>s. UNCHANGED <<log, done, applied>> => N'
  BY <1>p
<1>r. \A n \in Nodes : Restart(n) /\ UNCHANGED <<log, applied>> => N'
  BY <1>p DEF Restart
<1> HIDE DEF N
<1> SUFFICES N'
  BY <1>f DEF NoCommitYet, Quiet, N
<1>1. CASE UNCHANGED vars
  BY <1>1, <1>s DEF vars
<1>2. CASE Client
  BY <1>2, <1>s DEF Client, ClientBegin, ClientAdd, ClientAbort, ClientCommit
<1>3. ASSUME NEW t \in Threads, Handler(t)
      PROVE  N'
  <2>1. CASE CommitLogged(t)
    BY <2>1, <1>z, <1>c DEF CommitLogged, LogCommit
  <2>2. CASE CommitNotLogged(t)
    BY <2>2, <1>p, <1>c DEF CommitNotLogged, LogFails, CutShort, N
  <2>3. CASE LiveParts(t) \/ (\E p \in Parts : AddPart(t, p)) \/ Prepare(t)
             \/ CountParts(t) \/ Snapshot(t)
             \/ (\E p \in Parts : WritePeer(t, p))
             \/ BroadcastDone(t) \/ DrainTake(t) \/ DrainWrite(t)
    BY <2>3, <1>s DEF LiveParts, AddPart, Prepare, CountParts, Snapshot, WritePeer,
                      BroadcastDone, DrainTake, DrainWrite
  <2>4. CASE AfterBegin(t) \/ AfterAdd(t) \/ NextOp(t) \/ AfterPrepare(t)
             \/ AfterDecision(t)
    BY <2>4, <1>s DEF AfterBegin, AfterAdd, NextOp, AfterPrepare, AfterDecision
  <2>5. CASE VotesIn(t) \/ WaitFails(t) \/ CommitKnown(t) \/ CommitRefused(t)
             \/ ApplyDone(t)
    BY <2>5, <1>s DEF VotesIn, WaitFails, CommitKnown, CommitRefused, ApplyDone
  <2>6. CASE ApplyOp(t)
    BY <2>6, <1>z DEF ApplyOp, Inv, Decided, Announced, Drainers
  <2> QED BY <1>3, <2>1, <2>2, <2>3, <2>4, <2>5, <2>6 DEF Handler
<1>4. CASE SidecarStep
  BY <1>4, <1>s DEF SidecarStep, SidecarDrain, SidecarDone, DrainTake, DrainWrite
<1>5. ASSUME NEW p \in Parts, Peer(p)
      PROVE  N'
  <2>1. wire[p] # <<>> => Head(wire[p]) \in Quiet
    BY <1>q, HeadTailProperties DEF Carried
  <2>2. stale[p] # <<>> => Head(stale[p]) \in Quiet
    BY <1>q, HeadTailProperties DEF Carried
  <2>3. \A f \in Quiet : Recv(p, f) => UNCHANGED <<log, done, applied>>
    BY DEF Recv, RecvBegin, RecvAdd, RecvPrepare, RecvCommit, RecvAbort, Quiet
  <2> QED BY <1>5, <2>1, <2>2, <2>3, <1>s DEF Peer, Receive, RecvVote, LoseVote
<1>6. CASE Fault
  <2>1. ASSUME NEW p \in Parts, Flap(p) \/ Reconnect(p) \/ CrashPart(p)
        PROVE  N'
    BY <2>1, <1>c, <1>s, <1>r DEF Flap, Reconnect, CrashPart
  <2>2. CASE CrashCoord
    BY <2>2, <1>c, <1>r DEF CrashCoord
  <2>3. ASSUME NEW n \in Nodes, OtherCutShort(n)
        PROVE  N'
    BY <2>3, <1>s DEF OtherCutShort, CutShort
  <2> QED BY <1>6, <2>1, <2>2, <2>3 DEF Fault
<1> QED
  BY <1>1, <1>2, <1>3, <1>4, <1>5, <1>6 DEF Next

(* A thread applies or announces a commit only when the coordinator has     *)
(* committed, and answers ok only for an id that is known.                  *)
LEMMA AnnounceStep ==
    ASSUME Inv, [Next]_vars
    PROVE  Announced' /\ OkIsDurable'
<1> USE DEF entry, history, disk, tables, routes, loop, drain, locals
<1> DEFINE C == commits[Coord] > 0
           K == Coord \in lost \/ (Coord \in done /\ Coord \in log)
<1>a. Announced /\ OkIsDurable
  BY DEF Inv, Decided
<1>g. commits[Coord] \in Nat /\ commits'[Coord] \in Nat
  BY HistoryStep DEF Inv, TypeOK, TypeHistory, Nodes
<1>m. (C => C') /\ (K => K')
  BY LogStep, <1>g
<1>n. (C => K) /\ (Coord \in done => K)
  BY <1>g DEF Inv, Decided, Remembered, Nodes
<1>i. Coord \in done' /\ Coord \notin done => C' \/ \A t \in Drainers : pc'[t] = "idle"
  <2> SUFFICES ASSUME Coord \in done', Coord \notin done
               PROVE  C' \/ \A t \in Drainers : pc'[t] = "idle"
    OBVIOUS
  <2>1. Coord \notin Parts /\ commits \in [Nodes -> Nat] /\ Coord \in Nodes
    BY TwoPhaseAssumption DEF Inv, TypeOK, TypeHistory, Nodes
  <2>2. CASE CrashCoord
    BY <2>2 DEF CrashCoord
  <2>3. ASSUME NEW t \in Threads, CommitLogged(t)
        PROVE  C'
    BY <2>1, <2>3 DEF CommitLogged, LogCommit
  <2>4. ASSUME NEW t \in Threads, Handler(t), ~CommitLogged(t)
        PROVE  FALSE
    BY <2>4 DEF Handler, LiveParts, AddPart, Prepare, CountParts, Snapshot, WritePeer,
                BroadcastDone, DrainTake, DrainWrite, AfterBegin, AfterAdd, NextOp,
                AfterPrepare, AfterDecision, VotesIn, WaitFails, CommitKnown,
                CommitRefused, CommitNotLogged, LogFails, ApplyOp, ApplyDone
  <2>5. ASSUME NEW p \in Parts, Peer(p)
        PROVE  FALSE
    <3>1. \A f : Recv(p, f) /\ Coord \in done' => Coord \in done
      BY <2>1 DEF Recv, RecvBegin, RecvAdd, RecvPrepare, RecvCommit, RecvAbort,
                  LogCommit, LogFails
    <3> QED BY <2>5, <3>1 DEF Peer, Receive, RecvVote, LoseVote
  <2>6. CASE Client
    BY <2>6 DEF Client, ClientBegin, ClientAdd, ClientAbort, ClientCommit
  <2>7. CASE SidecarStep
    BY <2>7 DEF SidecarStep, SidecarDrain, SidecarDone, DrainTake, DrainWrite
  <2>8. ASSUME NEW p \in Parts, Flap(p) \/ Reconnect(p) \/ CrashPart(p)
        PROVE  FALSE
    BY <2>1, <2>8 DEF Flap, Reconnect, CrashPart, Restart
  <2>9. ASSUME NEW n \in Nodes, OtherCutShort(n)
        PROVE  FALSE
    BY <2>9 DEF OtherCutShort
  <2> QED
    BY <2>2, <2>3, <2>4, <2>5, <2>6, <2>7, <2>8, <2>9 DEF Next, Fault, vars
<1>t. pc \in [Drainers -> Labels] /\ DOMAIN job = Drainers
      /\ job' \in [Drainers -> {"none", "prepare", "abort", "cabort", "commit", "plain"}]
  BY ThreadsStep DEF Inv, TypeOK, TypeThreads
<1>d. Threads \subseteq Drainers /\ Sidecar \in Drainers
  BY DEF Drainers
<1>o. UNCHANGED reply => OkIsDurable'
  BY <1>a, <1>m DEF OkIsDurable
<1>e. \A t : Return(t, "error") => OkIsDurable'
  BY <1>a, <1>m DEF OkIsDurable, Return
<1>k. \A t : K /\ Return(t, "ok") => OkIsDurable'
  BY <1>a, <1>m DEF OkIsDurable, Return
(* What is left of Announced: a thread that newly applies, announces or     *)
(* decides.                                                                 *)
<1> DEFINE W(u) == pc'[u] = "apply" \/ job'[u] = "commit"
                      \/ (pc'[u] = "decide" /\ Coord \in done')
<1>b. ASSUME NEW u \in Drainers, W(u), pc'[u] = pc[u], job'[u] = job[u]
      PROVE  C'
  <2>1. CASE pc[u] = "decide" /\ Coord \notin done
    BY <1>a, <1>b, <1>i, <1>m, <2>1 DEF Announced
  <2> QED BY <1>a, <1>b, <1>m, <2>1 DEF Announced
<1>l. \A t \in Drainers : Leave(t) => Announced'
  <2> SUFFICES ASSUME NEW t \in Drainers, Leave(t), NEW u \in Drainers, W(u)
               PROVE  C'
    BY DEF Announced
  <2>1. u # t
    BY <1>t DEF Leave
  <2> QED BY <1>b, <1>t, <2>1 DEF Leave
<1>f. \A j, f : \A t \in Drainers :
          FanOut(t, j, f) /\ (j # "commit" \/ C) => Announced'
  <2> SUFFICES ASSUME NEW j, NEW f, NEW t \in Drainers, FanOut(t, j, f),
                      j # "commit" \/ C, NEW u \in Drainers, W(u)
               PROVE  C'
    BY DEF Announced
  <2>1. CASE u = t
    BY <1>t, <1>m, <2>1 DEF FanOut
  <2> QED BY <1>b, <1>t, <2>1 DEF FanOut
<1>p. \A v : \A t \in Drainers : v # "apply" /\ UNCHANGED job
          /\ (v = "decide" => Coord \notin done')
          /\ pc' = [pc EXCEPT ![t] = v] => Announced'
  <2> SUFFICES ASSUME NEW v, NEW t \in Drainers, v # "apply", UNCHANGED job,
                      v = "decide" => Coord \notin done',
                      pc' = [pc EXCEPT ![t] = v], NEW u \in Drainers, W(u)
               PROVE  C'
    BY DEF Announced
  <2>1. CASE u = t
    <3>1. pc'[u] = v
      BY <1>t, <2>1
    <3>2. job[u] = "commit"
      BY <3>1, <2>1
    <3> QED BY <3>2, <1>a, <1>m DEF Announced
  <2> QED BY <1>b, <1>t, <2>1
<1>s. UNCHANGED <<pc, job>> => Announced'
  BY <1>b DEF Announced
<1>ae. \A t \in Drainers : AbortAndReturn(t) => Announced' /\ OkIsDurable'
  BY <1>l, <1>e DEF AbortAndReturn, Return
<1> HIDE DEF C, K, W
<1>1. CASE UNCHANGED vars
  BY <1>1, <1>s, <1>o DEF vars
<1>2. CASE Client
  <2>1. CASE ClientBegin \/ \E o \in Ops : ClientAdd(o)
    BY <2>1, <1>s, <1>o DEF ClientBegin, ClientAdd
  <2>2. ASSUME NEW t \in Threads, ClientAbort(t) \/ ClientCommit(t)
        PROVE  Announced' /\ OkIsDurable'
    BY <2>2, <1>d, <1>p, <1>f, <1>o DEF ClientAbort, ClientCommit
  <2> QED BY <1>2, <2>1, <2>2 DEF Client
<1>3. ASSUME NEW t \in Drainers, DrainTake(t) \/ DrainWrite(t)
      PROVE  Announced' /\ OkIsDurable'
  BY <1>3, <1>p, <1>o DEF DrainTake, DrainWrite
<1>4. CASE SidecarStep
  BY <1>3, <1>4, <1>d, <1>p, <1>l, <1>o DEF SidecarStep, SidecarDrain, SidecarDone
<1>5. ASSUME NEW t \in Threads, Handler(t)
      PROVE  Announced' /\ OkIsDurable'
  <2> t \in Drainers
    BY <1>d
  <2>j. (pc[t] = "apply" \/ job[t] = "commit" \/ (pc[t] = "decide" /\ Coord \in done)) => C
    BY <1>a DEF Announced, C
  <2>1. CASE LiveParts(t) \/ \E p \in Parts : AddPart(t, p)
    BY <2>1, <1>p, <1>s, <1>o, <1>l, <1>e DEF LiveParts, AddPart, Return
  <2>2. CASE Prepare(t) \/ CountParts(t)
    BY <2>2, <1>p, <1>f, <1>o, <1>l, <1>e DEF Prepare, CountParts, Return
  <2>3. CASE Snapshot(t) \/ BroadcastDone(t) \/ \E p \in Parts : WritePeer(t, p)
    BY <2>3, <1>p, <1>s, <1>o DEF Snapshot, BroadcastDone, WritePeer
  <2>4. CASE AfterBegin(t) \/ AfterAdd(t) \/ AfterPrepare(t)
    BY <2>4, <1>p, <1>o, <1>ae DEF AfterBegin, AfterAdd, AfterPrepare
  <2>5. CASE NextOp(t)
    BY <2>5, <1>f, <1>o, <1>ae DEF NextOp
  <2>6. CASE AfterDecision(t)
    BY <2>6, <2>j, <1>n, <1>l, <1>k, <1>o, <1>ae DEF AfterDecision, Forwarded, Return
  <2>7. CASE VotesIn(t)
    <3>1. Coord \notin done' /\ UNCHANGED reply
      BY <2>7 DEF VotesIn, Inv, Decided, Remembered
    <3> QED BY <2>7, <3>1, <1>p, <1>o DEF VotesIn
  <2>13. CASE WaitFails(t)
    BY <2>13, <1>f, <1>o DEF WaitFails
  <2>8. CASE CommitKnown(t)
    BY <2>8, <2>j, <1>n, <1>f, <1>l, <1>k, <1>o DEF CommitKnown, Return
  <2>9. CASE CommitRefused(t) \/ CommitNotLogged(t)
    BY <2>9, <1>f, <1>l, <1>e, <1>o
       DEF CommitRefused, CommitNotLogged, CommitFails, Return
  <2>10. CASE CommitLogged(t)
    <3>1. C' /\ UNCHANGED reply
      BY <2>10, <1>g DEF CommitLogged, LogCommit, C, Inv, TypeOK, TypeHistory, Nodes
    <3> QED BY <3>1, <1>o DEF Announced, C
  <2>11. CASE ApplyOp(t)
    BY <2>11, <1>s, <1>f, <1>l, <1>e, <1>o DEF ApplyOp, Return
  <2>12. CASE ApplyDone(t)
    BY <2>12, <2>j, <1>n, <1>f, <1>l, <1>k, <1>o DEF ApplyDone, Return
  <2> QED
    BY <1>3, <1>5, <2>1, <2>2, <2>3, <2>4, <2>5, <2>6, <2>7, <2>8, <2>9, <2>10,
       <2>11, <2>12, <2>13 DEF Handler
<1>6. ASSUME NEW p \in Parts, Peer(p)
      PROVE  Announced' /\ OkIsDurable'
  BY <1>6, <1>s, <1>o DEF Peer, Receive, RecvVote, LoseVote
<1>7. ASSUME NEW p \in Parts, Flap(p) \/ Reconnect(p) \/ CrashPart(p)
      PROVE  Announced' /\ OkIsDurable'
  BY <1>7, <1>s, <1>o DEF Flap, Reconnect, CrashPart
<1>8. CASE CrashCoord
  BY <1>8, <1>o DEF CrashCoord, Announced
<1>9. ASSUME NEW n \in Nodes, OtherCutShort(n)
      PROVE  Announced' /\ OkIsDurable'
  BY <1>9, <1>s, <1>o DEF OtherCutShort
<1> QED
  BY <1>1, <1>2, <1>4, <1>5, <1>6, <1>7, <1>8, <1>9 DEF Next, Fault

-----------------------------------------------------------------------------
(* The theorems. *)

(* TypeOK and Decided together are an invariant of the transaction. *)
THEOREM Invariance == Spec => []Inv
<1>1. Init => Inv
  BY InitType, InitDecided DEF Inv
<1>2. Inv /\ [Next]_vars => Inv'
  <2> SUFFICES ASSUME Inv, [Next]_vars PROVE Inv'
    OBVIOUS
  <2>1. TypeOK'
    BY TypeStep DEF Inv, Decided
  <2>2. Decided'
    BY LogStep, AnnounceStep, PeersWait DEF Decided
  <2> QED BY <2>1, <2>2 DEF Inv
<1> QED
  BY <1>1, <1>2, PTL DEF Spec

(* The tables, the retry queue and the handlers' locals keep their types,    *)
(* and cmq_txn_add never exceeds CMQ_TXN_OPS.                                 *)
THEOREM TypeCorrect == Spec => []TypeOK
<1>1. Inv => TypeOK
  BY DEF Inv
<1> QED
  BY <1>1, Invariance, PTL

(* A route peer never commits a transaction that the coordinator has not     *)
(* committed, and the coordinator knows it after a restart too, unless its   *)
(* record was appended to the part of another one.                           *)
THEOREM PeersFollowTheLog == Spec => []CommitBacked
<1>1. Inv => CommitBacked
  <2> SUFFICES ASSUME Inv, NEW p \in Parts, p \in done \/ p \in log \/ applied[p] # <<>>
               PROVE  commits[Coord] > 0
                      /\ (Coord \in lost \/ (Coord \in done /\ Coord \in log))
    BY DEF CommitBacked
  <2>1. Coord \in Nodes /\ commits[Coord] \in Nat
    BY DEF Inv, TypeOK, TypeHistory, Nodes
  <2>2. commits[Coord] > 0
    BY <2>1 DEF Inv, Decided, NoCommitYet
  <2> QED BY <2>1, <2>2 DEF Inv, Decided, Remembered
<1> QED
  BY <1>1, Invariance, PTL

(* cmq_txn_commit decides at most once at every node, restarts included,     *)
(* unless the record it decided with was appended to the part of another.    *)
THEOREM DecidesOnce == Spec => []CommitOnce
<1>1. Inv => CommitOnce
  BY DEF Inv, Decided, Remembered, CommitOnce, TypeOK, TypeHistory
<1> QED
  BY <1>1, Invariance, PTL

(* A client that was told ok has a commit that survives a restart, with the  *)
(* same exception.                                                           *)
THEOREM OkSurvives == Spec => []OkIsDurable
<1>1. Inv => OkIsDurable
  BY DEF Inv, Decided
<1> QED
  BY <1>1, Invariance, PTL
=============================================================================
