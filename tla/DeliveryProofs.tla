--------------------------- MODULE DeliveryProofs ---------------------------
(***************************************************************************)
(* Proofs about the deliveries of Subscriptions: a queue group gets one copy *)
(* of a publication, and what a publication matched is never dropped in      *)
(* silence.  Both follow the copies of a publication from the snapshot of    *)
(* its targets through the mailboxes to the sockets.                         *)
(***************************************************************************)
EXTENDS SubscriptionsProofs

(* A handler in the middle of a PUBLISH, one with its targets chosen, one    *)
(* with a copy in hand between the checks and the write, and any of these.   *)
Pubs(v)  == v.pc \in {"snap", "go", "fan", "send"}
Fans(v)  == v.pc \in {"go", "fan", "send"}
Hands(v) == v.pc \in {"send", "letter"}
Busy(v)  == v.pc \in {"snap", "go", "fan", "send", "letter"}

(* The copies of publications: written, in a mailbox, in hand, and still to  *)
(* be sent.                                                                  *)
InMail(m) == \E w \in Workers : \E k \in DOMAIN mail[w] :
    /\ mail[w][k].kind = "SEND"
    /\ m = Message(mail[w][k].ref, mail[w][k].n, mail[w][k].t)
InFan(m) == \E w \in Workers :
    /\ Fans(job[w]) /\ m.ref \in job[w].refs
    /\ m = Message(m.ref, job[w].n, job[w].t)
InHand(m) == \E w \in Workers :
    Hands(job[w]) /\ m = Message(job[w].ref, job[w].n, job[w].t)
InPlay(m) == m \in got \/ InMail(m) \/ InFan(m) \/ InHand(m)

(* Two copies of one publication for one queue group are the same copy.      *)
Rival(a, b) == /\ a.n = b.n /\ a.ref.grp = b.ref.grp /\ a.ref.grp # NoGroup
               /\ a.ref.pat = b.ref.pat

GroupInv ==
    /\ \A a, b \in Msgs : InPlay(a) /\ InPlay(b) /\ Rival(a, b) => a = b
    /\ \A a \in Msgs : InPlay(a) => a.n <= spent.pub
    /\ \A w \in Workers : Pubs(job[w]) => job[w].n <= spent.pub
    /\ \A w, x \in Workers : /\ Pubs(job[w]) /\ Pubs(job[x]) /\ job[w].n = job[x].n
                             => w = x
    /\ \A w \in Workers : \A a \in Msgs : job[w].pc = "snap" /\ InPlay(a) => a.n # job[w].n
    /\ \A w \in Workers : job[w].pc = "snap" => IsFiniteSet(job[w].refs)

(* A publication owed to d.ref, in the handler of w and in the mailbox of    *)
(* its client.                                                               *)
InJob(d, w) ==
    /\ Busy(job[w]) /\ job[w].n = d.n /\ job[w].ep = d.ep
    /\ SubjectMatch(d.ref.pat, job[w].t)
    /\ Pubs(job[w]) => d.ep = ep[job[w].c]
    /\ \/ Pubs(job[w]) /\ d.ref \in job[w].refs /\ Accepts(d.ref, job[w].t)
       \/ job[w].pc = "send" /\ d.ref = job[w].ref
       \/ job[w].pc = "letter" /\ d.ref = job[w].ref /\ d.ref.c = job[w].c

InBox(d, w, k) ==
    /\ mail[w][k].kind = "SEND" /\ mail[w][k].n = d.n /\ mail[w][k].ref = d.ref
    /\ mail[w][k].ep = d.ep /\ SubjectMatch(d.ref.pat, mail[w][k].t)

Kept(d) ==
    \/ \E m \in got : m.n = d.n /\ m.ref = d.ref
    \/ \E w \in Workers : InJob(d, w)
    \/ \E k \in DOMAIN mail[Owner[d.ref.c]] : InBox(d, Owner[d.ref.c], k)
    \/ Sentenced(d.ref.c) \/ d.ref.c \in shut

OwedInv == \A d \in owed : Standing(d) /\ d.ref.grp = NoGroup /\ Kept(d)

-----------------------------------------------------------------------------
(* Steps that leave the publications alone.                                  *)

(* The mailboxes ns hold the letters of ms, and after them no SEND.          *)
Grown(ms, ns) == \A w \in Workers :
    /\ \A k \in DOMAIN ms[w] : k \in DOMAIN ns[w] /\ ns[w][k] = ms[w][k]
    /\ \A k \in DOMAIN ns[w] : k \in DOMAIN ms[w] \/ ns[w][k].kind # "SEND"

Aside ==
    /\ got' = got /\ Grown(mail, mail') /\ shut \subseteq shut' /\ spent'.pub = spent.pub
    /\ \A w \in Workers : Busy(job[w]) \/ Busy(job'[w]) =>
           job'[w] = job[w] /\ ep'[job[w].c] = ep[job[w].c]

(* All of them are busy.                                                     *)
LEMMA BusyAre ==
    \A v : Pubs(v) \/ Fans(v) \/ Hands(v) => Busy(v)
  BY DEF Pubs, Fans, Hands, Busy

(* Then the copies stay where they are.                                      *)
LEMMA AsideGroup ==
    ASSUME GroupInv, Aside
    PROVE  GroupInv'
<1>1. \A w \in Workers : Busy(job'[w]) => job'[w] = job[w]
  BY DEF Aside
<1>2. ASSUME NEW m, InMail(m)' PROVE InMail(m)
  BY <1>2 DEF InMail, Aside, Grown
<1>3. ASSUME NEW m, InFan(m)' \/ InHand(m)' PROVE InFan(m) \/ InHand(m)
  BY <1>1, <1>3, BusyAre DEF InFan, InHand
<1>4. \A m : InPlay(m)' => InPlay(m)
  BY <1>2, <1>3 DEF InPlay, Aside
<1>5. spent'.pub = spent.pub
  BY DEF Aside
<1>6. \A w \in Workers : job'[w].pc = "snap" => job'[w] = job[w]
  BY <1>1 DEF Busy
<1> QED BY <1>1, <1>4, <1>5, <1>6, BusyAre DEF GroupInv

(* And what is owed is kept.                                                 *)
LEMMA AsideOwed ==
    ASSUME IInv, OwedInv, Aside, Owe
    PROVE  OwedInv'
<1>1. ASSUME NEW d \in owed' PROVE d \in owed /\ Standing(d)'
  <2>1. \A w \in Workers : job'[w].pc = "snap" => job[w].pc = "snap"
    BY DEF Aside, Busy
  <2> QED BY <1>1, <2>1 DEF Owe, At
<1>2. ASSUME NEW d, Kept(d), d.ref \in Ref PROVE Kept(d)'
  <2>1. Owner[d.ref.c] \in Workers
    BY <1>2, SubscriptionsAssumption DEF Ref
  <2>2. ASSUME NEW w \in Workers, InJob(d, w) PROVE InJob(d, w)'
    BY <2>2 DEF InJob, Aside, Accepts
  <2>3. ASSUME NEW k \in DOMAIN mail[Owner[d.ref.c]], InBox(d, Owner[d.ref.c], k)
        PROVE  k \in DOMAIN mail'[Owner[d.ref.c]] /\ InBox(d, Owner[d.ref.c], k)'
    BY <2>1, <2>3 DEF InBox, Aside, Grown
  <2>4. Sentenced(d.ref.c) => Sentenced(d.ref.c)'
    BY <2>1 DEF Sentenced, Aside, Grown
  <2> QED BY <1>2, <2>2, <2>3, <2>4 DEF Kept, Aside
<1>3. ASSUME NEW d \in owed PROVE d.ref \in Ref
  BY <1>3 DEF OwedInv, Standing, IInv, TrieInv
<1> QED BY <1>1, <1>2, <1>3 DEF OwedInv

(* A step of a handler that is not a PUBLISH and does not become one.        *)
Turns(w) == /\ ~Busy(job[w]) /\ ~Busy(job'[w])
            /\ \A x \in Workers \ {w} : job'[x] = job[x]

(* A step of the worker that owns c, which at most starts or ends c's        *)
(* session and adds to the mail, is aside of every publication.              *)
LEMMA Elsewhere ==
    ASSUME IInv, NEW w \in Workers, Turns(w), NEW c \in Clients, Owner[c] = w,
           \A d \in Clients \ {c} : ep'[d] = ep[d],
           got' = got, Grown(mail, mail'), shut \subseteq shut', spent'.pub = spent.pub
    PROVE  Aside
<1>1. ASSUME NEW x \in Workers, Busy(job[x]) \/ Busy(job'[x])
      PROVE  job'[x] = job[x] /\ ep'[job[x].c] = ep[job[x].c]
  <2>1. x # w /\ job'[x] = job[x] /\ Busy(job[x])
    BY <1>1 DEF Turns
  <2>2. job[x].c \in Clients /\ Owner[job[x].c] = x
    BY <2>1, IdleIs DEF IInv, OwnInv, Busy
  <2> QED BY <2>1, <2>2
<1> QED BY <1>1 DEF Aside

(* Mail that stays the same has not lost anything.                           *)
LEMMA SameMail ==
    ASSUME mail' = mail
    PROVE  Grown(mail, mail')
  BY DEF Grown

(* The ways a handler moves on, as far as PUBLISH is concerned.              *)
LEMMA TurnTypes ==
    ASSUME IInv
    PROVE  /\ job \in [Workers -> Jobs] /\ \A w \in Workers : job[w] \in Jobs
           /\ spent \in [DOMAIN Limit -> Nat] /\ DOMAIN Limit = {"pub", "sub", "admin", "doom", "oom"}
           /\ ep \in [Clients -> Nat]
  BY LimitIs DEF IInv, TypeInv

(* No other bounded input uses up a publication number.                      *)
LEMMA SpendOther ==
    ASSUME IInv, NEW k \in {"sub", "admin", "doom", "oom"}, Spend(k)
    PROVE  spent'.pub = spent.pub
  BY TurnTypes DEF Spend

(* A worker outside the fan-out goes on with its handler ...                 *)
LEMMA GoTurns ==
    ASSUME IInv, NEW w \in Workers, ~Busy(job[w]), NEW p,
           p \notin {"snap", "go", "fan", "send", "letter"}, Go(w, p)
    PROVE  Turns(w)
  BY TurnTypes DEF Go, Turns, Busy, Jobs

(* ... leaves it ...                                                         *)
LEMMA DoneTurns ==
    ASSUME IInv, NEW w \in Workers, ~Busy(job[w]), Done(w)
    PROVE  Turns(w)
  BY TurnTypes, IdleIs DEF Done, Turns, Busy

(* ... or turns to closing a connection.                                     *)
LEMMA ClosingTurns ==
    ASSUME IInv, NEW w \in Workers, ~Busy(job[w]), NEW c \in Clients, Closing(w, c)
    PROVE  Turns(w)
<1>1. "finish" \in Pcs
  BY DEF Pcs
<1>2. Job("finish", c).pc = "finish"
  BY <1>1, JobIs
<1> QED BY <1>2, TurnTypes DEF Closing, Turns, Busy

(* The CONNECT handler publishes nothing and takes no mail.                  *)
LEMMA ConnectAside ==
    ASSUME IInv, NEW w \in Workers,
           ConnectCredit(w) \/ ConnectLive(w) \/ Welcome(w)
    PROVE  Aside
<1>a. PICK c : c = job[w].c
  OBVIOUS
<1>1. /\ job[w].pc \in {"conn_credit", "conn_live", "welcome"}
      /\ UNCHANGED <<mail, got, spent>> /\ shut \subseteq shut'
      /\ Go(w, "conn_live") \/ Go(w, "welcome") \/ Done(w) \/ Closing(w, c)
      /\ ep' = ep \/ ep' = [ep EXCEPT ![c] = 0]
  BY <1>a DEF ConnectCredit, ConnectLive, Welcome, At
<1>2. c \in Clients /\ Owner[c] = w
  BY <1>1, <1>a, Actor
<1>3. \A d \in Clients \ {c} : ep'[d] = ep[d]
  BY <1>1, TurnTypes
<1>4. Turns(w)
  BY <1>1, <1>2, GoTurns, DoneTurns, ClosingTurns DEF Busy
<1> QED BY <1>1, <1>2, <1>3, <1>4, Elsewhere, SameMail

(* Nor do SUBSCRIBE, its undo paths and UNSUBSCRIBE.                         *)
LEMMA SubAside ==
    ASSUME IInv, NEW w \in Workers,
           \/ SubClaim(w) \/ SubCredit(w) \/ SubRecheck(w) \/ SubUnlink(w) \/ SubInsert(w)
           \/ SubInsertFails(w) \/ SubRestore(w) \/ SubRestoreFails(w)
           \/ SubGhost(w) \/ SubConfirm(w) \/ SubUndo(w)
    PROVE  Aside
<1>a. PICK c : c = job[w].c
  OBVIOUS
<1>1. /\ job[w].pc \in SubPcs
      /\ UNCHANGED <<mail, got, ep>> /\ shut \subseteq shut'
      /\ spent' = spent \/ Spend("oom")
  BY <1>a DEF SubClaim, SubCredit, SubRecheck, SubUnlink, SubInsert, SubInsertFails,
       SubRestore, SubRestoreFails, SubGhost, SubConfirm, SubUndo, At, SubPcs, sessions
<1>2. c \in Clients /\ Owner[c] = w /\ ~Busy(job[w])
  BY <1>1, <1>a, Actor DEF SubPcs, Busy
<1>3. spent'.pub = spent.pub
  BY <1>1, SpendOther
<1>4. \/ Done(w) \/ Closing(w, c)
      \/ \E p \in {"recheck", "insert", "restore", "undo"} : Go(w, p)
      \/ \E p \in SubPcs : \E q : \E R : job' = [job EXCEPT ![w].refs = R, ![w].next = q, ![w].pc = p]
      \/ \E p \in SubPcs : \E R : job' = [job EXCEPT ![w].refs = R, ![w].pc = p]
      \/ \E q : job' = [job EXCEPT ![w].pc = "nudge", ![w].next = q]
  <2>1. CASE SubClaim(w)
    <3>1. \A o : AfterClaim(o) \in SubPcs
      BY DEF AfterClaim, SubPcs
    <3>2. "nudge" \in SubPcs
      BY DEF SubPcs
    <3> QED BY <2>1, <3>1, <3>2 DEF SubClaim
  <2>2. CASE SubCredit(w) \/ SubRecheck(w) \/ SubUnlink(w) \/ SubInsert(w) \/ SubInsertFails(w)
    BY <1>a, <2>2 DEF SubCredit, SubRecheck, SubUnlink, SubInsert, SubInsertFails
  <2>3. CASE SubRestore(w) \/ SubRestoreFails(w) \/ SubGhost(w) \/ SubConfirm(w) \/ SubUndo(w)
    BY <1>a, <2>3 DEF SubRestore, SubRestoreFails, SubGhost, SubConfirm, SubUndo
  <2> QED BY <2>1, <2>2, <2>3
<1>5. Turns(w)
  <2>1. CASE Done(w) \/ Closing(w, c) \/ \E p \in {"recheck", "insert", "restore", "undo"} : Go(w, p)
    BY <1>2, <2>1, GoTurns, DoneTurns, ClosingTurns
  <2>2. \A p \in SubPcs : p \notin {"snap", "go", "fan", "send", "letter"}
    BY DEF SubPcs
  <2>3. CASE \E p \in SubPcs : \E q : \E R :
                 job' = [job EXCEPT ![w].refs = R, ![w].next = q, ![w].pc = p]
    BY <1>2, <2>2, <2>3, TurnTypes DEF Turns, Busy, Jobs
  <2>4. CASE \E p \in SubPcs : \E R : job' = [job EXCEPT ![w].refs = R, ![w].pc = p]
    BY <1>2, <2>2, <2>4, TurnTypes DEF Turns, Busy, Jobs
  <2>5. CASE \E q : job' = [job EXCEPT ![w].pc = "nudge", ![w].next = q]
    BY <1>2, <2>5, TurnTypes DEF Turns, Busy, Jobs
  <2> QED BY <1>4, <2>1, <2>3, <2>4, <2>5
<1> QED BY <1>1, <1>2, <1>3, <1>5, Elsewhere, SameMail

(* One more letter that is not a SEND.                                       *)
LEMMA AppendGrows ==
    ASSUME NEW ms, BoxOk(ms), Grown(mail, ms), NEW c \in Clients, NEW m \in Letter,
           m.kind # "SEND", m.to = c
    PROVE  /\ Grown(mail, [ms EXCEPT ![Owner[c]] = Append(@, m)])
           /\ \E k \in DOMAIN [ms EXCEPT ![Owner[c]] = Append(@, m)][Owner[c]] :
                  [ms EXCEPT ![Owner[c]] = Append(@, m)][Owner[c]][k] = m
<1>a. PICK w : w = Owner[c]
  OBVIOUS
<1>1. w \in Workers /\ ms \in [Workers -> Seq(Letter)] /\ ms[w] \in Seq(Letter)
  BY <1>a, SubscriptionsAssumption DEF BoxOk
<1> DEFINE box == Append(ms[w], m)
           ns == [ms EXCEPT ![w] = box]
<1>2. /\ DOMAIN box = 1 .. Len(ms[w]) + 1 /\ box[Len(ms[w]) + 1] = m
      /\ \A k \in DOMAIN ms[w] : k \in DOMAIN box /\ box[k] = ms[w][k]
      /\ DOMAIN ms[w] = 1 .. Len(ms[w]) /\ Len(ms[w]) \in Nat
  BY <1>1
<1>3. \A k \in DOMAIN box : k \in DOMAIN ms[w] \/ box[k] = m
  BY <1>2
<1>4. \E k \in DOMAIN box : box[k] = m
  BY <1>2
<1> HIDE DEF box
<1>5. ns[w] = box /\ \A x \in Workers \ {w} : ns[x] = ms[x]
  BY <1>1
<1>6. Grown(mail, ns)
  BY <1>2, <1>3, <1>5 DEF Grown
<1> QED BY <1>4, <1>5, <1>6, <1>a DEF box

(* TEARDOWN reaches the mailbox or the socket is shut down.                  *)
LEMMA PushGrows ==
    ASSUME NEW c \in Clients, NEW ms, BoxOk(ms), Grown(mail, ms), PushTeardown(c, ms)
    PROVE  /\ Grown(mail, mail') /\ shut \subseteq shut'
           /\ st[c] # "gone" => Sentenced(c)' \/ c \in shut'
<1>1. Owner[c] \in Workers
  BY SubscriptionsAssumption
<1>2. CASE Sentenced(c) /\ mail' = ms /\ UNCHANGED shut
  BY <1>1, <1>2 DEF Sentenced, Grown
<1>3. CASE mail' = [ms EXCEPT ![Owner[c]] = Append(@, Teardown(c))] /\ UNCHANGED shut
  <2>1. Teardown(c) \in Letter /\ Teardown(c).kind # "SEND" /\ Teardown(c).to = c
    BY LetterIs
  <2> DEFINE ns == [ms EXCEPT ![Owner[c]] = Append(@, Teardown(c))]
  <2>2. Grown(mail, ns) /\ \E k \in DOMAIN ns[Owner[c]] : ns[Owner[c]][k] = Teardown(c)
    BY <2>1, AppendGrows
  <2>3. mail' = ns
    BY <1>3
  <2> HIDE DEF ns
  <2> QED BY <1>3, <2>2, <2>3 DEF Sentenced
<1>4. CASE mail' = ms /\ Hangup(c)
  BY <1>4 DEF Hangup
<1> QED BY <1>2, <1>3, <1>4 DEF PushTeardown

(* mailbox_push_teardown only adds mail, and when it cannot queue the        *)
(* TEARDOWN the socket is shut down.                                         *)
LEMMA TeardownGrows ==
    ASSUME IInv, NEW c \in Clients, NEW ms, BoxOk(ms), Grown(mail, ms),
           TeardownOrShutdown(c, ms)
    PROVE  /\ Grown(mail, mail') /\ shut \subseteq shut' /\ spent'.pub = spent.pub
           /\ st[c] # "gone" => Sentenced(c)' \/ c \in shut'
<1>1. CASE PushTeardown(c, ms) /\ UNCHANGED spent
  BY <1>1, PushGrows
<1>2. CASE Spend("oom") /\ mail' = ms /\ Hangup(c)
  BY <1>2, SpendOther DEF Hangup
<1> QED BY <1>1, <1>2 DEF TeardownOrShutdown

(* SUBSCRIBE has a dead holder of its inbox torn down.                       *)
LEMMA NudgeAside ==
    ASSUME IInv, NEW w \in Workers, SubNudge(w)
    PROVE  Aside
<1>a. PICK c : c = job[w].c
  OBVIOUS
<1>1. job[w].pc = "nudge" /\ got' = got /\ ep' = ep
  BY DEF SubNudge, At, sessions
<1>2. c \in Clients /\ Owner[c] = w /\ ~Busy(job[w]) /\ job[w] \in Jobs
  BY <1>1, <1>a, Actor DEF Busy
<1>3. CASE /\ IF job[w].next = "idle" THEN Done(w) ELSE Go(w, job[w].next)
           /\ UNCHANGED <<mail, shut, spent>>
  <2>1. Turns(w)
    BY <1>2, <1>3, GoTurns, DoneTurns DEF Jobs
  <2> QED BY <1>1, <1>2, <1>3, <2>1, Elsewhere, SameMail
<1>4. CASE \E r \in job[w].refs : /\ TeardownOrShutdown(r.c, mail)
                                  /\ job' = [job EXCEPT ![w].refs = @ \ {r}]
  <2>1. PICK r \in job[w].refs : /\ TeardownOrShutdown(r.c, mail)
                                 /\ job' = [job EXCEPT ![w].refs = @ \ {r}]
    BY <1>4
  <2>2. r.c \in Clients
    BY <1>2 DEF Jobs, Ref
  <2>3. BoxOk(mail) /\ Grown(mail, mail)
    BY DEF IInv, MailInv, Grown
  <2>4. Grown(mail, mail') /\ shut \subseteq shut' /\ spent'.pub = spent.pub
    BY <2>1, <2>2, <2>3, TeardownGrows
  <2>5. Turns(w)
    BY <1>1, <1>2, <2>1, TurnTypes DEF Turns, Busy, Jobs
  <2> QED BY <1>1, <1>2, <2>4, <2>5, Elsewhere
<1> QED BY <1>3, <1>4 DEF SubNudge

(* Closing and teardown before the release, which is the step that purges    *)
(* mail.                                                                     *)
LEMMA TearAside ==
    ASSUME IInv, NEW w \in Workers,
           \/ Finish(w) \/ FinishLater(w) \/ TearEnter(w) \/ TearSub(w)
    PROVE  Aside
<1>a. PICK c : c = job[w].c
  OBVIOUS
<1>1. /\ job[w].pc \in {"finish", "teardown", "tear"}
      /\ UNCHANGED <<mail, got, ep, shut, spent>>
  BY DEF Finish, FinishLater, TearEnter, TearSub, At, sessions
<1>2. c \in Clients /\ Owner[c] = w /\ ~Busy(job[w])
  BY <1>1, <1>a, Actor DEF Busy
<1>3. Turns(w)
  <2>1. CASE Finish(w) \/ FinishLater(w)
    BY <1>2, <2>1, GoTurns, DoneTurns DEF Finish, FinishLater
  <2>2. CASE TearEnter(w)
    <3>1. PICK R : job' = [job EXCEPT ![w].pc = "tear", ![w].refs = R]
      BY <2>2 DEF TearEnter
    <3> QED BY <1>2, <3>1, TurnTypes DEF Turns, Busy, Jobs
  <2>3. CASE TearSub(w)
    <3>1. PICK r : job' = [job EXCEPT ![w].refs = @ \ {r}]
      BY <2>3 DEF TearSub
    <3> QED BY <1>1, <1>2, <3>1, TurnTypes DEF Turns, Busy, Jobs
  <2> QED BY <1>1, <2>1, <2>2, <2>3
<1> QED BY <1>1, <1>2, <1>3, Elsewhere, SameMail

(* A frame other than PUBLISH, and what the event loop starts of itself.     *)
LEMMA FrameAside ==
    ASSUME IInv, NEW w \in Workers, NEW c \in Clients,
           \/ Connect(w, c) \/ Denied(w, c) \/ Disconnect(w, c)
           \/ \E sid \in Sids, i \in Interests : Subscribe(w, c, sid, i)
           \/ \E r \in ent[c] : Unsubscribe(w, c, r)
           \/ Flush(w, c) \/ Eof(w, c)
    PROVE  Aside
<1>1. /\ Owner[c] = w /\ UNCHANGED <<mail, got, shut>>
      /\ ep' = ep \/ ep' = [ep EXCEPT ![c] = acc.epoch]
      /\ spent' = spent \/ Spend("sub")
  BY DEF Connect, Denied, Disconnect, Subscribe, Unsubscribe, Flush, Eof, Mine, sessions
<1>2. \A d \in Clients \ {c} : ep'[d] = ep[d]
  BY <1>1, TurnTypes
<1>3. spent'.pub = spent.pub
  BY <1>1, SpendOther
<1>4. job[w] = Idle
  BY IdleIs DEF Connect, Denied, Disconnect, Subscribe, Unsubscribe, Flush, Eof, Mine, Start,
     At, IInv, OwnInv
<1>5. ~Busy(job[w])
  BY <1>4, IdleIs DEF Busy
<1>6. \/ Closing(w, c) \/ job' = job
      \/ \E j : j.pc \notin {"snap", "go", "fan", "send", "letter"} /\ Start(w, j)
  <2>1. ASSUME NEW p \in Pcs
        PROVE  /\ Job(p, c) \in Jobs /\ Job(p, c).pc = p
               /\ \A r : [Job(p, c) EXCEPT !.ref = r].pc = p
               /\ \A r, o : [Job(p, c) EXCEPT !.ref = r, !.old = o].pc = p
    <3>1. Job(p, c) \in Jobs /\ Job(p, c).pc = p
      BY JobIs
    <3> QED BY <3>1 DEF Jobs
  <2>2. /\ "conn_credit" \in Pcs /\ "finish" \in Pcs /\ "teardown" \in Pcs
        /\ "claim" \in Pcs /\ "credit" \in Pcs /\ "unlink" \in Pcs
    BY DEF Pcs, SubPcs
  <2>3. CASE Connect(w, c) \/ Denied(w, c) \/ Disconnect(w, c) \/ Flush(w, c) \/ Eof(w, c)
    BY <2>1, <2>2, <2>3 DEF Connect, Denied, Disconnect, Flush, Eof
  <2>4. CASE \E r \in ent[c] : Unsubscribe(w, c, r)
    BY <2>1, <2>2, <2>4 DEF Unsubscribe
  <2>5. CASE \E sid \in Sids, i \in Interests : Subscribe(w, c, sid, i)
    <3>1. PICK i, o, r : Start(w, [Job(IF i.pat \in Inboxes THEN "claim" ELSE AfterClaim(o), c)
                                     EXCEPT !.ref = r, !.old = o])
      BY <2>5 DEF Subscribe
    <3> DEFINE p == IF i.pat \in Inboxes THEN "claim" ELSE AfterClaim(o)
               j == [Job(p, c) EXCEPT !.ref = r, !.old = o]
    <3>2. p \in {"claim", "credit", "unlink"}
      BY DEF AfterClaim
    <3>3. Start(w, j)
      BY <3>1
    <3> HIDE DEF p
    <3>4. j.pc = p
      BY <2>1, <2>2, <3>2
    <3> HIDE DEF j
    <3> QED BY <3>2, <3>3, <3>4
  <2> QED BY <2>3, <2>4, <2>5
<1>7. Turns(w)
  <2>1. CASE Closing(w, c)
    BY <1>5, <2>1, ClosingTurns
  <2>2. CASE \E j : j.pc \notin {"snap", "go", "fan", "send", "letter"} /\ Start(w, j)
    BY <1>5, <2>2, TurnTypes DEF Start, Turns, Busy
  <2>3. CASE job' = job
    BY <1>5, <2>3 DEF Turns
  <2> QED BY <1>6, <2>1, <2>2, <2>3
<1> QED BY <1>1, <1>2, <1>3, <1>7, Elsewhere, SameMail

(* Clients that arrive and leave, the administrator and the keepalive        *)
(* timer.                                                                    *)
LEMMA EnvironmentAside ==
    ASSUME IInv, Environment
    PROVE  Aside
<1>1. job' = job /\ ep' = ep /\ got' = got
  BY DEF Environment, Delete, Create, Admit, KeepaliveDead, KeepaliveTimeout, sessions
<1>2. Grown(mail, mail') /\ shut \subseteq shut' /\ spent'.pub = spent.pub
  <2>1. CASE Delete \/ Create \/ \E c \in Clients : Admit(c)
    <3>1. mail' = mail /\ shut' = shut /\ (spent' = spent \/ Spend("admin"))
      BY <2>1 DEF Delete, Create, Admit
    <3> QED BY <3>1, SameMail, SpendOther
  <2>2. ASSUME NEW c \in Clients, KeepaliveDead(c) \/ KeepaliveTimeout(c)
        PROVE  Grown(mail, mail') /\ shut \subseteq shut' /\ spent'.pub = spent.pub
    <3>1. BoxOk(mail) /\ Grown(mail, mail)
      BY DEF IInv, MailInv, Grown
    <3>2. Farewell(c) \in Letter /\ Farewell(c).to = c /\ Farewell(c).kind # "SEND"
      BY LetterIs
    <3>3. BoxOk(Parting(c))
      BY <3>1, <3>2, AppendBox DEF Parting, Mailed
    <3>4. Grown(mail, Parting(c))
      BY <3>1, <3>2, AppendGrows DEF Parting, Mailed
    <3>5. CASE KeepaliveDead(c)
      BY <3>3, <3>4, <3>5, TeardownGrows DEF KeepaliveDead
    <3>6. CASE KeepaliveTimeout(c)
      BY <3>3, <3>4, <3>6, PushGrows, SpendOther DEF KeepaliveTimeout
    <3> QED BY <2>2, <3>5, <3>6
  <2> QED BY <2>1, <2>2 DEF Environment
<1> QED BY <1>1, <1>2 DEF Aside

(* Every step but those of a PUBLISH, of the mailbox and the last of a       *)
(* teardown leaves the publications alone.                                   *)
LEMMA MostAside ==
    ASSUME IInv, Step,
           \A w \in Workers : /\ ~PubSnapshot(w) /\ ~PubNoMemory(w) /\ ~PubGo(w)
                              /\ ~PubFan(w) /\ ~SendHere(w) /\ ~PubDone(w)
                              /\ ~TearRelease(w) /\ ~MailNext(w) /\ ~MailWrite(w)
                              /\ \A c \in Clients, t \in Topics : ~Publish(w, c, t)
    PROVE  Aside
<1>1. ASSUME NEW w \in Workers, Handler(w) PROVE Aside
  BY <1>1, ConnectAside, SubAside, NudgeAside, TearAside DEF Handler
<1>2. ASSUME NEW w \in Workers, NEW c \in Clients, Frame(w, c) \/ Flush(w, c) \/ Eof(w, c)
      PROVE  Aside
  BY <1>2, FrameAside DEF Frame
<1> QED BY <1>1, <1>2, EnvironmentAside DEF Step

-----------------------------------------------------------------------------
(* The steps of a PUBLISH: one queue group, one copy.                        *)

(* Copies that only move keep the invariant.                                 *)
LEMMA CopiesMove ==
    ASSUME GroupInv, spent'.pub = spent.pub,
           \A m \in Msgs : InPlay(m)' => InPlay(m),
           \A w \in Workers : Pubs(job'[w]) => Pubs(job[w]) /\ job'[w].n = job[w].n,
           \A w \in Workers : job'[w].pc = "snap" => job'[w] = job[w]
    PROVE  GroupInv'
<1>1. \A w \in Workers : job'[w].pc = "snap" => Pubs(job'[w])
  BY DEF Pubs
<1> QED BY <1>1 DEF GroupInv

(* The number of publications so far.                                        *)
LEMMA PubCount ==
    ASSUME IInv
    PROVE  /\ spent.pub \in Nat
           /\ Spend("pub") => spent'.pub = spent.pub + 1
  BY TurnTypes DEF Spend

(* A PUBLISH gets a number nothing under way has.                            *)
LEMMA PublishGroup ==
    ASSUME IInv, GroupInv, NEW w \in Workers, NEW c \in Clients, NEW t \in Topics,
           Publish(w, c, t)
    PROVE  GroupInv'
<1> DEFINE j == [Job("snap", c) EXCEPT !.refs = Match(trie, t), !.n = spent.pub + 1, !.t = t,
                                      !.ep = ep[c]]
<1>1. /\ job[w] = Idle /\ job' = [job EXCEPT ![w] = j] /\ Spend("pub")
      /\ got' = got /\ mail' = mail
  BY DEF Publish, Start
<1>2. j.pc = "snap" /\ j.n = spent.pub + 1 /\ j.refs = Match(trie, t)
  <2>1. "snap" \in Pcs
    BY DEF Pcs
  <2>2. Job("snap", c) \in Jobs /\ Job("snap", c).pc = "snap"
    BY <2>1, JobIs
  <2> QED BY <2>2 DEF Jobs
<1> HIDE DEF j
<1>3. job'[w] = j /\ \A x \in Workers \ {w} : job'[x] = job[x]
  BY <1>1, TurnTypes
<1>4. spent.pub \in Nat /\ spent'.pub = spent.pub + 1
  BY <1>1, PubCount
<1>5. ASSUME NEW m, InPlay(m)' PROVE InPlay(m)
  <2>1. InMail(m)' => InMail(m)
    BY <1>1 DEF InMail
  <2>2. ~Fans(j) /\ ~Hands(j)
    BY <1>2 DEF Fans, Hands
  <2>3. (InFan(m)' => InFan(m)) /\ (InHand(m)' => InHand(m))
    BY <1>3, <2>2 DEF InFan, InHand
  <2> QED BY <1>1, <1>5, <2>1, <2>3 DEF InPlay
<1>6. \A a \in Msgs : a.n \in Nat
  BY DEF Msgs
<1>7. \A x \in Workers : job[x].n \in Nat
  BY TurnTypes DEF Jobs
<1>8. \A x \in Workers \ {w} : /\ Pubs(job'[x]) => Pubs(job[x])
                               /\ job'[x].n = job[x].n /\ job'[x].pc = job[x].pc
  BY <1>3
<1>9. \A a \in Msgs : InPlay(a)' => a.n <= spent.pub
  BY <1>5 DEF GroupInv
<1>10. \A x \in Workers \ {w} : Pubs(job'[x]) => job'[x].n <= spent.pub
  BY <1>8 DEF GroupInv
<1>11. job'[w].n = spent.pub + 1
  BY <1>2, <1>3
<1>12. \A a, b \in Msgs : InPlay(a)' /\ InPlay(b)' /\ Rival(a, b) => a = b
  BY <1>5 DEF GroupInv
<1>13. \A a \in Msgs : InPlay(a)' => a.n <= spent'.pub
  BY <1>4, <1>6, <1>9
<1>14. \A x \in Workers : Pubs(job'[x]) => job'[x].n <= spent'.pub
  BY <1>4, <1>7, <1>8, <1>10, <1>11
<1>15. ASSUME NEW x \in Workers, NEW y \in Workers, Pubs(job'[x]), Pubs(job'[y]),
              job'[x].n = job'[y].n
       PROVE  x = y
  <2>1. CASE x # w /\ y # w
    BY <1>8, <1>15, <2>1 DEF GroupInv
  <2>2. CASE x = w \/ y = w
    BY <1>4, <1>7, <1>8, <1>10, <1>11, <1>15, <2>2
  <2> QED BY <2>1, <2>2
<1>16. \A x \in Workers : \A a \in Msgs : job'[x].pc = "snap" /\ InPlay(a)' => a.n # job'[x].n
  BY <1>4, <1>5, <1>6, <1>8, <1>9, <1>11 DEF GroupInv
<1>17. \A x \in Workers : job'[x].pc = "snap" => IsFiniteSet(job'[x].refs)
  <2>1. IsFiniteSet(Match(trie, t))
    <3>1. Match(trie, t) \subseteq Registered(trie) /\ IsFiniteSet(Registered(trie))
      BY SubscriptionsAssumption, MatchExact DEF IInv, TrieInv, TrieOk, Counted
    <3> QED BY <3>1, FS_Subset
  <2> QED BY <1>2, <1>3, <2>1 DEF GroupInv
<1> QED BY <1>12, <1>13, <1>14, <1>15, <1>16, <1>17 DEF GroupInv, Rival

(* The snapshot of the matches holds one member of each group.               *)
LEMMA SnapshotGroup ==
    ASSUME IInv, GroupInv, NEW w \in Workers, PubSnapshot(w)
    PROVE  GroupInv'
<1>a. PICK n, t : n = job[w].n /\ t = job[w].t
  OBVIOUS
<1>1. PICK R, T : /\ R \subseteq job[w].refs /\ T \in Snapshots(R)
                  /\ job' = [job EXCEPT ![w].refs = T, ![w].pc = "go"]
                  /\ job[w].pc = "snap" /\ UNCHANGED <<mail, got, spent>>
  <2>1. PICK F, T : /\ F \in SUBSET (job[w].refs \ Registered(trie))
                    /\ T \in Snapshots({r \in job[w].refs \ (job[w].refs \ Registered(trie)) :
                                           Eligible(r)} \cup F)
                    /\ job' = [job EXCEPT ![w].refs = T, ![w].pc = "go"]
    BY DEF PubSnapshot
  <2> QED BY <2>1 DEF PubSnapshot, At
<1>2. T \subseteq R /\ \A g \in Groups(R) : Cardinality(Members(T, g)) = 1
  BY <1>1 DEF Snapshots
<1>3. IsFiniteSet(T)
  <2>1. IsFiniteSet(job[w].refs)
    BY <1>1 DEF GroupInv
  <2> QED BY <1>1, <1>2, <2>1, FS_Subset
<1>4. /\ job'[w].pc = "go" /\ job'[w].n = n /\ job'[w].t = t /\ job'[w].refs = T
      /\ \A x \in Workers \ {w} : job'[x] = job[x]
  BY <1>1, <1>a, TurnTypes DEF Jobs
<1>5. \A a, b \in T : a.pat = b.pat /\ a.grp = b.grp /\ a.grp # NoGroup => a = b
  <2> SUFFICES ASSUME NEW a \in T, NEW b \in T, a.pat = b.pat, a.grp = b.grp, a.grp # NoGroup
               PROVE  a = b
    OBVIOUS
  <2> DEFINE g == [pat |-> a.pat, grp |-> a.grp]
  <2>1. g \in Groups(R)
    BY <1>2 DEF Groups, Grouped
  <2>2. a \in Members(T, g) /\ b \in Members(T, g)
    BY DEF Members
  <2>3. IsFiniteSet(Members(T, g))
    BY <1>3, FS_Subset DEF Members
  <2> HIDE DEF g
  <2>4. \E x : Members(T, g) = {x}
    BY <1>2, <2>1, <2>3, FS_Singleton
  <2> QED BY <2>2, <2>4
<1>6. ASSUME NEW m, InPlay(m)'
      PROVE  InPlay(m) \/ (m.ref \in T /\ m = Message(m.ref, n, t))
  <2>1. InMail(m)' => InMail(m)
    BY <1>1 DEF InMail
  <2>2. InFan(m)' => InFan(m) \/ (m.ref \in T /\ m = Message(m.ref, n, t))
    BY <1>4 DEF InFan
  <2>3. InHand(m)' => InHand(m)
    BY <1>4 DEF InHand, Hands
  <2> QED BY <1>1, <1>6, <2>1, <2>2, <2>3 DEF InPlay
<1>7. \A m, r : m = Message(r, n, t) => m.n = n
  BY DEF Message
<1>8. \A m \in Msgs : InPlay(m) => m.n # n
  BY <1>1, <1>a DEF GroupInv
<1>9. Pubs(job[w]) /\ \A x \in Workers : job'[x].n = job[x].n
  BY <1>1, <1>4, <1>a DEF Pubs
<1>10. \A a, b \in Msgs : InPlay(a)' /\ InPlay(b)' /\ Rival(a, b) => a = b
  <2> SUFFICES ASSUME NEW a \in Msgs, NEW b \in Msgs, InPlay(a)', InPlay(b)', Rival(a, b)
               PROVE  a = b
    OBVIOUS
  <2>1. CASE InPlay(a) /\ InPlay(b)
    BY <2>1 DEF GroupInv
  <2>2. CASE ~InPlay(a) /\ ~InPlay(b)
    <3>1. /\ a.ref \in T /\ a = Message(a.ref, n, t)
          /\ b.ref \in T /\ b = Message(b.ref, n, t)
      BY <1>6, <2>2
    <3>2. a.ref = b.ref
      BY <1>5, <3>1 DEF Rival
    <3> QED BY <3>1, <3>2
  <2>3. CASE InPlay(a) /\ ~InPlay(b)
    BY <1>6, <1>7, <1>8, <2>3 DEF Rival
  <2>4. CASE ~InPlay(a) /\ InPlay(b)
    BY <1>6, <1>7, <1>8, <2>4 DEF Rival
  <2> QED BY <2>1, <2>2, <2>3, <2>4
<1>11. \A a \in Msgs : InPlay(a)' => a.n <= spent'.pub
  BY <1>1, <1>6, <1>7, <1>9, <1>a DEF GroupInv
<1>12. \A x \in Workers : Pubs(job'[x]) => Pubs(job[x]) /\ job'[x].n <= spent'.pub
  BY <1>1, <1>4, <1>9 DEF GroupInv
<1>13. \A x \in Workers : job'[x].pc = "snap" => x # w /\ job'[x] = job[x]
  BY <1>4
<1>14. \A x \in Workers : \A a \in Msgs : job'[x].pc = "snap" /\ InPlay(a)' => a.n # job'[x].n
  <2> SUFFICES ASSUME NEW x \in Workers, NEW a \in Msgs, job'[x].pc = "snap", InPlay(a)'
               PROVE  a.n # job'[x].n
    OBVIOUS
  <2>1. x # w /\ job[x].pc = "snap" /\ job[x].n # n
    BY <1>9, <1>13, <1>a DEF GroupInv, Pubs
  <2> QED BY <1>6, <1>7, <1>9, <2>1 DEF GroupInv
<1> QED BY <1>9, <1>10, <1>11, <1>12, <1>13, <1>14 DEF GroupInv, Rival

(* Letters that were there before.                                           *)
Fewer == \A x \in Workers : \A k \in DOMAIN mail'[x] :
             \E i \in DOMAIN mail[x] : mail'[x][k] = mail[x][i]

(* Mail that only went away was there before.                                *)
LEMMA FewerMail ==
    ASSUME Fewer
    PROVE  \A m : InMail(m)' => InMail(m)
<1> SUFFICES ASSUME NEW m, InMail(m)' PROVE InMail(m)
  OBVIOUS
<1>1. PICK x \in Workers : \E k \in DOMAIN mail'[x] :
         /\ mail'[x][k].kind = "SEND"
         /\ m = Message(mail'[x][k].ref, mail'[x][k].n, mail'[x][k].t)
  BY DEF InMail
<1> QED BY <1>1 DEF InMail, Fewer

(* No SEND but those that were there before.                                 *)
LEMMA GrownMail ==
    ASSUME Grown(mail, mail')
    PROVE  \A m : InMail(m)' => InMail(m)
  BY DEF InMail, Grown

(* A handler of PUBLISH that goes on or ends.                                *)
LEMMA GoGroup ==
    ASSUME IInv, GroupInv, NEW w \in Workers, PubNoMemory(w) \/ PubGo(w) \/ PubDone(w)
    PROVE  GroupInv'
<1>a. PICK c : c = job[w].c
  OBVIOUS
<1>1. /\ job[w].pc \in {"snap", "go", "fan"}
      /\ (job[w].pc = "go" /\ Go(w, "fan")) \/ Done(w) \/ Closing(w, c)
      /\ UNCHANGED <<mail, got>> /\ (spent' = spent \/ Spend("oom"))
  BY <1>a DEF PubNoMemory, PubGo, PubDone, At
<1>2. c \in Clients
  BY <1>1, <1>a, Actor
<1>3. /\ \A x \in Workers \ {w} : job'[x] = job[x]
      /\ \/ /\ job[w].pc = "go"
            /\ job'[w].pc = "fan" /\ job'[w].n = job[w].n /\ job'[w].t = job[w].t
            /\ job'[w].refs = job[w].refs
         \/ job'[w].pc \in {"idle", "finish"}
  <2>1. CASE job[w].pc = "go" /\ Go(w, "fan")
    BY <2>1, TurnTypes DEF Go, Jobs
  <2>2. CASE Done(w)
    BY <2>2, TurnTypes, IdleIs DEF Done
  <2>3. CASE Closing(w, c)
    <3>1. "finish" \in Pcs
      BY DEF Pcs
    <3>2. Job("finish", c).pc = "finish"
      BY <1>2, <3>1, JobIs
    <3> QED BY <2>3, <3>2, TurnTypes DEF Closing
  <2> QED BY <1>1, <2>1, <2>2, <2>3
<1>4. \A m : InMail(m)' => InMail(m)
  BY <1>1 DEF InMail
<1>5. \A m : (InFan(m)' => InFan(m)) /\ (InHand(m)' => InHand(m))
  BY <1>1, <1>3 DEF InFan, Fans, InHand, Hands
<1>6. \A m : InPlay(m)' => InPlay(m)
  BY <1>1, <1>4, <1>5 DEF InPlay
<1>7. /\ \A x \in Workers : Pubs(job'[x]) => Pubs(job[x]) /\ job'[x].n = job[x].n
      /\ \A x \in Workers : job'[x].pc = "snap" => job'[x] = job[x]
  BY <1>1, <1>3 DEF Pubs
<1>8. spent'.pub = spent.pub
  BY <1>1, SpendOther
<1> QED BY <1>6, <1>7, <1>8, CopiesMove

(* The letter of a fan-out.                                                  *)
LEMMA MailedIs ==
    ASSUME IInv, NEW r \in Ref, NEW n \in Nat, NEW t \in Subject, NEW e \in Nat,
           mail' = Mailed(Send(r, n, t, e))
    PROVE  /\ \A x \in Workers : \A k \in DOMAIN mail[x] :
                  k \in DOMAIN mail'[x] /\ mail'[x][k] = mail[x][k]
           /\ \A x \in Workers : \A k \in DOMAIN mail'[x] :
                  k \in DOMAIN mail[x] \/ mail'[x][k] = Send(r, n, t, e)
           /\ \E k \in DOMAIN mail'[Owner[r.c]] : mail'[Owner[r.c]][k] = Send(r, n, t, e)
<1>a. PICK m, w : m = Send(r, n, t, e) /\ w = Owner[r.c]
  OBVIOUS
<1>1. m.to = r.c /\ r.c \in Clients /\ m \in Letter
  BY <1>a, SendIs
<1>2. w \in Workers /\ mail \in [Workers -> Seq(Letter)] /\ mail[w] \in Seq(Letter)
  BY <1>1, <1>a, SubscriptionsAssumption DEF IInv, MailInv, BoxOk
<1> DEFINE box == Append(mail[w], m)
<1>3. mail' = [mail EXCEPT ![w] = box]
  BY <1>1, <1>a DEF Mailed
<1>4. /\ DOMAIN box = 1 .. Len(mail[w]) + 1 /\ box[Len(mail[w]) + 1] = m
      /\ \A k \in DOMAIN mail[w] : k \in DOMAIN box /\ box[k] = mail[w][k]
      /\ DOMAIN mail[w] = 1 .. Len(mail[w]) /\ Len(mail[w]) \in Nat
  BY <1>1, <1>2
<1>5. /\ \A k \in DOMAIN box : k \in DOMAIN mail[w] \/ box[k] = m
      /\ \E k \in DOMAIN box : box[k] = m
  BY <1>4
<1> HIDE DEF box
<1>6. mail'[w] = box /\ \A x \in Workers \ {w} : mail'[x] = mail[x]
  BY <1>2, <1>3
<1> QED BY <1>4, <1>5, <1>6, <1>a

(* What one target of a fan-out does: it is taken in hand, mailed, or        *)
(* skipped, and then its session is closed or it may not have the copy.      *)
LEMMA FanDoes ==
    ASSUME IInv, NEW w \in Workers, PubFan(w)
    PROVE  \E r \in job[w].refs :
             /\ job[w].pc = "fan" /\ UNCHANGED <<trie, acc, ep, got>>
             /\ \/ /\ UNCHANGED <<mail, shut, spent>>
                   /\ job' = [job EXCEPT ![w].refs = @ \ {r}, ![w].ref = r, ![w].pc = "send"]
                \/ /\ mail' = Mailed(Send(r, job[w].n, job[w].t, job[w].ep))
                   /\ job' = [job EXCEPT ![w].refs = @ \ {r}]
                   /\ UNCHANGED <<shut, spent>>
                \/ /\ job' = [job EXCEPT ![w].refs = @ \ {r}]
                   /\ Grown(mail, mail') /\ shut \subseteq shut' /\ spent'.pub = spent.pub
                   /\ \/ Sentenced(r.c)' \/ r.c \in shut' \/ st'[r.c] # "connected"
                      \/ ~Accepts(r, job[w].t) \/ ~LiveEpoch(job[w].ep)
                      \/ Owner[r.c] = w /\ ~Covers(r.c, r.sid, job[w].t)
<1>1. PICK r \in job[w].refs :
         /\ At(w, "fan")
         /\ \/ /\ ~Accepts(r, job[w].t) \/ ~LiveEpoch(job[w].ep)
               /\ job' = [job EXCEPT ![w].refs = @ \ {r}]
               /\ UNCHANGED <<st, mail, shut, spent>>
            \/ /\ Accepts(r, job[w].t) /\ LiveEpoch(job[w].ep)
               /\ \/ Owner[r.c] = w /\ CheckHere(w, r, job[w].t)
                  \/ /\ Owner[r.c] # w
                     /\ SendThere(r, job[w].n, job[w].t, job[w].ep)
                     /\ job' = [job EXCEPT ![w].refs = @ \ {r}]
                     /\ UNCHANGED st
         /\ UNCHANGED <<trie, acc, ep, active, lists, got>>
  BY DEF PubFan
<1>2. r.c \in Clients /\ BoxOk(mail) /\ Grown(mail, mail) /\ st \in [Clients -> States]
  BY TurnTypes DEF Jobs, Ref, IInv, MailInv, Grown, TypeInv
<1>3. job[w].pc = "fan" /\ UNCHANGED <<trie, acc, ep, got>>
  BY <1>1 DEF At
<1>4. CASE /\ ~Accepts(r, job[w].t) \/ ~LiveEpoch(job[w].ep)
           /\ job' = [job EXCEPT ![w].refs = @ \ {r}]
           /\ UNCHANGED <<st, mail, shut, spent>>
  BY <1>2, <1>3, <1>4
<1>5. CASE Owner[r.c] = w /\ CheckHere(w, r, job[w].t)
  <2>1. CASE /\ job' = [job EXCEPT ![w].refs = @ \ {r}, ![w].ref = r, ![w].pc = "send"]
             /\ UNCHANGED <<st, mail, shut, spent>>
    BY <1>3, <2>1
  <2>2. CASE /\ st' = [st EXCEPT ![r.c] = "closing"] /\ TeardownOrShutdown(r.c, mail)
             /\ job' = [job EXCEPT ![w].refs = @ \ {r}]
    <3>1. Grown(mail, mail') /\ shut \subseteq shut' /\ spent'.pub = spent.pub
      BY <1>2, <2>2, TeardownGrows
    <3>2. st'[r.c] # "connected"
      BY <1>2, <2>2
    <3> QED BY <1>3, <2>2, <3>1, <3>2
  <2>3. CASE /\ st[r.c] # "connected" \/ (Live(r.c) /\ ~Covers(r.c, r.sid, job[w].t))
             /\ job' = [job EXCEPT ![w].refs = @ \ {r}]
             /\ UNCHANGED <<st, mail, shut, spent>>
    BY <1>2, <1>3, <1>5, <2>3
  <2> QED BY <1>5, <2>1, <2>2, <2>3 DEF CheckHere
<1>6. CASE /\ SendThere(r, job[w].n, job[w].t, job[w].ep) /\ UNCHANGED st
           /\ job' = [job EXCEPT ![w].refs = @ \ {r}]
  <2>1. CASE /\ mail' = Mailed(Send(r, job[w].n, job[w].t, job[w].ep))
             /\ UNCHANGED <<shut, spent>>
    BY <1>3, <1>6, <2>1
  <2>2. CASE TeardownOrShutdown(r.c, mail)
    <3>1. /\ Grown(mail, mail') /\ shut \subseteq shut' /\ spent'.pub = spent.pub
          /\ st[r.c] # "gone" => Sentenced(r.c)' \/ r.c \in shut'
      BY <1>2, <2>2, TeardownGrows
    <3> QED BY <1>3, <1>6, <3>1
  <2> QED BY <1>6, <2>1, <2>2 DEF SendThere
<1> QED BY <1>1, <1>4, <1>5, <1>6

(* The handler after it.                                                     *)
LEMMA FanLeaves ==
    ASSUME IInv, NEW w \in Workers, job[w].pc = "fan", NEW r \in job[w].refs,
           \/ job' = [job EXCEPT ![w].refs = @ \ {r}, ![w].ref = r, ![w].pc = "send"]
           \/ job' = [job EXCEPT ![w].refs = @ \ {r}]
    PROVE  /\ \A x \in Workers \ {w} : job'[x] = job[x]
           /\ job'[w].n = job[w].n /\ job'[w].t = job[w].t /\ job'[w].ep = job[w].ep
           /\ job'[w].c = job[w].c /\ job'[w].refs = job[w].refs \ {r}
           /\ job'[w].pc = "fan" \/ (job'[w].pc = "send" /\ job'[w].ref = r)
           /\ r \in Ref /\ job[w].n \in Nat /\ job[w].t \in Subject /\ job[w].ep \in Nat
<1>1. /\ job \in [Workers -> Jobs] /\ job[w] \in Jobs
  BY TurnTypes
<1>2. r \in Ref /\ job[w].n \in Nat /\ job[w].t \in Subject /\ job[w].ep \in Nat
  BY <1>1 DEF Jobs
<1>3. CASE job' = [job EXCEPT ![w].refs = @ \ {r}, ![w].ref = r, ![w].pc = "send"]
  BY <1>1, <1>2, <1>3 DEF Jobs
<1>4. CASE job' = [job EXCEPT ![w].refs = @ \ {r}]
  BY <1>1, <1>2, <1>4 DEF Jobs
<1> QED BY <1>3, <1>4

(* One receiver of the fan-out is taken in hand, or gets a SEND in its       *)
(* owner's mailbox.                                                          *)
LEMMA FanGroup ==
    ASSUME IInv, GroupInv, NEW w \in Workers, PubFan(w)
    PROVE  GroupInv'
<1>a. PICK n, t, R, e : n = job[w].n /\ t = job[w].t /\ R = job[w].refs /\ e = job[w].ep
  OBVIOUS
<1>1. PICK r \in R :
         /\ job[w].pc = "fan" /\ got' = got
         /\ \/ job' = [job EXCEPT ![w].refs = @ \ {r}, ![w].ref = r, ![w].pc = "send"]
            \/ job' = [job EXCEPT ![w].refs = @ \ {r}]
         /\ \/ UNCHANGED <<mail, spent>>
            \/ mail' = Mailed(Send(r, n, t, e)) /\ UNCHANGED spent
            \/ Grown(mail, mail') /\ spent'.pub = spent.pub
  BY <1>a, FanDoes
<1>2. /\ \A x \in Workers \ {w} : job'[x] = job[x]
      /\ job'[w].n = n /\ job'[w].t = t /\ job'[w].refs = R \ {r}
      /\ job'[w].pc = "fan" \/ (job'[w].pc = "send" /\ job'[w].ref = r)
      /\ r \in Ref /\ n \in Nat /\ t \in Subject /\ e \in Nat
  BY <1>1, <1>a, FanLeaves
<1>3. InFan(Message(r, n, t)) /\ Message(r, n, t).ref = r
  BY <1>1, <1>a DEF InFan, Fans, Message
<1>4. \A m : InFan(m)' => InFan(m)
  BY <1>1, <1>2, <1>a DEF InFan, Fans
<1>5. \A m : InHand(m)' => InHand(m) \/ m = Message(r, n, t)
  BY <1>2 DEF InHand, Hands
<1>6. \A m : InMail(m)' => InMail(m) \/ m = Message(r, n, t)
  <2>1. CASE UNCHANGED mail
    BY <2>1 DEF InMail
  <2>2. CASE Grown(mail, mail')
    BY <2>2, GrownMail
  <2>3. CASE mail' = Mailed(Send(r, n, t, e))
    <3>1. \A x \in Workers : \A k \in DOMAIN mail'[x] :
              \/ k \in DOMAIN mail[x] /\ mail'[x][k] = mail[x][k]
              \/ mail'[x][k] = Send(r, n, t, e)
      BY <1>2, <2>3, MailedIs
    <3>2. /\ Send(r, n, t, e).ref = r /\ Send(r, n, t, e).n = n /\ Send(r, n, t, e).t = t
      BY <1>2, SendIs
    <3> QED BY <3>1, <3>2 DEF InMail
  <2> QED BY <1>1, <2>1, <2>2, <2>3
<1>7. \A m : InPlay(m)' => InPlay(m)
  BY <1>1, <1>3, <1>4, <1>5, <1>6 DEF InPlay
<1>8. spent'.pub = spent.pub
  BY <1>1
<1>9. /\ \A x \in Workers : Pubs(job'[x]) => Pubs(job[x]) /\ job'[x].n = job[x].n
      /\ \A x \in Workers : job'[x].pc = "snap" => job'[x] = job[x]
  BY <1>1, <1>2, <1>a DEF Pubs
<1> QED BY <1>7, <1>8, <1>9, CopiesMove

(* The copy in hand is written, or its client is closed, or an account is    *)
(* gone.                                                                     *)
LEMMA HandDoes ==
    ASSUME IInv, NEW w \in Workers, NEW j, j = job[w], SendHere(w) \/ MailWrite(w)
    PROVE  /\ Hands(j) /\ UNCHANGED <<trie, acc, ep>>
           /\ Grown(mail, mail') /\ shut \subseteq shut' /\ spent'.pub = spent.pub
           /\ got' = got \/ got' = got \cup {Message(j.ref, j.n, j.t)}
           /\ \A x \in Workers \ {w} : job'[x] = job[x]
           /\ \/ /\ j.pc = "send" /\ job'[w].pc = "fan" /\ job'[w].n = j.n /\ job'[w].t = j.t
                 /\ job'[w].refs = j.refs /\ job'[w].ep = j.ep /\ job'[w].c = j.c
              \/ j.pc = "letter" /\ job'[w].pc \in {"idle", "finish"}
           /\ \/ Message(j.ref, j.n, j.t) \in got' \/ ~LiveEpoch(j.ep)
              \/ j.pc = "send" /\ st'[j.ref.c] # "connected"
              \/ j.pc = "letter" /\ st'[j.c] # "connected"
<1>1. /\ BoxOk(mail) /\ Grown(mail, mail) /\ st \in [Clients -> States]
      /\ job \in [Workers -> Jobs]
  BY TurnTypes DEF IInv, MailInv, Grown, TypeInv
<1>2. CASE SendHere(w)
  <2>a. PICK c : c = j.ref.c
    OBVIOUS
  <2>1. /\ j.pc = "send" /\ UNCHANGED <<trie, acc, ep>>
        /\ job' = [job EXCEPT ![w].ref = NoRef, ![w].pc = "fan"]
        /\ \/ /\ LiveEpoch(j.ep)
              /\ \/ got' = got \cup {Message(j.ref, j.n, j.t)} /\ UNCHANGED <<st, mail, shut, spent>>
                 \/ /\ Spend("oom")
                    /\ st' = [st EXCEPT ![c] = "closing"]
                    /\ PushTeardown(c, mail) /\ UNCHANGED got
           \/ /\ st' = [st EXCEPT ![c] = "closing"]
              /\ TeardownOrShutdown(c, mail) /\ UNCHANGED got
           \/ ~LiveEpoch(j.ep) /\ UNCHANGED <<st, mail, shut, got, spent>>
    BY <1>2, <2>a DEF SendHere, At
  <2>2. c \in Clients
    <3>1. LocalsOk(job[w].c, job[w], ent[job[w].c])
      BY <2>1, Actor DEF ClientOk
    <3> QED BY <2>1, <2>a, <3>1 DEF LocalsOk, Ref
  <2>3. /\ job'[w].pc = "fan" /\ job'[w].n = j.n /\ job'[w].t = j.t
        /\ job'[w].refs = j.refs /\ job'[w].ep = j.ep /\ job'[w].c = j.c
        /\ \A x \in Workers \ {w} : job'[x] = job[x]
    BY <1>1, <2>1 DEF Jobs
  <2>4. /\ Grown(mail, mail') /\ shut \subseteq shut' /\ spent'.pub = spent.pub
    <3>1. CASE Spend("oom") /\ PushTeardown(c, mail)
      BY <1>1, <2>2, <3>1, PushGrows, SpendOther
    <3>2. CASE TeardownOrShutdown(c, mail)
      BY <1>1, <2>2, <3>2, TeardownGrows
    <3>3. CASE UNCHANGED <<mail, shut, spent>>
      BY <1>1, <3>3
    <3> QED BY <2>1, <3>1, <3>2, <3>3
  <2>5. \/ Message(j.ref, j.n, j.t) \in got' \/ ~LiveEpoch(j.ep)
        \/ st'[j.ref.c] # "connected"
    BY <1>1, <2>1, <2>2, <2>a
  <2> QED BY <2>1, <2>3, <2>4, <2>5 DEF Hands
<1>3. CASE MailWrite(w)
  <2>a. PICK c : c = j.c
    OBVIOUS
  <2>1. /\ j.pc = "letter" /\ UNCHANGED <<trie, acc, ep, mail, shut>>
        /\ \/ Closing(w, c) /\ UNCHANGED <<got, spent>>
           \/ got' = got \cup {Message(j.ref, j.n, j.t)} /\ Done(w) /\ UNCHANGED spent
           \/ Spend("oom") /\ Closing(w, c) /\ UNCHANGED got
           \/ ~LiveEpoch(j.ep) /\ Done(w) /\ UNCHANGED <<got, spent>>
    BY <1>3, <2>a DEF MailWrite, At
  <2>2. c \in Clients
    BY <2>1, <2>a, Actor
  <2>3. "finish" \in Pcs
    BY DEF Pcs
  <2>4. Job("finish", c).pc = "finish"
    BY <2>2, <2>3, JobIs
  <2>5. Closing(w, c) => /\ st'[c] # "connected" /\ job'[w].pc = "finish"
                         /\ \A x \in Workers \ {w} : job'[x] = job[x]
    BY <1>1, <2>2, <2>4 DEF Closing
  <2>6. Done(w) => job'[w].pc = "idle" /\ \A x \in Workers \ {w} : job'[x] = job[x]
    BY <1>1, IdleIs DEF Done
  <2>7. spent'.pub = spent.pub
    BY <2>1, SpendOther
  <2> QED BY <1>1, <2>1, <2>5, <2>6, <2>7, <2>a DEF Hands
<1> QED BY <1>2, <1>3

(* The write moves the copy in hand to the socket or drops it.               *)
LEMMA HandGroup ==
    ASSUME IInv, GroupInv, NEW w \in Workers, SendHere(w) \/ MailWrite(w)
    PROVE  GroupInv'
<1>a. PICK j : j = job[w]
  OBVIOUS
<1>1. /\ Hands(j) /\ Grown(mail, mail') /\ spent'.pub = spent.pub
      /\ got' = got \/ got' = got \cup {Message(j.ref, j.n, j.t)}
      /\ \A x \in Workers \ {w} : job'[x] = job[x]
      /\ \/ /\ j.pc = "send" /\ job'[w].pc = "fan" /\ job'[w].n = j.n /\ job'[w].t = j.t
            /\ job'[w].refs = j.refs
         \/ job'[w].pc \in {"idle", "finish"}
  BY <1>a, HandDoes
<1>2. InHand(Message(j.ref, j.n, j.t))
  BY <1>1, <1>a DEF InHand
<1>3. \A m : (InFan(m)' => InFan(m)) /\ (InHand(m)' => InHand(m))
  BY <1>1, <1>a DEF InFan, Fans, InHand, Hands
<1>4. \A m : InPlay(m)' => InPlay(m)
  BY <1>1, <1>2, <1>3, GrownMail DEF InPlay
<1>5. /\ \A x \in Workers : Pubs(job'[x]) => Pubs(job[x]) /\ job'[x].n = job[x].n
      /\ \A x \in Workers : job'[x].pc = "snap" => job'[x] = job[x]
  BY <1>1, <1>a DEF Pubs
<1> QED BY <1>1, <1>4, <1>5, CopiesMove

(* An increasing function between sets of the same size leaves nothing out.  *)
LEMMA Onto ==
    ASSUME NEW K \in SUBSET Nat, IsFiniteSet(K), NEW n \in Nat, n = Cardinality(K),
           NEW pos \in [1 .. n -> K], \A i, k \in 1 .. n : i < k => pos[i] < pos[k]
    PROVE  \A k \in K : \E i \in 1 .. n : pos[i] = k
<1>1. IsFiniteSet(1 .. n) /\ Cardinality(1 .. n) = n
  BY FS_Interval
<1>2. \A i, k \in 1 .. n : i # k => pos[i] # pos[k]
  <2> SUFFICES ASSUME NEW i \in 1 .. n, NEW k \in 1 .. n, i # k, pos[i] = pos[k]
               PROVE  FALSE
    OBVIOUS
  <2>1. i < k \/ k < i
    OBVIOUS
  <2>2. pos[i] < pos[k] \/ pos[k] < pos[i]
    BY <2>1
  <2>3. pos[i] \in Nat /\ pos[k] \in Nat
    OBVIOUS
  <2> QED BY <2>2, <2>3
<1>3. ASSUME NEW k \in K, \A i \in 1 .. n : pos[i] # k PROVE FALSE
  <2> DEFINE A == 1 .. n
             B == K \ {k}
  <2>1. IsFiniteSet(B) /\ Cardinality(B) = n - 1
    BY FS_RemoveElement
  <2>2. IsFiniteSet(A) /\ Cardinality(B) < Cardinality(A) /\ pos \in [A -> B]
    BY <1>1, <1>3, <2>1
  <2> HIDE DEF A, B
  <2>3. \E x, y \in A : x # y /\ pos[x] = pos[y]
    BY <2>1, <2>2, FS_PigeonHole
  <2> QED BY <1>2, <2>3 DEF A
<1> QED BY <1>3

(* A purge keeps the letters of the others, and TEARDOWN.                    *)
LEMMA PurgeKeeps ==
    ASSUME BoxOk(mail), NEW w \in Workers, NEW c, NEW box \in Seq(Letter),
           \A k \in DOMAIN box : Owner[box[k].to] = w, Purge(w, c, box)
    PROVE  \A k \in DOMAIN box : box[k].kind = "TEARDOWN" \/ box[k].to # c =>
               \E i \in DOMAIN mail'[w] : mail'[w][i] = box[k]
<1> DEFINE kept == {k \in DOMAIN box : box[k].kind = "TEARDOWN" \/ box[k].to # c}
<1>1. PICK pos \in [1 .. Cardinality(kept) -> kept] :
          /\ \A i, k \in DOMAIN pos : i < k => pos[i] < pos[k]
          /\ mail' = [mail EXCEPT ![w] = [i \in DOMAIN pos |-> box[pos[i]]]]
  BY DEF Purge
<1>2. DOMAIN box = 1 .. Len(box) /\ Len(box) \in Nat
  OBVIOUS
<1>3. IsFiniteSet(kept) /\ Cardinality(kept) \in Nat
  <2>1. PICK m \in Nat : DOMAIN box = 1 .. m
    BY <1>2
  <2>2. IsFiniteSet(1 .. m)
    BY FS_Interval
  <2>3. IsFiniteSet(kept)
    BY <2>1, <2>2, FS_Subset
  <2> QED BY <2>3, FS_CardinalityType
<1>4. kept \in SUBSET Nat
  BY <1>2
<1>5. PICK n \in Nat : n = Cardinality(kept)
  BY <1>3
<1>6. DOMAIN pos = 1 .. n /\ mail'[w] = [i \in 1 .. n |-> box[pos[i]]]
  BY <1>1, <1>5 DEF BoxOk
<1>7. \A k \in kept : \E i \in 1 .. n : pos[i] = k
  <2> HIDE DEF kept
  <2>1. pos \in [1 .. n -> kept] /\ \A i, k \in 1 .. n : i < k => pos[i] < pos[k]
    BY <1>1, <1>5, <1>6
  <2> QED BY <1>3, <1>4, <1>5, <2>1, Onto
<1>8. ASSUME NEW k \in DOMAIN box, box[k].kind = "TEARDOWN" \/ box[k].to # c
      PROVE  \E i \in DOMAIN mail'[w] : mail'[w][i] = box[k]
  <2>1. PICK i \in 1 .. n : pos[i] = k
    BY <1>7, <1>8
  <2>2. i \in DOMAIN mail'[w] /\ mail'[w][i] = box[k]
    BY <1>6, <2>1
  <2> QED BY <2>2
<1> QED BY <1>8

(* The worker has the letter l in hand.                                      *)
Opens(w, l) ==
    /\ l.kind = "SEND" /\ job'[w].pc = "letter" /\ job'[w].c = l.to
    /\ job'[w].ref = l.ref /\ job'[w].n = l.n /\ job'[w].t = l.t /\ job'[w].ep = l.ep
    /\ \A x \in Workers \ {w} : job'[x] = job[x]

(* What a worker does with the first letter l of its mailbox.                *)
LEMMA MailDoes ==
    ASSUME IInv, NEW w \in Workers, NEW l, l = Head(mail[w]), MailNext(w)
    PROVE  /\ l \in Letter /\ Owner[l.to] = w /\ job[w] = Idle
           /\ UNCHANGED <<trie, acc, ent, shut, ep>> /\ spent'.pub = spent.pub
           /\ Fewer /\ \A x \in Workers \ {w} : mail'[x] = mail[x]
           /\ \A k \in DOMAIN mail[w] :
                 \/ mail[w][k] = l
                 \/ l.kind = "TEARDOWN" /\ mail[w][k].to = l.to
                 \/ \E i \in DOMAIN mail'[w] : mail'[w][i] = mail[w][k]
           /\ got' = got /\ (job' = job \/ Closing(w, l.to) \/ Opens(w, l))
           /\ \E k \in DOMAIN mail[w] : mail[w][k] = l
           /\ l.kind = "SEND" =>
                 \/ Opens(w, l) \/ st'[l.to] # "connected"
                 \/ ~Covers(l.to, l.ref.sid, l.t)
           /\ l.kind = "TEARDOWN" => st'[l.to] # "connected"
<1>1. /\ job[w] = Idle /\ mail[w] # <<>>
      /\ MailSend(w, l) \/ MailFarewell(w, l) \/ MailTeardown(w, l)
      /\ UNCHANGED <<trie, acc, lists, shut>>
  BY DEF MailNext
<1>2. BoxOk(mail) /\ mail \in [Workers -> Seq(Letter)]
  BY DEF IInv, MailInv, BoxOk
<1>3. /\ Tail(mail[w]) \in Seq(Letter)
      /\ \A k \in DOMAIN Tail(mail[w]) : /\ k + 1 \in DOMAIN mail[w]
                                         /\ Tail(mail[w])[k] = mail[w][k + 1]
      /\ l \in Letter /\ Owner[l.to] = w /\ l.to \in Clients
  BY <1>1, <1>2, TailBox, LetterKinds
<1>4. /\ \A k \in DOMAIN mail[w] : \/ mail[w][k] = l
                                   \/ \E i \in DOMAIN Tail(mail[w]) : Tail(mail[w])[i] = mail[w][k]
      /\ \E k \in DOMAIN mail[w] : mail[w][k] = l
  <2>1. mail[w] \in Seq(Letter) /\ mail[w] # <<>>
    BY <1>1, <1>2
  <2> DEFINE box == Tail(mail[w])
  <2>2. /\ DOMAIN mail[w] = 1 .. Len(mail[w]) /\ Len(mail[w]) \in Nat \ {0}
        /\ DOMAIN box = 1 .. Len(mail[w]) - 1 /\ mail[w][1] = l
    BY <2>1
  <2>3. \A k \in DOMAIN mail[w] : k = 1 \/ (k - 1 \in DOMAIN box /\ box[k - 1] = mail[w][k])
    BY <1>3, <2>2
  <2> QED BY <2>2, <2>3
<1> DEFINE v == [Job("letter", l.to) EXCEPT !.ref = l.ref, !.n = l.n, !.t = l.t, !.ep = l.ep]
<1>o. ASSUME l.kind = "SEND", job' = [job EXCEPT ![w] = v] PROVE Opens(w, l)
  <2>1. "letter" \in Pcs
    BY DEF Pcs
  <2>2. /\ Job("letter", l.to) \in Jobs /\ Job("letter", l.to).pc = "letter"
        /\ Job("letter", l.to).c = l.to
    BY <1>3, <2>1, JobIs
  <2>3. /\ v.pc = "letter" /\ v.c = l.to /\ v.ref = l.ref /\ v.n = l.n /\ v.t = l.t
        /\ v.ep = l.ep
    BY <2>2 DEF Jobs
  <2> HIDE DEF v
  <2>4. job'[w] = v /\ \A x \in Workers \ {w} : job'[x] = job[x]
    BY <1>o, TurnTypes
  <2> QED BY <1>o, <2>3, <2>4 DEF Opens
<1>5. /\ ep' = ep /\ got' = got /\ spent' = spent
      /\ \/ job' = job \/ Closing(w, l.to)
         \/ l.kind = "SEND" /\ job' = [job EXCEPT ![w] = v]
  BY <1>1 DEF MailSend, MailFarewell, MailTeardown
<1>6. Closing(w, l.to) => st'[l.to] # "connected"
  BY <1>3 DEF Closing, IInv, TypeInv
<1>7. l.kind = "SEND" => \/ job' = [job EXCEPT ![w] = v] \/ st'[l.to] # "connected"
                         \/ ~Covers(l.to, l.ref.sid, l.t)
  BY <1>1, <1>6 DEF MailSend, MailFarewell, MailTeardown
<1>12. /\ job' = job \/ Closing(w, l.to) \/ Opens(w, l)
       /\ l.kind = "SEND" => \/ Opens(w, l) \/ st'[l.to] # "connected"
                             \/ ~Covers(l.to, l.ref.sid, l.t)
  <2> HIDE DEF v
  <2> QED BY <1>5, <1>7, <1>o
<1>8. l.kind = "TEARDOWN" => st'[l.to] # "connected"
  BY <1>1, <1>6 DEF MailSend, MailFarewell, MailTeardown
<1>9. spent'.pub = spent.pub
  BY <1>5
<1>10. CASE mail' = [mail EXCEPT ![w] = Tail(@)]
  <2>1. mail'[w] = Tail(mail[w]) /\ \A x \in Workers \ {w} : mail'[x] = mail[x]
    BY <1>2, <1>10
  <2>2. ASSUME NEW x \in Workers, NEW k \in DOMAIN mail'[x]
        PROVE  \E i \in DOMAIN mail[x] : mail'[x][k] = mail[x][i]
    <3>1. CASE x = w
      BY <1>3, <2>1, <2>2, <3>1
    <3>2. CASE x # w
      BY <2>1, <2>2, <3>2
    <3> QED BY <3>1, <3>2
  <2>3. Fewer
    BY <2>2 DEF Fewer
  <2> QED BY <1>1, <1>3, <1>4, <1>5, <1>8, <1>9, <1>12, <2>1, <2>3 DEF lists
<1>11. CASE l.kind = "TEARDOWN" /\ Purge(w, l.to, Tail(mail[w]))
  <2>1. \A k \in DOMAIN Tail(mail[w]) : Owner[Tail(mail[w])[k].to] = w
    BY <1>2, <1>3 DEF BoxOk
  <2>2. /\ \A x \in Workers \ {w} : mail'[x] = mail[x]
        /\ \A k \in DOMAIN mail'[w] : \E i \in DOMAIN Tail(mail[w]) :
               mail'[w][k] = Tail(mail[w])[i]
    BY <1>2, <1>3, <1>11, <2>1, PurgeBox
  <2>3. \A k \in DOMAIN Tail(mail[w]) : Tail(mail[w])[k].to # l.to =>
               \E i \in DOMAIN mail'[w] : mail'[w][i] = Tail(mail[w])[k]
    BY <1>2, <1>3, <1>11, <2>1, PurgeKeeps
  <2>4. Fewer
    BY <1>3, <2>2 DEF Fewer
  <2>5. \A k \in DOMAIN mail[w] : \/ mail[w][k] = l \/ mail[w][k].to = l.to
                                  \/ \E i \in DOMAIN mail'[w] : mail'[w][i] = mail[w][k]
    BY <1>4, <2>3
  <2> QED BY <1>1, <1>3, <1>4, <1>5, <1>8, <1>9, <1>11, <1>12, <2>2, <2>4, <2>5 DEF lists
<1> QED BY <1>1, <1>10, <1>11 DEF MailSend, MailFarewell, MailTeardown

(* The last step of a teardown.                                              *)
LEMMA ReleaseDoes ==
    ASSUME IInv, NEW w \in Workers, NEW c, c = job[w].c, TearRelease(w)
    PROVE  /\ c \in Clients /\ Owner[c] = w /\ st'[c] = "gone" /\ Turns(w)
           /\ UNCHANGED <<trie, got, ep, spent>> /\ shut' = shut \ {c}
           /\ Fewer /\ \A x \in Workers \ {w} : mail'[x] = mail[x]
           /\ \A k \in DOMAIN mail[w] : mail[w][k].to # c =>
                  \E i \in DOMAIN mail'[w] : mail'[w][i] = mail[w][k]
<1>1. /\ job[w].pc = "tear" /\ Purge(w, c, mail[w]) /\ st' = [st EXCEPT ![c] = "gone"]
      /\ shut' = shut \ {c} /\ Done(w) /\ UNCHANGED <<trie, got, ep, spent>>
  BY DEF TearRelease, At
<1>2. c \in Clients /\ Owner[c] = w /\ ~Busy(job[w])
  BY <1>1, Actor DEF Busy
<1>3. BoxOk(mail) /\ mail[w] \in Seq(Letter) /\ \A k \in DOMAIN mail[w] : Owner[mail[w][k].to] = w
  BY DEF IInv, MailInv, BoxOk
<1>4. /\ \A x \in Workers \ {w} : mail'[x] = mail[x]
      /\ \A k \in DOMAIN mail'[w] : \E i \in DOMAIN mail[w] : mail'[w][k] = mail[w][i]
  BY <1>1, <1>3, PurgeBox
<1>5. \A k \in DOMAIN mail[w] : mail[w][k].to # c =>
          \E i \in DOMAIN mail'[w] : mail'[w][i] = mail[w][k]
  BY <1>1, <1>3, PurgeKeeps
<1>6. Fewer
  BY <1>4 DEF Fewer
<1>7. Turns(w)
  BY <1>1, <1>2, DoneTurns
<1>8. st'[c] = "gone"
  BY <1>1, <1>2 DEF IInv, TypeInv
<1> QED BY <1>1, <1>2, <1>4, <1>5, <1>6, <1>7, <1>8

(* A worker takes the next mail, or purges the mail of a connection it       *)
(* releases.                                                                 *)
LEMMA MailGroup ==
    ASSUME IInv, GroupInv, NEW w \in Workers, MailNext(w) \/ TearRelease(w)
    PROVE  GroupInv'
<1>1. CASE TearRelease(w)
  <2>1. Turns(w) /\ UNCHANGED <<got, spent>> /\ Fewer
    BY <1>1, ReleaseDoes
  <2>2. \A x \in Workers : Busy(job'[x]) => job'[x] = job[x]
    BY <2>1 DEF Turns
  <2>3. \A m : (InFan(m)' => InFan(m)) /\ (InHand(m)' => InHand(m))
    BY <2>2, BusyAre DEF InFan, InHand
  <2>4. \A m : InPlay(m)' => InPlay(m)
    BY <2>1, <2>3, FewerMail DEF InPlay
  <2>5. \A x \in Workers : job'[x].pc = "snap" => job'[x] = job[x]
    BY <2>2 DEF Busy
  <2> QED BY <2>1, <2>2, <2>4, <2>5, BusyAre, CopiesMove
<1>2. CASE MailNext(w)
  <2>a. PICK l : l = Head(mail[w])
    OBVIOUS
  <2>1. /\ l \in Letter /\ job[w] = Idle /\ spent'.pub = spent.pub /\ Fewer /\ got' = got
        /\ job' = job \/ Closing(w, l.to) \/ Opens(w, l)
        /\ \E k \in DOMAIN mail[w] : mail[w][k] = l
    BY <1>2, <2>a, MailDoes
  <2>2. CASE job' = job \/ Closing(w, l.to)
    <3>1. ~Busy(job[w])
      BY <2>1, IdleIs DEF Busy
    <3>2. l.to \in Clients
      BY <2>1, LetterKinds
    <3>3. Closing(w, l.to) => Turns(w)
      BY <3>1, <3>2, ClosingTurns
    <3>4. \A x \in Workers : Busy(job'[x]) => job'[x] = job[x]
      BY <2>2, <3>3 DEF Turns
    <3>5. \A m : (InFan(m)' => InFan(m)) /\ (InHand(m)' => InHand(m))
      BY <3>4, BusyAre DEF InFan, InHand
    <3>6. \A m : InPlay(m)' => InPlay(m)
      BY <2>1, <3>5, FewerMail DEF InPlay
    <3>7. \A x \in Workers : job'[x].pc = "snap" => job'[x] = job[x]
      BY <3>4 DEF Busy
    <3> QED BY <2>1, <3>4, <3>6, <3>7, BusyAre, CopiesMove
  <2>3. CASE Opens(w, l)
    <3>1. InMail(Message(l.ref, l.n, l.t))
      BY <2>1, <2>3 DEF InMail, Opens
    <3>2. \A m : InFan(m)' => InFan(m)
      BY <2>3 DEF Opens, InFan, Fans
    <3>3. \A m : InHand(m)' => InHand(m) \/ m = Message(l.ref, l.n, l.t)
      BY <2>3 DEF Opens, InHand
    <3>4. \A m : InPlay(m)' => InPlay(m)
      BY <2>1, <3>1, <3>2, <3>3, FewerMail DEF InPlay
    <3>5. /\ \A x \in Workers : Pubs(job'[x]) => Pubs(job[x]) /\ job'[x].n = job[x].n
          /\ \A x \in Workers : job'[x].pc = "snap" => job'[x] = job[x]
      BY <2>3 DEF Opens, Pubs
    <3> QED BY <2>1, <3>4, <3>5, CopiesMove
  <2> QED BY <2>1, <2>2, <2>3
<1> QED BY <1>1, <1>2

(* Every step keeps one copy for a group.                                    *)
LEMMA GroupStep ==
    ASSUME IInv, GroupInv, [Next]_vars
    PROVE  GroupInv'
<1>1. CASE UNCHANGED vars
  <2>1. Aside
    BY <1>1, SameMail DEF vars, sessions, Aside
  <2> QED BY <2>1, AsideGroup
<1>2. CASE Step
  BY <1>2, MostAside, AsideGroup, PublishGroup, SnapshotGroup, GoGroup, FanGroup, HandGroup,
     MailGroup
<1> QED BY <1>1, <1>2 DEF Next

(* At the start nothing is published.                                        *)
LEMMA GroupInit == Init => GroupInv
<1> SUFFICES ASSUME Init PROVE GroupInv
  OBVIOUS
<1>1. \A w \in Workers : job[w] = Idle /\ mail[w] = <<>> /\ DOMAIN mail[w] = {}
  BY DEF Init, Fresh
<1>2. got = {}
  BY DEF Init, Fresh
<1>3. \A w \in Workers : ~Pubs(job[w]) /\ ~Fans(job[w]) /\ ~Hands(job[w]) /\ job[w].pc # "snap"
  BY <1>1, IdleIs DEF Pubs, Fans, Hands
<1>4. \A m : ~InPlay(m)
  BY <1>1, <1>2, <1>3 DEF InPlay, InMail, InFan, InHand
<1> QED BY <1>3, <1>4 DEF GroupInv

(* A queue group gets one copy of a publication, whatever happens to its     *)
(* members and mailboxes after the snapshot.                                 *)
THEOREM GroupKept == Spec => []GroupOnce
<1>1. IInv /\ GroupInv /\ [Next]_vars => GroupInv'
  BY GroupStep
<1>2. IInv /\ GroupInv => GroupOnce
  <2> SUFFICES ASSUME IInv, GroupInv, NEW a \in got, NEW b \in got,
                      a.n = b.n, a.ref.grp = b.ref.grp, a.ref.grp # NoGroup,
                      a.ref.pat = b.ref.pat
               PROVE  a = b
    BY DEF GroupOnce
  <2>1. a \in Msgs /\ b \in Msgs /\ InPlay(a) /\ InPlay(b) /\ Rival(a, b)
    BY DEF IInv, TypeInv, InPlay, Rival
  <2> QED BY <2>1 DEF GroupInv
<1> QED BY <1>1, <1>2, GroupInit, Invariant, PTL DEF Spec

-----------------------------------------------------------------------------
(* The steps of a PUBLISH: nothing is lost in silence.                       *)

(* A step that starts no PUBLISH adds no debt.                               *)
LEMMA OldOwed ==
    ASSUME IInv, OwedInv, Owe, \A w \in Workers : job'[w].pc = "snap" => job[w].pc = "snap",
           NEW d \in owed'
    PROVE  /\ d \in owed /\ Standing(d)' /\ Standing(d) /\ d.ref.grp = NoGroup /\ Kept(d)
           /\ ~GivenUp(d.n)
           /\ d.ref \in Ref /\ d.ref.c \in Clients /\ Owner[d.ref.c] \in Workers
<1>1. d \in owed /\ Standing(d)' /\ ~GivenUp(d.n)
  BY DEF Owe, At
<1>2. Standing(d) /\ d.ref.grp = NoGroup /\ Kept(d)
  BY <1>1 DEF OwedInv
<1>3. d.ref \in Ref
  BY <1>2 DEF Standing, IInv, TrieInv
<1> QED BY <1>1, <1>2, <1>3, SubscriptionsAssumption DEF Ref

(* Where no letter is lost, what is in the mailbox stays there.              *)
LEMMA LettersStay ==
    ASSUME NEW d, NEW w \in Workers, w = Owner[d.ref.c],
           \A k \in DOMAIN mail[w] : \E i \in DOMAIN mail'[w] : mail'[w][i] = mail[w][k]
    PROVE  /\ (\E k \in DOMAIN mail[w] : InBox(d, w, k)) =>
                  \E k \in DOMAIN mail'[w] : InBox(d, w, k)'
           /\ Sentenced(d.ref.c) => Sentenced(d.ref.c)'
<1>1. ASSUME NEW k \in DOMAIN mail[w], InBox(d, w, k)
      PROVE  \E i \in DOMAIN mail'[w] : InBox(d, w, i)'
  <2>1. PICK i \in DOMAIN mail'[w] : mail'[w][i] = mail[w][k]
    OBVIOUS
  <2> QED BY <1>1, <2>1 DEF InBox
<1>2. Sentenced(d.ref.c) => Sentenced(d.ref.c)'
  BY DEF Sentenced
<1> QED BY <1>1, <1>2

(* A PUBLISH owes nothing before its snapshot.                               *)
LEMMA PublishOwed ==
    ASSUME IInv, OwedInv, Owe, NEW w \in Workers, NEW c \in Clients, NEW t \in Topics,
           Publish(w, c, t)
    PROVE  OwedInv'
<1> DEFINE j == [Job("snap", c) EXCEPT !.refs = Match(trie, t), !.n = spent.pub + 1, !.t = t,
                                      !.ep = ep[c]]
<1>1. /\ job[w] = Idle /\ job' = [job EXCEPT ![w] = j]
      /\ UNCHANGED <<got, mail, shut, trie, ep>>
  BY DEF Publish, Start, sessions
<1>2. j.pc = "snap" /\ j.refs = Match(trie, t) /\ j.t = t /\ j.c = c /\ j.ep = ep[c]
  <2>1. "snap" \in Pcs
    BY DEF Pcs
  <2>2. Job("snap", c) \in Jobs /\ Job("snap", c).pc = "snap" /\ Job("snap", c).c = c
    BY <2>1, JobIs
  <2> QED BY <2>2 DEF Jobs
<1> HIDE DEF j
<1>3. job'[w] = j /\ \A x \in Workers \ {w} : job'[x] = job[x]
  BY <1>1, TurnTypes
<1>4. \A x \in Workers : Busy(job[x]) => job'[x] = job[x]
  BY <1>1, <1>3, IdleIs DEF Busy
<1>5. \A r \in j.refs : SubjectMatch(r.pat, t)
  <2>1. t \in Seq(STRING) /\ TrieOk(trie)
    BY SubscriptionsAssumption DEF IInv, TrieInv
  <2> QED BY <1>2, <2>1, MatchExact
<1>6. ASSUME NEW d \in owed' PROVE Standing(d)' /\ d.ref.grp = NoGroup /\ Kept(d)'
  <2>1. Standing(d)' /\ (d \in owed \/ \E x \in Workers :
            job[x].pc # "snap" /\ job'[x].pc = "snap" /\ d \in Matched(job'[x]))
    BY <1>6 DEF Owe, At
  <2>2. CASE d \in owed
    <3>1. Kept(d) /\ d.ref.grp = NoGroup
      BY <2>2 DEF OwedInv
    <3>2. \A x \in Workers : InJob(d, x) => InJob(d, x)'
      BY <1>1, <1>4 DEF InJob, Accepts
    <3>3. Sentenced(d.ref.c) => Sentenced(d.ref.c)'
      BY <1>1 DEF Sentenced
    <3>4. \A x, k : InBox(d, x, k) => InBox(d, x, k)'
      BY <1>1 DEF InBox
    <3> QED BY <1>1, <2>1, <3>1, <3>2, <3>3, <3>4 DEF Kept
  <2>3. CASE d \notin owed
    <3>1. d \in Matched(j)
      BY <1>3, <2>1, <2>3
    <3>2. PICK r \in j.refs : /\ r.grp = NoGroup /\ Accepts(r, j.t)
                              /\ d = [n |-> j.n, ref |-> r, ep |-> j.ep]
      BY <3>1 DEF Matched
    <3>3. InJob(d, w)'
      BY <1>1, <1>2, <1>3, <1>5, <3>2 DEF InJob, Pubs, Busy, Accepts
    <3> QED BY <2>1, <3>2, <3>3 DEF Kept
  <2> QED BY <2>2, <2>3
<1> QED BY <1>6 DEF OwedInv

(* The snapshot owes a copy to exactly the references it put in the          *)
(* worker's hands.                                                           *)
LEMMA SnapshotOwed ==
    ASSUME IInv, OwedInv, Owe, NEW w \in Workers, PubSnapshot(w)
    PROVE  OwedInv'
<1>1. PICK F, T : /\ T \in Snapshots({r \in job[w].refs \ (job[w].refs \ Registered(trie)) :
                                         Eligible(r)} \cup F)
                  /\ job' = [job EXCEPT ![w].refs = T, ![w].pc = "go"]
                  /\ job[w].pc = "snap"
                  /\ UNCHANGED <<trie, acc, st, ep, mail, got, shut>>
  BY DEF PubSnapshot, At, sessions
<1>2. /\ job'[w].pc = "go" /\ job'[w].n = job[w].n /\ job'[w].t = job[w].t
      /\ job'[w].refs = T /\ job'[w].c = job[w].c /\ job'[w].ep = job[w].ep
      /\ \A x \in Workers \ {w} : job'[x] = job[x]
  BY <1>1, TurnTypes DEF Jobs
<1>3. \A x \in Workers : job'[x].pc = "snap" => job[x].pc = "snap"
  BY <1>2
<1>4. ASSUME NEW d \in owed' PROVE Standing(d)' /\ d.ref.grp = NoGroup /\ Kept(d)'
  <2>1. Standing(d)' /\ Standing(d) /\ d.ref.grp = NoGroup /\ Kept(d)
    BY <1>3, <1>4, OldOwed
  <2>2. ASSUME NEW x \in Workers, InJob(d, x) PROVE InJob(d, x)'
    <3>1. CASE x # w
      BY <1>1, <1>2, <2>2, <3>1 DEF InJob, Accepts
    <3>2. CASE x = w
      <4>1. d.ref \in job[w].refs /\ d.ref \in Registered(trie) /\ Eligible(d.ref)
        BY <1>1, <2>1, <2>2, <3>2 DEF InJob, Standing, Eligible
      <4>2. d.ref \in T
        BY <1>1, <2>1, <4>1 DEF Snapshots, Grouped
      <4> QED BY <1>1, <1>2, <2>2, <3>2, <4>2 DEF InJob, Pubs, Busy, Accepts
    <3> QED BY <3>1, <3>2
  <2>3. Sentenced(d.ref.c) => Sentenced(d.ref.c)'
    BY <1>1 DEF Sentenced
  <2>4. \A x, k : InBox(d, x, k) => InBox(d, x, k)'
    BY <1>1 DEF InBox
  <2> QED BY <1>1, <2>1, <2>2, <2>3, <2>4 DEF Kept
<1> QED BY <1>4 DEF OwedInv

(* Entering and leaving the fan-out: it is left only when no receiver is     *)
(* left.                                                                     *)
LEMMA GoOwed ==
    ASSUME IInv, OwedInv, Owe, NEW w \in Workers, PubGo(w) \/ PubDone(w)
    PROVE  OwedInv'
<1>a. PICK c : c = job[w].c
  OBVIOUS
<1>1. /\ job[w].pc \in {"go", "fan"}
      /\ \/ Go(w, "fan")
         \/ Closing(w, c) /\ ~Live(c)
         \/ job[w].refs = {} /\ (Closing(w, c) \/ Done(w))
      /\ UNCHANGED <<trie, acc, ep, mail, got, shut>>
  BY <1>a DEF PubGo, PubDone, At
<1>2. c \in Clients
  BY <1>1, <1>a, Actor
<1>3. /\ \A x \in Workers \ {w} : job'[x] = job[x]
      /\ \/ /\ job'[w].pc = "fan" /\ job'[w].n = job[w].n /\ job'[w].t = job[w].t
            /\ job'[w].refs = job[w].refs /\ job'[w].c = c /\ job'[w].ep = job[w].ep
         \/ job'[w].pc # "snap" /\ (~Live(c) \/ job[w].refs = {})
  <2>1. CASE Go(w, "fan")
    BY <1>a, <2>1, TurnTypes DEF Go, Jobs
  <2>2. CASE Done(w) /\ job[w].refs = {}
    BY <2>2, TurnTypes, IdleIs DEF Done
  <2>3. CASE Closing(w, c) /\ (~Live(c) \/ job[w].refs = {})
    <3>1. "finish" \in Pcs
      BY DEF Pcs
    <3>2. Job("finish", c).pc = "finish"
      BY <1>2, <3>1, JobIs
    <3> QED BY <2>3, <3>2, TurnTypes DEF Closing
  <2> QED BY <1>1, <2>1, <2>2, <2>3
<1>4. \A x \in Workers : job'[x].pc = "snap" => job[x].pc = "snap"
  BY <1>3
<1>5. ASSUME NEW d \in owed' PROVE Standing(d)' /\ d.ref.grp = NoGroup /\ Kept(d)'
  <2>1. Standing(d)' /\ Standing(d) /\ d.ref.grp = NoGroup /\ Kept(d)
    BY <1>4, <1>5, OldOwed
  <2>2. ASSUME NEW x \in Workers, InJob(d, x) PROVE InJob(d, x)'
    <3>1. CASE x # w
      BY <1>1, <1>3, <2>2, <3>1 DEF InJob, Accepts
    <3>2. CASE x = w
      <4>1. Live(c) /\ job[w].refs # {}
        BY <1>1, <1>a, <2>1, <2>2, <3>2 DEF InJob, Standing, Live, Pubs
      <4> QED BY <1>1, <1>3, <1>a, <2>2, <3>2, <4>1 DEF InJob, Pubs, Busy, Accepts
    <3> QED BY <3>1, <3>2
  <2>3. Sentenced(d.ref.c) => Sentenced(d.ref.c)'
    BY <1>1 DEF Sentenced
  <2>4. \A x, k : InBox(d, x, k) => InBox(d, x, k)'
    BY <1>1 DEF InBox
  <2> QED BY <1>1, <2>1, <2>2, <2>3, <2>4 DEF Kept
<1> QED BY <1>5 DEF OwedInv

(* A publication given up as a whole is owed to nobody any more.             *)
LEMMA NoMemoryOwed ==
    ASSUME IInv, OwedInv, Owe, NEW w \in Workers, PubNoMemory(w)
    PROVE  OwedInv'
<1>1. /\ job[w].pc \in {"snap", "go"} /\ Done(w)
      /\ UNCHANGED <<trie, acc, ep, mail, got, shut>>
  BY DEF PubNoMemory, At, sessions
<1>2. job'[w].pc = "idle" /\ \A x \in Workers \ {w} : job'[x] = job[x]
  BY <1>1, TurnTypes, IdleIs DEF Done
<1>3. \A x \in Workers : job'[x].pc = "snap" => job[x].pc = "snap"
  BY <1>2
<1>4. GivenUp(job[w].n)
  BY <1>1, <1>2 DEF GivenUp, At
<1>5. ASSUME NEW d \in owed' PROVE Standing(d)' /\ d.ref.grp = NoGroup /\ Kept(d)'
  <2>1. Standing(d)' /\ Standing(d) /\ d.ref.grp = NoGroup /\ Kept(d) /\ ~GivenUp(d.n)
    BY <1>3, <1>5, OldOwed
  <2>2. ASSUME NEW x \in Workers, InJob(d, x) PROVE InJob(d, x)'
    <3>1. x # w
      BY <1>4, <2>1, <2>2 DEF InJob
    <3> QED BY <1>1, <1>2, <2>2, <3>1 DEF InJob, Accepts
  <2>3. Sentenced(d.ref.c) => Sentenced(d.ref.c)'
    BY <1>1 DEF Sentenced
  <2>4. \A x, k : InBox(d, x, k) => InBox(d, x, k)'
    BY <1>1 DEF InBox
  <2> QED BY <1>1, <2>1, <2>2, <2>3, <2>4 DEF Kept
<1> QED BY <1>5 DEF OwedInv

(* At rest and during a fan-out a client lists what it has in the trie, so   *)
(* a subscription that matched still covers the subject.                     *)
LEMMA StillCovers ==
    ASSUME IInv, NEW w \in Workers, job[w] = Idle \/ job[w].pc = "fan",
           NEW r \in Registered(trie), Owner[r.c] = w, NEW t, SubjectMatch(r.pat, t)
    PROVE  Covers(r.c, r.sid, t)
<1>a. PICK c, v : c = r.c /\ v = View(c)
  OBVIOUS
<1>1. c \in Clients
  BY <1>a DEF IInv, TrieInv, Ref
<1>2. v.pc \in {"idle", "fan"}
  BY <1>a, <1>1, IdleIs DEF View
<1>3. ClientOk(c, v, st[c], ent[c], sub_count[c], Held(c))
  BY <1>1, <1>a DEF IInv, ClientsInv
<1>4. r \in ent[c]
  BY <1>2, <1>3, <1>a DEF ClientOk, ListOk, Tears, Held
<1> QED BY <1>4, <1>a DEF Covers, SidOf

(* One target of a fan-out.                                                  *)
LEMMA FanOwed ==
    ASSUME IInv, OwedInv, Owe, NEW w \in Workers, PubFan(w)
    PROVE  OwedInv'
<1>a. PICK n, t, R, e : n = job[w].n /\ t = job[w].t /\ R = job[w].refs /\ e = job[w].ep
  OBVIOUS
<1>1. PICK r \in R :
         /\ job[w].pc = "fan" /\ UNCHANGED <<trie, acc, ep, got>>
         /\ \/ /\ UNCHANGED <<mail, shut>>
               /\ job' = [job EXCEPT ![w].refs = @ \ {r}, ![w].ref = r, ![w].pc = "send"]
            \/ /\ mail' = Mailed(Send(r, n, t, e))
               /\ job' = [job EXCEPT ![w].refs = @ \ {r}]
               /\ UNCHANGED shut
            \/ /\ job' = [job EXCEPT ![w].refs = @ \ {r}]
               /\ Grown(mail, mail') /\ shut \subseteq shut'
               /\ \/ Sentenced(r.c)' \/ r.c \in shut' \/ st'[r.c] # "connected"
                  \/ ~Accepts(r, t) \/ ~LiveEpoch(e)
                  \/ Owner[r.c] = w /\ ~Covers(r.c, r.sid, t)
  BY <1>a, FanDoes
<1>2. /\ \A x \in Workers \ {w} : job'[x] = job[x]
      /\ job'[w].n = n /\ job'[w].t = t /\ job'[w].refs = R \ {r} /\ job'[w].ep = e
      /\ job'[w].c = job[w].c
      /\ job'[w].pc = "fan" \/ (job'[w].pc = "send" /\ job'[w].ref = r)
      /\ r \in Ref /\ n \in Nat /\ t \in Subject /\ e \in Nat
  BY <1>1, <1>a, FanLeaves
<1>3. job[w] \in Jobs
  BY TurnTypes
<1>4. \A x \in Workers : job'[x].pc = "snap" => job[x].pc = "snap"
  BY <1>2
<1>5. /\ got \subseteq got' /\ shut \subseteq shut'
      /\ \A x \in Workers : \A k \in DOMAIN mail[x] : \E i \in DOMAIN mail'[x] :
             mail'[x][i] = mail[x][k]
  <2>1. CASE UNCHANGED mail
    BY <1>1, <2>1
  <2>2. CASE Grown(mail, mail')
    BY <1>1, <2>2 DEF Grown
  <2>3. CASE mail' = Mailed(Send(r, n, t, e))
    BY <1>1, <1>2, <2>3, MailedIs
  <2> QED BY <1>1, <2>1, <2>2, <2>3
<1>6. ASSUME NEW d \in owed' PROVE Standing(d)' /\ d.ref.grp = NoGroup /\ Kept(d)'
  <2>1. /\ Standing(d)' /\ Standing(d) /\ d.ref.grp = NoGroup /\ Kept(d)
        /\ d.ref \in Ref /\ Owner[d.ref.c] \in Workers
    BY <1>4, <1>6, OldOwed
  <2>2. ASSUME NEW x \in Workers, InJob(d, x) PROVE Kept(d)'
    <3>1. CASE x # w
      <4>1. InJob(d, x)'
        BY <1>1, <1>2, <2>2, <3>1 DEF InJob, Accepts
      <4> QED BY <4>1 DEF Kept
    <3>2. CASE x = w
      <4>1. /\ d.n = n /\ d.ep = e /\ d.ep = ep[job[w].c] /\ SubjectMatch(d.ref.pat, t)
            /\ d.ref \in R /\ Accepts(d.ref, t)
        BY <1>1, <1>a, <2>2, <3>2 DEF InJob, Pubs
      <4>2. CASE d.ref # r
        <5>1. InJob(d, w)'
          BY <1>1, <1>2, <4>1, <4>2 DEF InJob, Accepts, Pubs, Busy
        <5> QED BY <5>1 DEF Kept
      <4>3. CASE /\ d.ref = r
                 /\ job' = [job EXCEPT ![w].refs = @ \ {r}, ![w].ref = r, ![w].pc = "send"]
        <5>1. job'[w].pc = "send" /\ job'[w].ref = r
          BY <1>3, <4>3, TurnTypes DEF Jobs
        <5>2. InJob(d, w)'
          BY <1>1, <1>2, <4>1, <4>3, <5>1 DEF InJob, Pubs, Busy
        <5> QED BY <5>2 DEF Kept
      <4>4. CASE d.ref = r /\ mail' = Mailed(Send(r, n, t, e))
        <5>1. PICK k \in DOMAIN mail'[Owner[r.c]] : mail'[Owner[r.c]][k] = Send(r, n, t, e)
          BY <1>2, <4>4, MailedIs
        <5>2. PICK m : m = Send(r, n, t, e)
          OBVIOUS
        <5>3. m.kind = "SEND" /\ m.ref = r /\ m.n = n /\ m.t = t /\ m.ep = e
          BY <1>2, <5>2, SendIs
        <5>4. mail'[Owner[r.c]][k] = m /\ SubjectMatch(r.pat, t)
          BY <4>1, <4>4, <5>1, <5>2
        <5>5. InBox(d, Owner[r.c], k)'
          BY <4>1, <4>4, <5>3, <5>4 DEF InBox
        <5> QED BY <4>4, <5>1, <5>5 DEF Kept
      <4>5. CASE /\ d.ref = r
                 /\ \/ Sentenced(r.c)' \/ r.c \in shut' \/ st'[r.c] # "connected"
                    \/ ~Accepts(r, t) \/ ~LiveEpoch(e)
                    \/ Owner[r.c] = w /\ ~Covers(r.c, r.sid, t)
        <5>1. LiveEpoch(e) /\ st'[r.c] = "connected" /\ r \in Registered(trie)
          BY <2>1, <4>1, <4>5 DEF Standing
        <5>2. Owner[r.c] = w => Covers(r.c, r.sid, t)
          BY <1>1, <4>1, <4>5, <5>1, StillCovers
        <5>3. Sentenced(r.c)' \/ r.c \in shut'
          BY <4>1, <4>5, <5>1, <5>2
        <5> QED BY <4>5, <5>3 DEF Kept
      <4> QED BY <1>1, <4>2, <4>3, <4>4, <4>5
    <3> QED BY <3>1, <3>2
  <2>3. CASE \E k \in DOMAIN mail[Owner[d.ref.c]] : InBox(d, Owner[d.ref.c], k)
    BY <1>5, <2>1, <2>3, LettersStay DEF Kept
  <2>4. CASE Sentenced(d.ref.c)
    BY <1>5, <2>1, <2>4, LettersStay DEF Kept
  <2>5. CASE d.ref.c \in shut \/ \E m \in got : m.n = d.n /\ m.ref = d.ref
    <3>1. d.ref.c \in shut' \/ \E m \in got' : m.n = d.n /\ m.ref = d.ref
      BY <1>5, <2>5
    <3> QED BY <2>1, <3>1 DEF Kept
  <2> QED BY <2>1, <2>2, <2>3, <2>4, <2>5 DEF Kept
<1> QED BY <1>6 DEF OwedInv

(* The copy in hand.                                                         *)
LEMMA HandOwed ==
    ASSUME IInv, OwedInv, Owe, NEW w \in Workers, SendHere(w) \/ MailWrite(w)
    PROVE  OwedInv'
<1>a. PICK j : j = job[w]
  OBVIOUS
<1>1. /\ Hands(j) /\ UNCHANGED <<trie, acc, ep>>
      /\ Grown(mail, mail') /\ shut \subseteq shut' /\ got \subseteq got'
      /\ \A x \in Workers \ {w} : job'[x] = job[x]
      /\ \/ /\ j.pc = "send" /\ job'[w].pc = "fan" /\ job'[w].n = j.n /\ job'[w].t = j.t
            /\ job'[w].refs = j.refs /\ job'[w].ep = j.ep /\ job'[w].c = j.c
         \/ j.pc = "letter" /\ job'[w].pc \in {"idle", "finish"}
      /\ \/ Message(j.ref, j.n, j.t) \in got' \/ ~LiveEpoch(j.ep)
         \/ j.pc = "send" /\ st'[j.ref.c] # "connected"
         \/ j.pc = "letter" /\ st'[j.c] # "connected"
  BY <1>a, HandDoes
<1>2. \A x \in Workers : job'[x].pc = "snap" => job[x].pc = "snap"
  BY <1>1
<1>3. \A x \in Workers : \A k \in DOMAIN mail[x] : \E i \in DOMAIN mail'[x] :
             mail'[x][i] = mail[x][k]
  BY <1>1 DEF Grown
<1>4. ASSUME NEW d \in owed' PROVE Standing(d)' /\ d.ref.grp = NoGroup /\ Kept(d)'
  <2>1. /\ Standing(d)' /\ Standing(d) /\ d.ref.grp = NoGroup /\ Kept(d)
        /\ d.ref \in Ref /\ Owner[d.ref.c] \in Workers
    BY <1>2, <1>4, OldOwed
  <2>2. ASSUME NEW x \in Workers, InJob(d, x) PROVE Kept(d)'
    <3>1. CASE x # w
      <4>1. InJob(d, x)'
        BY <1>1, <2>2, <3>1 DEF InJob, Accepts
      <4> QED BY <4>1 DEF Kept
    <3>2. CASE x = w
      <4>1. CASE Pubs(j) /\ d.ref \in j.refs /\ Accepts(d.ref, j.t)
        <5>1. InJob(d, w)'
          BY <1>1, <1>a, <2>2, <3>2, <4>1 DEF InJob, Accepts, Pubs, Busy
        <5> QED BY <5>1 DEF Kept
      <4>2. CASE d.ref = j.ref /\ (j.pc = "letter" => d.ref.c = j.c)
        <5>1. LiveEpoch(j.ep) /\ st'[d.ref.c] = "connected" /\ d.n = j.n
          BY <1>a, <2>1, <2>2, <3>2 DEF Standing, InJob
        <5>2. Message(j.ref, j.n, j.t) \in got'
          BY <1>1, <4>2, <5>1
        <5>3. Message(j.ref, j.n, j.t).n = d.n /\ Message(j.ref, j.n, j.t).ref = d.ref
          BY <4>2, <5>1 DEF Message
        <5> QED BY <5>2, <5>3 DEF Kept
      <4> QED BY <1>a, <2>2, <3>2, <4>1, <4>2 DEF InJob
    <3> QED BY <3>1, <3>2
  <2>3. CASE \E k \in DOMAIN mail[Owner[d.ref.c]] : InBox(d, Owner[d.ref.c], k)
    BY <1>3, <2>1, <2>3, LettersStay DEF Kept
  <2>4. CASE Sentenced(d.ref.c)
    BY <1>3, <2>1, <2>4, LettersStay DEF Kept
  <2>5. CASE d.ref.c \in shut \/ \E m \in got : m.n = d.n /\ m.ref = d.ref
    <3>1. d.ref.c \in shut' \/ \E m \in got' : m.n = d.n /\ m.ref = d.ref
      BY <1>1, <2>5
    <3> QED BY <2>1, <3>1 DEF Kept
  <2> QED BY <2>1, <2>2, <2>3, <2>4, <2>5 DEF Kept
<1> QED BY <1>4 DEF OwedInv

(* One letter of the mailbox.                                                *)
LEMMA MailOwed ==
    ASSUME IInv, OwedInv, Owe, NEW w \in Workers, MailNext(w)
    PROVE  OwedInv'
<1>a. PICK l : l = Head(mail[w])
  OBVIOUS
<1>1. /\ l \in Letter /\ Owner[l.to] = w /\ job[w] = Idle
      /\ UNCHANGED <<trie, acc, shut, ep, got>>
      /\ \A x \in Workers \ {w} : mail'[x] = mail[x]
      /\ \A k \in DOMAIN mail[w] :
            \/ mail[w][k] = l
            \/ l.kind = "TEARDOWN" /\ mail[w][k].to = l.to
            \/ \E i \in DOMAIN mail'[w] : mail'[w][i] = mail[w][k]
      /\ job' = job \/ Closing(w, l.to) \/ Opens(w, l)
      /\ l.kind = "SEND" => \/ Opens(w, l) \/ st'[l.to] # "connected"
                            \/ ~Covers(l.to, l.ref.sid, l.t)
      /\ l.kind = "TEARDOWN" => st'[l.to] # "connected"
  BY <1>a, MailDoes
<1>2. /\ \A x \in Workers : Busy(job[x]) => job'[x] = job[x]
      /\ \A x \in Workers : job'[x].pc = "snap" => job[x].pc = "snap"
  <2>1. ~Busy(job[w])
    BY <1>1, IdleIs DEF Busy
  <2>2. Closing(w, l.to) => Turns(w)
    BY <1>1, <2>1, ClosingTurns, LetterKinds
  <2>3. CASE job' = job \/ Turns(w)
    BY <2>1, <2>3 DEF Turns, Busy
  <2>4. CASE Opens(w, l)
    BY <2>1, <2>4 DEF Opens
  <2> QED BY <1>1, <2>2, <2>3, <2>4
<1>4. ASSUME NEW d \in owed' PROVE Standing(d)' /\ d.ref.grp = NoGroup /\ Kept(d)'
  <2>a. PICK o : o = Owner[d.ref.c]
    OBVIOUS
  <2>1. /\ Standing(d)' /\ Standing(d) /\ d.ref.grp = NoGroup /\ Kept(d)
        /\ d.ref \in Ref /\ o \in Workers
    BY <1>2, <1>4, <2>a, OldOwed
  <2>2. ASSUME NEW k \in DOMAIN mail[o], mail[o][k].to = d.ref.c
        PROVE  \/ \E i \in DOMAIN mail'[o] : mail'[o][i] = mail[o][k]
               \/ mail[o][k] = l /\ o = w
    <3>1. st'[d.ref.c] = "connected"
      BY <2>1 DEF Standing
    <3> QED BY <1>1, <2>1, <2>2, <3>1
  <2>3. ASSUME NEW x \in Workers, InJob(d, x) PROVE Kept(d)'
    <3>1. InJob(d, x)'
      BY <1>1, <1>2, <2>3 DEF InJob, Accepts
    <3> QED BY <3>1 DEF Kept
  <2>4. ASSUME NEW k \in DOMAIN mail[o], InBox(d, o, k) PROVE Kept(d)'
    <3>1. mail[o][k] \in Letter /\ mail[o][k].to = d.ref.c
      <4>1. mail[o] \in Seq(Letter)
        BY <2>1 DEF IInv, MailInv, BoxOk
      <4> QED BY <2>4, <4>1, LetterKinds DEF InBox
    <3>2. CASE \E i \in DOMAIN mail'[o] : mail'[o][i] = mail[o][k]
      <4>1. PICK i \in DOMAIN mail'[o] : mail'[o][i] = mail[o][k]
        BY <3>2
      <4>2. InBox(d, o, i)'
        BY <2>4, <4>1 DEF InBox
      <4> QED BY <2>a, <4>1, <4>2 DEF Kept
    <3>3. CASE mail[o][k] = l /\ o = w
      <4>1. /\ l.kind = "SEND" /\ l.n = d.n /\ l.ref = d.ref /\ l.ep = d.ep
            /\ SubjectMatch(d.ref.pat, l.t) /\ l.to = d.ref.c
        BY <2>4, <3>1, <3>3 DEF InBox
      <4>2. Covers(l.to, l.ref.sid, l.t)
        BY <1>1, <2>1, <2>a, <3>3, <4>1, StillCovers DEF Standing
      <4>3. Opens(w, l)
        BY <1>1, <2>1, <4>1, <4>2 DEF Standing
      <4>4. InJob(d, w)'
        BY <4>1, <4>3 DEF Opens, InJob, Busy, Pubs
      <4> QED BY <4>4 DEF Kept
    <3> QED BY <2>2, <3>1, <3>2, <3>3
  <2>5. ASSUME Sentenced(d.ref.c) PROVE Kept(d)'
    <3>1. PICK k \in DOMAIN mail[o] : mail[o][k] = Teardown(d.ref.c)
      BY <2>5, <2>a DEF Sentenced
    <3>2. mail[o][k].to = d.ref.c /\ mail[o][k].kind = "TEARDOWN"
      BY <3>1 DEF Teardown
    <3>3. \E i \in DOMAIN mail'[o] : mail'[o][i] = mail[o][k]
      <4>1. st'[d.ref.c] = "connected"
        BY <2>1 DEF Standing
      <4> QED BY <1>1, <2>2, <3>2, <4>1
    <3>4. Sentenced(d.ref.c)'
      BY <2>a, <3>1, <3>3 DEF Sentenced
    <3> QED BY <3>4 DEF Kept
  <2>6. CASE d.ref.c \in shut \/ \E m \in got : m.n = d.n /\ m.ref = d.ref
    <3>1. d.ref.c \in shut' \/ \E m \in got' : m.n = d.n /\ m.ref = d.ref
      BY <1>1, <2>6
    <3> QED BY <2>1, <3>1 DEF Kept
  <2> QED BY <2>1, <2>3, <2>4, <2>5, <2>6, <2>a DEF Kept
<1> QED BY <1>4 DEF OwedInv

(* The end of a teardown: nothing is owed to the client any more.            *)
LEMMA ReleaseOwed ==
    ASSUME IInv, OwedInv, Owe, NEW w \in Workers, TearRelease(w)
    PROVE  OwedInv'
<1>a. PICK c : c = job[w].c
  OBVIOUS
<1>1. /\ c \in Clients /\ Owner[c] = w /\ st'[c] = "gone" /\ Turns(w)
      /\ UNCHANGED <<got, ep>> /\ shut' = shut \ {c}
      /\ \A x \in Workers \ {w} : mail'[x] = mail[x]
      /\ \A k \in DOMAIN mail[w] : mail[w][k].to # c =>
             \E i \in DOMAIN mail'[w] : mail'[w][i] = mail[w][k]
  BY <1>a, ReleaseDoes
<1>2. \A x \in Workers : Busy(job[x]) \/ Busy(job'[x]) => job'[x] = job[x]
  BY <1>1 DEF Turns
<1>3. \A x \in Workers : job'[x].pc = "snap" => job[x].pc = "snap"
  BY <1>2 DEF Busy
<1>4. ASSUME NEW d \in owed' PROVE Standing(d)' /\ d.ref.grp = NoGroup /\ Kept(d)'
  <2>a. PICK o : o = Owner[d.ref.c]
    OBVIOUS
  <2>1. /\ Standing(d)' /\ d.ref.grp = NoGroup /\ Kept(d) /\ d.ref \in Ref /\ o \in Workers
    BY <1>3, <1>4, <2>a, OldOwed
  <2>2. d.ref.c # c
    BY <1>1, <2>1 DEF Standing
  <2>3. ASSUME NEW k \in DOMAIN mail[o], mail[o][k].to = d.ref.c
        PROVE  \E i \in DOMAIN mail'[o] : mail'[o][i] = mail[o][k]
    BY <1>1, <2>1, <2>2, <2>3
  <2>4. ASSUME NEW x \in Workers, InJob(d, x) PROVE Kept(d)'
    <3>1. InJob(d, x)'
      BY <1>1, <1>2, <2>4 DEF InJob, Accepts
    <3> QED BY <3>1 DEF Kept
  <2>5. ASSUME NEW k \in DOMAIN mail[o], InBox(d, o, k) PROVE Kept(d)'
    <3>1. mail[o][k].to = d.ref.c
      <4>1. mail[o] \in Seq(Letter)
        BY <2>1 DEF IInv, MailInv, BoxOk
      <4> QED BY <2>5, <4>1, LetterKinds DEF InBox
    <3>2. PICK i \in DOMAIN mail'[o] : mail'[o][i] = mail[o][k]
      BY <2>3, <3>1
    <3>3. InBox(d, o, i)'
      BY <2>5, <3>2 DEF InBox
    <3> QED BY <2>a, <3>2, <3>3 DEF Kept
  <2>6. ASSUME Sentenced(d.ref.c) PROVE Kept(d)'
    <3>1. PICK k \in DOMAIN mail[o] : mail[o][k] = Teardown(d.ref.c)
      BY <2>6, <2>a DEF Sentenced
    <3>2. \E i \in DOMAIN mail'[o] : mail'[o][i] = mail[o][k]
      BY <2>3, <3>1 DEF Teardown
    <3>3. Sentenced(d.ref.c)'
      BY <2>a, <3>1, <3>2 DEF Sentenced
    <3> QED BY <3>3 DEF Kept
  <2>7. CASE d.ref.c \in shut \/ \E m \in got : m.n = d.n /\ m.ref = d.ref
    <3>1. d.ref.c \in shut' \/ \E m \in got' : m.n = d.n /\ m.ref = d.ref
      BY <1>1, <2>2, <2>7
    <3> QED BY <2>1, <3>1 DEF Kept
  <2> QED BY <2>1, <2>4, <2>5, <2>6, <2>7, <2>a DEF Kept
<1> QED BY <1>4 DEF OwedInv

(* Every step keeps what is owed.                                            *)
LEMMA OwedStep ==
    ASSUME IInv, OwedInv, [Next]_vars
    PROVE  OwedInv'
<1>1. CASE UNCHANGED vars
  BY <1>1 DEF vars, sessions, lists, OwedInv, Standing, Kept, InJob, InBox, Sentenced,
              Live, LiveEpoch, Accepts
<1>2. CASE Step /\ Owe
  BY <1>2, MostAside, AsideOwed, PublishOwed, SnapshotOwed, NoMemoryOwed, GoOwed, FanOwed,
     HandOwed, MailOwed, ReleaseOwed
<1> QED BY <1>1, <1>2 DEF Next

(* A plain subscription that matched a publication gets it, as long as it,   *)
(* its session and the publisher's epoch stand, or its connection is about   *)
(* to be closed: whatever happens to queues and other sessions, and unless   *)
(* want of memory gives the publication up for everybody.                    *)
THEOREM LossKept == Spec => []NoSilentLoss
<1>1. Init => OwedInv
  BY DEF Init, Fresh, OwedInv
<1>2. IInv /\ OwedInv /\ [Next]_vars => OwedInv'
  BY OwedStep
<1>3. OwedInv => NoSilentLoss
  BY DEF OwedInv, NoSilentLoss, Kept, InJob, InBox
<1> QED BY <1>1, <1>2, <1>3, Invariant, PTL DEF Spec

=============================================================================
