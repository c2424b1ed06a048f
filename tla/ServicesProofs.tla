---------------------------- MODULE ServicesProofs ----------------------------
(***************************************************************************)
(* Theorems about what works behind the window, for every value of the     *)
(* constants.  Each part has a section: its inductive invariant, and that  *)
(* it holds at first and every step keeps it.  The last section takes them *)
(* together, since a behaviour of Services follows one of the parts.       *)
(***************************************************************************)
EXTENDS Services, FiniteSetTheorems, TLAPS

(*****************************************************************************)
(* IM, the mailbox a command of the main session acts on (ImapMailbox).      *)
(* The argument follows the selection through the queue.  What the client    *)
(* knows of it, m_queuedFolder, is where the queue will lead; what a         *)
(* command acts on is decided by the last SELECT in front of it, or by the   *)
(* selection the server has when there is none.                              *)
(*****************************************************************************)

\* The first i commands of the queue q leave mailbox f selected: the last SELECT
\* among them is of f, or there is none and the server has f selected already.
\* After a refused SELECT of f it counts as headed there too: the server may
\* have kept another mailbox, and what follows may run on that one.
Quiet(q, lo, hi)     == \A k \in lo .. hi : q[k].cmd # "SELECT"
Leads(q, i, f, a, r) ==
  \/ \E j \in 1 .. i : q[j].cmd = "SELECT" /\ q[j].on = f /\ Quiet(q, j + 1, i)
  \/ Quiet(q, 1, i) /\ (a \in {NoMailbox, f} \/ r = f)

\* Where m_queuedFolder says the queue is headed, it leads.
Heads(q, f, a, r) == f # NoMailbox => Leads(q, Len(q), f, a, r)

\* In front of each STORE and EXPUNGE the queue leads to the mailbox it is for.
Safe(c) == c \in {"STORE", "EXPUNGE"}
Ahead(q, a, r) == \A i \in 1 .. Len(q) : Safe(q[i].cmd) => Leads(q, i - 1, q[i].on, a, r)

PlaceInv == /\ IM!TypeOK /\ Ahead(jobs, at, refusedSelect)
            /\ Heads(jobs, queuedFolder, at, refusedSelect)
            /\ IM!OnlyRefusalsStray

-----------------------------------------------------------------------------
(* Adding to the queue and taking from it.                                  *)

\* What is added behind a command changes nothing in front of it.
LEMMA LeadsBehind ==
    ASSUME NEW q \in Seq(IM!Job), NEW job \in IM!Job, NEW i \in 0 .. Len(q), NEW f, NEW a, NEW r
    PROVE  Leads(Append(q, job), i, f, a, r) <=> Leads(q, i, f, a, r)
<1>1. \A k \in 1 .. i : Append(q, job)[k] = q[k]
  OBVIOUS
<1>2. \A lo \in 1 .. i + 1 : Quiet(Append(q, job), lo, i) <=> Quiet(q, lo, i)
  BY <1>1 DEF Quiet
<1> HIDE DEF Quiet
<1>3. 1 \in 1 .. i + 1 /\ \A j \in 1 .. i : j + 1 \in 1 .. i + 1
  OBVIOUS
<1> QED BY <1>1, <1>2, <1>3 DEF Leads

\* A command that is no SELECT leaves the queue headed where it was.
LEMMA LeadsOn ==
    ASSUME NEW q \in Seq(IM!Job), NEW job \in IM!Job, job.cmd # "SELECT", NEW f, NEW a, NEW r,
           Leads(q, Len(q), f, a, r)
    PROVE  Leads(Append(q, job), Len(q) + 1, f, a, r)
<1> DEFINE s == Append(q, job)  n == Len(q)
<1>1. /\ n \in Nat /\ s[n + 1] = job /\ \A k \in 1 .. n : s[k] = q[k]
  OBVIOUS
<1>2. ASSUME NEW lo \in 1 .. n + 1, Quiet(q, lo, n)
      PROVE  Quiet(s, lo, n + 1)
  BY <1>1, <1>2 DEF Quiet
<1> HIDE DEF s
<1>3. CASE \E j \in 1 .. n : q[j].cmd = "SELECT" /\ q[j].on = f /\ Quiet(q, j + 1, n)
  <2>1. PICK j \in 1 .. n : q[j].cmd = "SELECT" /\ q[j].on = f /\ Quiet(q, j + 1, n)
    BY <1>3
  <2>2. j + 1 \in 1 .. n + 1 /\ j \in 1 .. n + 1 /\ s[j] = q[j]
    BY <1>1
  <2> QED BY <2>1, <2>2, <1>2 DEF Leads, s
<1>4. CASE Quiet(q, 1, n) /\ (a \in {NoMailbox, f} \/ r = f)
  <2>1. 1 \in 1 .. n + 1
    BY <1>1
  <2> QED BY <2>1, <1>2, <1>4 DEF Leads, s
<1> QED BY <1>3, <1>4 DEF Leads

LEMMA AddsCommand ==
    ASSUME NEW q \in Seq(IM!Job), NEW job \in IM!Job, job.cmd # "SELECT", NEW f, NEW a, NEW r,
           Ahead(q, a, r), Safe(job.cmd) => Leads(q, Len(q), job.on, a, r)
    PROVE  /\ Ahead(Append(q, job), a, r)
           /\ Heads(q, f, a, r) => Heads(Append(q, job), f, a, r)
<1> DEFINE s == Append(q, job)
<1>1. /\ Len(s) = Len(q) + 1 /\ s[Len(q) + 1] = job /\ Len(q) \in Nat
      /\ \A k \in 1 .. Len(q) : s[k] = q[k]
  OBVIOUS
<1>2. ASSUME NEW i \in 1 .. Len(s), Safe(s[i].cmd)
      PROVE  Leads(s, i - 1, s[i].on, a, r)
  <2>1. i - 1 \in 0 .. Len(q)
    BY <1>1
  <2>2. Leads(q, i - 1, s[i].on, a, r)
    <3>1. CASE i = Len(q) + 1
      BY <1>1, <1>2, <3>1
    <3>2. CASE i \in 1 .. Len(q)
      BY <1>1, <1>2, <3>2 DEF Ahead
    <3> QED BY <1>1, <3>1, <3>2
  <2> QED BY <2>1, <2>2, LeadsBehind
<1>3. Heads(q, f, a, r) => Heads(s, f, a, r)
  BY <1>1, LeadsOn DEF Heads
<1> QED BY <1>2, <1>3 DEF Ahead

LEMMA AddsSelect ==
    ASSUME NEW q \in Seq(IM!Job), NEW job \in IM!Job, job.cmd = "SELECT", NEW a, NEW r,
           Ahead(q, a, r)
    PROVE  /\ Ahead(Append(q, job), a, r)
           /\ Leads(Append(q, job), Len(q) + 1, job.on, a, r)
           /\ Heads(Append(q, job), job.on, a, r)
<1> DEFINE s == Append(q, job)
<1>1. /\ Len(s) = Len(q) + 1 /\ s[Len(q) + 1] = job /\ Len(q) \in Nat
      /\ \A k \in 1 .. Len(q) : s[k] = q[k]
  OBVIOUS
<1>2. ASSUME NEW i \in 1 .. Len(s), Safe(s[i].cmd)
      PROVE  Leads(s, i - 1, s[i].on, a, r)
  <2>1. i \in 1 .. Len(q)
    BY <1>1, <1>2 DEF Safe
  <2>2. Leads(q, i - 1, s[i].on, a, r) /\ i - 1 \in 0 .. Len(q)
    BY <1>1, <1>2, <2>1 DEF Ahead
  <2> QED BY <2>2, LeadsBehind
<1>3. Quiet(s, Len(q) + 1 + 1, Len(q) + 1) /\ Len(q) + 1 \in 1 .. Len(q) + 1
  BY <1>1 DEF Quiet
<1>4. Leads(s, Len(q) + 1, job.on, a, r)
  <2> HIDE DEF s
  <2> QED BY <1>1, <1>3 DEF Leads
<1> QED BY <1>1, <1>2, <1>4 DEF Ahead, Heads

\* The head is taken.  A SELECT leaves its own mailbox selected, none, or is
\* remembered as refused; anything else leaves the selection as it was.
LEMMA LeadsTaken ==
    ASSUME NEW q \in Seq(IM!Job), q # <<>>, NEW i \in 1 .. Len(q), NEW f, NEW a, NEW r, NEW b, NEW s,
           IF q[1].cmd = "SELECT" THEN b \in {NoMailbox, q[1].on} \/ s = q[1].on
           ELSE b = a /\ s = r,
           Leads(q, i, f, a, r)
    PROVE  Leads(Tail(q), i - 1, f, b, s)
<1> DEFINE t == Tail(q)
<1>1. /\ Len(q) \in Nat /\ i - 1 \in Nat
      /\ \A k \in 1 .. i - 1 : t[k] = q[k + 1]
  OBVIOUS
<1>2. ASSUME NEW lo \in 1 .. i + 1, lo > 1, Quiet(q, lo, i)
      PROVE  Quiet(t, lo - 1, i - 1)
  BY <1>1, <1>2 DEF Quiet
<1>3. ASSUME Quiet(q, 1, i)
      PROVE  Quiet(t, 1, i - 1) /\ q[1].cmd # "SELECT"
  BY <1>1, <1>3 DEF Quiet
<1> HIDE DEF t
<1>4. CASE \E j \in 1 .. i : q[j].cmd = "SELECT" /\ q[j].on = f /\ Quiet(q, j + 1, i)
  <2>1. PICK j \in 1 .. i : q[j].cmd = "SELECT" /\ q[j].on = f /\ Quiet(q, j + 1, i)
    BY <1>4
  <2>2. Quiet(t, j, i - 1)
    <3>1. j + 1 \in 1 .. i + 1 /\ j + 1 > 1 /\ (j + 1) - 1 = j
      BY <1>1
    <3> QED BY <3>1, <2>1, <1>2
  <2>3. CASE j = 1
    BY <2>1, <2>2, <2>3 DEF Leads, t
  <2>4. CASE j # 1
    <3>1. j - 1 \in 1 .. i - 1 /\ (j - 1) + 1 = j /\ t[j - 1] = q[j]
      BY <1>1, <2>4
    <3> QED BY <3>1, <2>1, <2>2 DEF Leads, t
  <2> QED BY <2>3, <2>4
<1>5. CASE Quiet(q, 1, i) /\ (a \in {NoMailbox, f} \/ r = f)
  BY <1>3, <1>5 DEF Leads, t
<1> QED BY <1>4, <1>5 DEF Leads, t

LEMMA TakesHead ==
    ASSUME NEW q \in Seq(IM!Job), q # <<>>, NEW f, NEW a, NEW r, NEW b, NEW s,
           IF q[1].cmd = "SELECT" THEN b \in {NoMailbox, q[1].on} \/ s = q[1].on
           ELSE b = a /\ s = r,
           Ahead(q, a, r)
    PROVE  /\ Tail(q) \in Seq(IM!Job) /\ Ahead(Tail(q), b, s)
           /\ Heads(q, f, a, r) => Heads(Tail(q), f, b, s)
<1> DEFINE t == Tail(q)
<1>1. /\ t \in Seq(IM!Job) /\ Len(t) = Len(q) - 1 /\ Len(q) \in Nat /\ Len(q) >= 1
      /\ \A k \in 1 .. Len(t) : t[k] = q[k + 1]
  OBVIOUS
<1>2. ASSUME NEW i \in 1 .. Len(t), Safe(t[i].cmd)
      PROVE  Leads(t, i - 1, t[i].on, b, s)
  <2>1. i + 1 \in 1 .. Len(q) /\ i \in 1 .. Len(q) /\ (i + 1) - 1 = i
    BY <1>1
  <2>2. Leads(q, i, t[i].on, a, r)
    BY <1>1, <1>2, <2>1 DEF Ahead
  <2> QED BY <2>1, <2>2, LeadsTaken
<1>3. Heads(q, f, a, r) => Heads(t, f, b, s)
  <2>1. Len(q) \in 1 .. Len(q)
    BY <1>1
  <2> QED BY <2>1, <1>1, LeadsTaken DEF Heads
<1> QED BY <1>1, <1>2, <1>3 DEF Ahead

-----------------------------------------------------------------------------
(* What the callers add.                                                    *)

\* The queue c.jobs, headed to c.folder, is well placed.
Placed(c) ==
  /\ c.jobs \in Seq(IM!Job) /\ c.folder \in ImapBoxes \cup {NoMailbox} /\ c.rw \in BOOLEAN
  /\ Ahead(c.jobs, at, refusedSelect) /\ Heads(c.jobs, c.folder, at, refusedSelect)

LEMMA IssuesSelect ==
    ASSUME NEW q \in Seq(IM!Job), Ahead(q, at, refusedSelect),
           NEW f \in ImapBoxes, NEW rw \in BOOLEAN, NEW next \in {"none", "OPEN", "MOVE"}
    PROVE  Placed(IM!IssueSelect(q, f, rw, next))
           /\ Leads(IM!IssueSelect(q, f, rw, next).jobs, Len(q) + 1, f, at, refusedSelect)
           /\ IM!IssueSelect(q, f, rw, next).folder = f
<1> DEFINE job == IM!Select(f, rw, next)
<1>1. job \in IM!Job /\ job.cmd = "SELECT" /\ job.on = f
  BY DEF IM!Job, IM!Select
<1> HIDE DEF job
<1>2. Ahead(Append(q, job), at, refusedSelect) /\ Heads(Append(q, job), f, at, refusedSelect)
      /\ Leads(Append(q, job), Len(q) + 1, f, at, refusedSelect)
  BY <1>1, AddsSelect
<1>3. IM!IssueSelect(q, f, rw, next) = [jobs |-> Append(q, job), folder |-> f, rw |-> rw]
  BY DEF IM!IssueSelect, job
<1>4. Append(q, job) \in Seq(IM!Job)
  BY <1>1
<1> QED BY <1>2, <1>3, <1>4 DEF Placed

LEMMA SelectsThenQueues ==
    ASSUME NEW q \in Seq(IM!Job), Ahead(q, at, refusedSelect),
           NEW head \in ImapBoxes \cup {NoMailbox}, Heads(q, head, at, refusedSelect),
           NEW headRW \in BOOLEAN, NoMailbox \notin ImapBoxes,
           NEW f \in ImapBoxes, NEW job \in IM!Job, job.cmd # "SELECT", job.on = f
    PROVE  Placed(IM!SelectThenQueue(q, head, headRW, f, job))
<1>1. CASE head = f /\ headRW
  <2>1. Leads(q, Len(q), f, at, refusedSelect)
    BY <1>1 DEF Heads
  <2>2. Ahead(Append(q, job), at, refusedSelect) /\ Heads(Append(q, job), head, at, refusedSelect)
    BY <2>1, AddsCommand
  <2>3. Append(q, job) \in Seq(IM!Job)
    OBVIOUS
  <2>4. IM!SelectThenQueue(q, head, headRW, f, job) = [jobs |-> Append(q, job), folder |-> head, rw |-> headRW]
    BY <1>1 DEF IM!SelectThenQueue
  <2> QED BY <2>2, <2>3, <2>4 DEF Placed
<1>2. CASE ~(head = f /\ headRW)
  <2> DEFINE select == IM!Select(f, TRUE, "none")  s == Append(q, select)
  <2>1. select \in IM!Job /\ select.cmd = "SELECT" /\ select.on = f
    BY DEF IM!Job, IM!Select
  <2>2. IM!SelectThenQueue(q, head, headRW, f, job) = [jobs |-> Append(s, job), folder |-> f, rw |-> TRUE]
    BY <1>2 DEF IM!SelectThenQueue
  <2> HIDE DEF select
  <2>3. s \in Seq(IM!Job) /\ Len(s) = Len(q) + 1
    BY <2>1
  <2>4. /\ Ahead(s, at, refusedSelect) /\ Heads(s, f, at, refusedSelect)
        /\ Leads(s, Len(q) + 1, f, at, refusedSelect)
    BY <2>1, AddsSelect
  <2> HIDE DEF s
  <2>5. Ahead(Append(s, job), at, refusedSelect) /\ Heads(Append(s, job), f, at, refusedSelect)
    BY <2>3, <2>4, AddsCommand
  <2>6. Append(s, job) \in Seq(IM!Job)
    BY <2>3
  <2> QED BY <2>2, <2>5, <2>6 DEF Placed
<1> QED BY <1>1, <1>2

\* A command that is neither STORE nor EXPUNGE may be added to any queue.
LEMMA RidesAlong ==
    ASSUME NEW c, Placed(c), NEW job \in IM!Job, job.cmd \in {"FETCH", "MOVE"}
    PROVE  Ahead(Append(c.jobs, job), at, refusedSelect)
           /\ Heads(Append(c.jobs, job), c.folder, at, refusedSelect)
           /\ Append(c.jobs, job) \in Seq(IM!Job)
<1>1. c.jobs \in Seq(IM!Job) /\ job.cmd # "SELECT" /\ ~Safe(job.cmd)
  BY DEF Placed, Safe
<1>2. Append(c.jobs, job) \in Seq(IM!Job)
  BY <1>1
<1> QED BY <1>1, <1>2, AddsCommand DEF Placed

LEMMA Commands ==
    ASSUME NEW f \in ImapBoxes
    PROVE  /\ \A next \in {"none", "STORE", "EXPUNGE"} : IM!Command("STORE", f, next) \in IM!Job
           /\ \A next \in {"none", "STORE", "EXPUNGE"} : IM!Command("EXPUNGE", f, next) \in IM!Job
           /\ IM!Command("MOVE", f, "none") \in IM!Job
           /\ \A next \in {"none", "TEXT"} : IM!Command("FETCH", f, next) \in IM!Job
           /\ \A c, next : IM!Command(c, f, next).cmd = c /\ IM!Command(c, f, next).on = f
BY DEF IM!Command, IM!Job, IM!Writes

\* The queue as it stands.
Now == [jobs |-> jobs, folder |-> queuedFolder, rw |-> queuedRW]

LEMMA NowIsPlaced == ASSUME PlaceInv PROVE Placed(Now)
BY DEF PlaceInv, IM!TypeOK, Placed, Now

\* A caller that queues well keeps everything in place.
LEMMA QueuedKeeps ==
    ASSUME PlaceInv, NEW c, Placed(c), IM!Queue(c),
           UNCHANGED <<mailboxSession, at, selectedFolder, selectedRW, refusedSelect, strayed, misfiled>>
    PROVE  PlaceInv'
<1>1. IM!TypeOK'
  BY DEF PlaceInv, IM!TypeOK, Placed, IM!Queue
<1> QED BY <1>1 DEF PlaceInv, Placed, IM!Queue, IM!OnlyRefusalsStray

-----------------------------------------------------------------------------
(* The callers.                                                             *)

LEMMA StoreFlagsKeeps ==
    ASSUME PlaceInv, IM!ImapMailboxAssumption, NEW f \in ImapBoxes,
           NEW next \in {"none", "STORE", "EXPUNGE"}, IM!StoreFlags(f, next)
    PROVE  PlaceInv'
<1> DEFINE job == IM!Command("STORE", f, next)
<1>1. job \in IM!Job /\ job.cmd # "SELECT" /\ job.on = f
  BY Commands
<1> HIDE DEF job
<1>2. Placed(IM!SelectThenQueue(jobs, queuedFolder, queuedRW, f, job))
  BY <1>1, SelectsThenQueues DEF PlaceInv, IM!TypeOK, IM!ImapMailboxAssumption
<1> QED BY <1>2, QueuedKeeps DEF IM!StoreFlags, job

LEMMA WithFolderSelectedKeeps ==
    ASSUME PlaceInv, NEW f \in ImapBoxes, NEW rw \in BOOLEAN, NEW next \in {"OPEN", "MOVE"}
    PROVE  Placed(IM!WithFolderSelected(f, rw, next))
<1> DEFINE job == IM!Command("MOVE", f, "none")
<1>1. job \in IM!Job /\ job.cmd = "MOVE"
  BY Commands
<1> HIDE DEF job
<1>2. Placed(Now) /\ Now.jobs = jobs /\ Now.folder = queuedFolder /\ Now.rw = queuedRW
  BY NowIsPlaced DEF Now
<1>3. /\ Ahead(Append(jobs, job), at, refusedSelect) /\ Append(jobs, job) \in Seq(IM!Job)
      /\ Heads(Append(jobs, job), queuedFolder, at, refusedSelect)
  BY <1>1, <1>2, RidesAlong
<1>4. Placed([jobs |-> Append(jobs, job), folder |-> queuedFolder, rw |-> queuedRW])
  BY <1>2, <1>3 DEF Placed
<1>5. Placed(IM!IssueSelect(jobs, f, rw, next))
  BY IssuesSelect DEF PlaceInv, IM!TypeOK
<1>6. \/ IM!WithFolderSelected(f, rw, next) = Now
      \/ IM!WithFolderSelected(f, rw, next) = [jobs |-> Append(jobs, job), folder |-> queuedFolder, rw |-> queuedRW]
      \/ IM!WithFolderSelected(f, rw, next) = IM!IssueSelect(jobs, f, rw, next)
  BY DEF IM!WithFolderSelected, Now, job
<1> HIDE DEF Now
<1> QED BY <1>2, <1>4, <1>5, <1>6

LEMMA ReadKeeps ==
    ASSUME PlaceInv, NEW f \in ImapBoxes, NEW next \in {"none", "TEXT"}
    PROVE  Placed(IM!Read(f, next))
<1> DEFINE job == IM!Command("FETCH", f, next)  c == IM!IssueSelect(jobs, f, FALSE, "none")
<1>1. job \in IM!Job /\ job.cmd = "FETCH"
  BY Commands
<1>2. Placed(Now) /\ Now.jobs = jobs /\ Now.folder = queuedFolder /\ Now.rw = queuedRW
  BY NowIsPlaced DEF Now
<1>3. Placed(c)
  <2> DEFINE rw == FALSE
  <2>1. rw \in BOOLEAN
    OBVIOUS
  <2> HIDE DEF rw
  <2>2. Placed(IM!IssueSelect(jobs, f, rw, "none"))
    BY <2>1, IssuesSelect DEF PlaceInv, IM!TypeOK
  <2> QED BY <2>2 DEF rw
<1>4. IM!Read(f, next) = IF queuedFolder = f
                      THEN [jobs |-> Append(jobs, job), folder |-> queuedFolder, rw |-> queuedRW]
                      ELSE [c EXCEPT !.jobs = Append(@, job)]
  BY DEF IM!Read
<1>5. c = [jobs |-> c.jobs, folder |-> c.folder, rw |-> c.rw]
  BY DEF IM!IssueSelect
<1> HIDE DEF job, c
<1>6. /\ Ahead(Append(jobs, job), at, refusedSelect) /\ Append(jobs, job) \in Seq(IM!Job)
      /\ Heads(Append(jobs, job), queuedFolder, at, refusedSelect)
  BY <1>1, <1>2, RidesAlong
<1>7. /\ Ahead(Append(c.jobs, job), at, refusedSelect) /\ Append(c.jobs, job) \in Seq(IM!Job)
      /\ Heads(Append(c.jobs, job), c.folder, at, refusedSelect)
  BY <1>1, <1>3, RidesAlong
<1>8. Placed([jobs |-> Append(jobs, job), folder |-> queuedFolder, rw |-> queuedRW])
  BY <1>2, <1>6 DEF Placed
<1>9. [c EXCEPT !.jobs = Append(@, job)] = [jobs |-> Append(c.jobs, job), folder |-> c.folder, rw |-> c.rw]
  BY <1>5
<1>10. Placed([jobs |-> Append(c.jobs, job), folder |-> c.folder, rw |-> c.rw])
  BY <1>3, <1>7 DEF Placed
<1> QED BY <1>4, <1>8, <1>9, <1>10, Zenon

LEMMA CallersKeep ==
    ASSUME PlaceInv, NEW f \in ImapBoxes,
           IM!MoveMessages(f) \/ IM!OpenFolder(f) \/ IM!FetchBodiesOnMainSession(f)
             \/ \E g \in BOOLEAN : IM!FetchHeaders(f, g)
    PROVE  PlaceInv'
<1>1. CASE IM!MoveMessages(f)
  <2>1. Placed(IM!WithFolderSelected(f, TRUE, "MOVE"))
    <3> DEFINE rw == TRUE  next == "MOVE"
    <3>1. rw \in BOOLEAN /\ next \in {"OPEN", "MOVE"}
      OBVIOUS
    <3> HIDE DEF rw, next
    <3>2. Placed(IM!WithFolderSelected(f, rw, next))
      BY <3>1, WithFolderSelectedKeeps
    <3> QED BY <3>2 DEF rw, next
  <2> QED BY <1>1, <2>1, QueuedKeeps DEF IM!MoveMessages
<1>2. CASE IM!OpenFolder(f)
  <2>1. Placed(IM!WithFolderSelected(f, FALSE, "OPEN"))
    <3> DEFINE rw == FALSE  next == "OPEN"
    <3>1. rw \in BOOLEAN /\ next \in {"OPEN", "MOVE"}
      OBVIOUS
    <3> HIDE DEF rw, next
    <3>2. Placed(IM!WithFolderSelected(f, rw, next))
      BY <3>1, WithFolderSelectedKeeps
    <3> QED BY <3>2 DEF rw, next
  <2> QED BY <1>2, <2>1, QueuedKeeps DEF IM!OpenFolder
<1>3. CASE IM!FetchBodiesOnMainSession(f)
  <2>1. Placed(IM!Read(f, "TEXT"))
    BY ReadKeeps
  <2> QED BY <1>3, <2>1, QueuedKeeps DEF IM!FetchBodiesOnMainSession
<1>4. CASE \E g \in BOOLEAN : IM!FetchHeaders(f, g)
  <2>1. Placed(IM!Read(f, "none"))
    BY ReadKeeps
  <2> QED BY <1>4, <2>1, QueuedKeeps DEF IM!FetchHeaders
<1> QED BY <1>1, <1>2, <1>3, <1>4

-----------------------------------------------------------------------------
(* The session runs the head of its queue.                                  *)

\* What is known of the head, whatever it is.
LEMMA TheHead ==
    ASSUME PlaceInv, jobs # <<>>
    PROVE  /\ IM!Head0 = jobs[1] /\ IM!Head0 \in IM!Job /\ IM!Head0.on \in ImapBoxes
           /\ IM!Rest = Tail(jobs) /\ IM!Rest \in Seq(IM!Job) /\ Len(IM!Rest) = Len(jobs) - 1
           /\ Len(jobs) \in Nat
           /\ IM!Head0.cmd \in IM!Writes => IM!Head0.next \in {"none", "STORE", "EXPUNGE"}
           /\ IM!Head0.cmd \in {"SELECT", "FETCH"} \cup IM!Writes /\ IM!Head0.rw \in BOOLEAN
<1>1. IM!Head0 = jobs[1] /\ IM!Head0 \in IM!Job /\ IM!Rest = Tail(jobs)
      /\ IM!Rest \in Seq(IM!Job) /\ Len(IM!Rest) = Len(jobs) - 1 /\ Len(jobs) \in Nat
  BY DEF PlaceInv, IM!TypeOK, IM!Head0, IM!Rest
<1> QED BY <1>1 DEF IM!Job, IM!Writes

LEMMA SelectAnsweredKeeps ==
    ASSUME PlaceInv, IM!ImapMailboxAssumption, NEW granted \in BOOLEAN, IM!SelectAnswered(granted)
    PROVE  PlaceInv'
<1>1. jobs # <<>> /\ IM!Head0.cmd = "SELECT"
  BY DEF IM!SelectAnswered, IM!Runs
<1>2. at' = IM!Head0.on /\ refusedSelect' = NoMailbox
  BY DEF IM!SelectAnswered
<1>3. Ahead(IM!Rest, at', refusedSelect') /\ Heads(IM!Rest, queuedFolder, at', refusedSelect')
  BY ZenonT(60), <1>1, <1>2, TheHead, TakesHead DEF PlaceInv, IM!TypeOK
<1> DEFINE job == IM!Command("MOVE", IM!Head0.on, "none")
<1>4. job \in IM!Job /\ job.cmd # "SELECT" /\ ~Safe(job.cmd)
  BY <1>1, TheHead, Commands DEF Safe
<1> HIDE DEF job
<1>5. /\ Ahead(Append(IM!Rest, job), at', refusedSelect')
      /\ Heads(Append(IM!Rest, job), queuedFolder, at', refusedSelect')
      /\ Append(IM!Rest, job) \in Seq(IM!Job) /\ Len(Append(IM!Rest, job)) = Len(jobs)
  BY <1>1, <1>3, <1>4, TheHead, AddsCommand
<1>6. jobs' = IM!Rest \/ jobs' = Append(IM!Rest, job)
  BY DEF IM!SelectAnswered, job
<1>7. Ahead(jobs', at', refusedSelect') /\ Heads(jobs', queuedFolder', at', refusedSelect')
  BY <1>3, <1>5, <1>6 DEF IM!SelectAnswered
<1>8. jobs' \in Seq(IM!Job) /\ Len(jobs') <= MaxQueue
  BY <1>1, <1>5, <1>6, TheHead DEF PlaceInv, IM!TypeOK, IM!ImapMailboxAssumption
<1>9. queuedRW' \in BOOLEAN /\ selectedRW' \in BOOLEAN
  BY DEF IM!SelectAnswered
<1>10. IM!TypeOK'
  BY <1>1, <1>2, <1>8, <1>9, TheHead DEF IM!SelectAnswered, PlaceInv, IM!TypeOK
<1> QED BY <1>7, <1>10 DEF PlaceInv, IM!OnlyRefusalsStray, IM!SelectAnswered

LEMMA SelectRefusedKeeps ==
    ASSUME PlaceInv, IM!ImapMailboxAssumption, IM!SelectRefused
    PROVE  PlaceInv'
<1>1. jobs # <<>> /\ IM!Head0.cmd = "SELECT" /\ refusedSelect' = IM!Head0.on /\ jobs' = IM!Rest
  BY DEF IM!SelectRefused, IM!Runs
<1>2. Ahead(IM!Rest, at', refusedSelect') /\ Heads(IM!Rest, queuedFolder, at', refusedSelect')
  BY ZenonT(60), <1>1, TheHead, TakesHead DEF PlaceInv, IM!TypeOK
<1>3. queuedFolder' = NoMailbox \/ queuedFolder' = queuedFolder
  BY DEF IM!SelectRefused
<1>4. Ahead(jobs', at', refusedSelect') /\ Heads(jobs', queuedFolder', at', refusedSelect')
  BY <1>1, <1>2, <1>3 DEF Heads
<1>5. at' \in ImapBoxes \cup {NoMailbox}
  BY DEF IM!SelectRefused, PlaceInv, IM!TypeOK
<1>6. jobs' \in Seq(IM!Job) /\ Len(jobs') <= MaxQueue
  BY <1>1, TheHead DEF PlaceInv, IM!TypeOK, IM!ImapMailboxAssumption
<1>7. IM!TypeOK'
  BY <1>1, <1>5, <1>6, TheHead DEF IM!SelectRefused, PlaceInv, IM!TypeOK
<1> QED BY <1>4, <1>7 DEF PlaceInv, IM!OnlyRefusalsStray, IM!SelectRefused

\* A command that is no SELECT is taken from the queue.
LEMMA OtherTaken ==
    ASSUME PlaceInv, jobs # <<>>, IM!Head0.cmd # "SELECT"
    PROVE  Ahead(IM!Rest, at, refusedSelect) /\ Heads(IM!Rest, queuedFolder, at, refusedSelect)
BY ZenonT(60), TheHead, TakesHead DEF PlaceInv, IM!TypeOK

LEMMA WriteDoneKeeps ==
    ASSUME PlaceInv, IM!ImapMailboxAssumption, IM!WriteDone
    PROVE  PlaceInv'
<1>1. jobs # <<>> /\ IM!Head0.cmd \in IM!Writes /\ IM!Head0.cmd # "SELECT" /\ at # NoMailbox
  BY DEF IM!WriteDone, IM!Writes
<1>2. Ahead(IM!Rest, at, refusedSelect) /\ Heads(IM!Rest, queuedFolder, at, refusedSelect)
  BY <1>1, OtherTaken
<1>3. Safe(IM!Head0.cmd) /\ IM!Strays => IM!Stray.refused
  <2>1. Safe(jobs[1].cmd) => Leads(jobs, 1 - 1, jobs[1].on, at, refusedSelect)
    <3>1. 1 \in 1 .. Len(jobs)
      BY <1>1 DEF PlaceInv, IM!TypeOK
    <3> QED BY <3>1 DEF PlaceInv, Ahead
  <2>2. IM!Head0 = jobs[1]
    BY <1>1, TheHead
  <2>3. Safe(IM!Head0.cmd) /\ IM!Strays => refusedSelect = IM!Head0.on
    BY <2>1, <2>2 DEF Leads, IM!Strays
  <2>4. IM!Stray.refused = (refusedSelect = IM!Head0.on)
    BY DEF IM!Stray
  <2> QED BY <2>3, <2>4
<1>4. strayed' = (IF IM!Strays THEN {IM!Stray} ELSE strayed)
  BY DEF IM!WriteDone
<1>9. IM!Stray \in [cmd : IM!Writes, refused : BOOLEAN] /\ IM!Stray.cmd = IM!Head0.cmd
  BY <1>1 DEF IM!Stray
<1>5. IM!OnlyRefusalsStray' /\ strayed' \subseteq [cmd : IM!Writes, refused : BOOLEAN]
  BY <1>1, <1>3, <1>4, <1>9 DEF Safe, PlaceInv, IM!TypeOK, IM!OnlyRefusalsStray
<1>6. CASE IM!Head0.next = "none"
  <2>1. jobs' = IM!Rest /\ queuedFolder' = queuedFolder /\ queuedRW' = queuedRW
    BY <1>6 DEF IM!WriteDone
  <2>2. jobs' \in Seq(IM!Job) /\ Len(jobs') <= MaxQueue
    BY <2>1, <1>1, TheHead DEF PlaceInv, IM!TypeOK, IM!ImapMailboxAssumption
  <2>3. IM!TypeOK'
    BY <2>1, <2>2, <1>5 DEF IM!WriteDone, PlaceInv, IM!TypeOK
  <2> QED BY <1>2, <1>5, <2>1, <2>3 DEF IM!WriteDone, PlaceInv
<1>7. CASE IM!Head0.next # "none"
  <2> DEFINE f == IM!Head0.on  job == IM!Command(IM!Head0.next, f, "none")
             c == IM!SelectThenQueue(IM!Rest, queuedFolder, queuedRW, f, job)
  <2>1. f \in ImapBoxes /\ IM!Rest \in Seq(IM!Job) /\ IM!Head0.next \in {"STORE", "EXPUNGE"}
    BY <1>1, <1>7, TheHead
  <2>2. job \in IM!Job /\ job.cmd # "SELECT" /\ job.on = f
    BY <2>1, Commands
  <2>3. IM!Queue(c)
    BY <1>7 DEF IM!WriteDone
  <2> HIDE DEF job, f
  <2>4. Placed(c)
    BY <1>2, <2>1, <2>2, SelectsThenQueues DEF PlaceInv, IM!TypeOK, IM!ImapMailboxAssumption
  <2> HIDE DEF c
  <2>5. IM!TypeOK'
    BY <2>3, <2>4, <1>5 DEF IM!WriteDone, PlaceInv, IM!TypeOK, Placed, IM!Queue
  <2> QED BY <1>5, <2>3, <2>4, <2>5 DEF IM!WriteDone, PlaceInv, Placed, IM!Queue
<1> QED BY <1>6, <1>7

LEMMA CommandRefusedKeeps ==
    ASSUME PlaceInv, IM!ImapMailboxAssumption, NEW ro \in BOOLEAN, IM!CommandRefused(ro)
    PROVE  PlaceInv'
<1>1. jobs # <<>> /\ IM!Head0.cmd # "SELECT" /\ jobs' = IM!Rest
  BY DEF IM!CommandRefused
<1>2. Ahead(jobs', at, refusedSelect) /\ Heads(jobs', queuedFolder, at, refusedSelect)
  BY <1>1, OtherTaken
<1>3. jobs' \in Seq(IM!Job) /\ Len(jobs') <= MaxQueue
  BY <1>1, TheHead DEF PlaceInv, IM!TypeOK, IM!ImapMailboxAssumption
<1>4. selectedFolder' \in ImapBoxes \cup {NoMailbox} /\ selectedRW' \in BOOLEAN
  BY DEF IM!CommandRefused, PlaceInv, IM!TypeOK
<1>5. IM!TypeOK'
  BY <1>3, <1>4 DEF IM!CommandRefused, PlaceInv, IM!TypeOK
<1> QED BY <1>2, <1>5 DEF IM!CommandRefused, PlaceInv, IM!OnlyRefusalsStray

LEMMA MessagesArriveKeeps ==
    ASSUME PlaceInv, IM!ImapMailboxAssumption, IM!MessagesArrive
    PROVE  PlaceInv'
<1>1. jobs # <<>> /\ IM!Head0.cmd = "FETCH"
  BY DEF IM!MessagesArrive, IM!Runs
<1>2. Ahead(IM!Rest, at, refusedSelect) /\ Heads(IM!Rest, queuedFolder, at, refusedSelect)
  BY <1>1, OtherTaken
<1> DEFINE job == IM!Command("FETCH", IM!Head0.on, "none")
<1>3. job \in IM!Job /\ job.cmd # "SELECT" /\ ~Safe(job.cmd)
  BY <1>1, TheHead, Commands DEF Safe
<1> HIDE DEF job
<1>4. /\ Ahead(Append(IM!Rest, job), at, refusedSelect)
      /\ Heads(Append(IM!Rest, job), queuedFolder, at, refusedSelect)
      /\ Append(IM!Rest, job) \in Seq(IM!Job) /\ Len(Append(IM!Rest, job)) = Len(jobs)
  BY <1>1, <1>2, <1>3, TheHead, AddsCommand
<1>5. jobs' = IM!Rest \/ jobs' = Append(IM!Rest, job)
  BY DEF IM!MessagesArrive, job
<1>6. jobs' \in Seq(IM!Job) /\ Len(jobs') <= MaxQueue
  <2>1. jobs \in Seq(IM!Job) /\ Len(jobs) <= MaxQueue
    BY DEF PlaceInv, IM!TypeOK
  <2>2. IM!Rest \in Seq(IM!Job) /\ Len(IM!Rest) <= MaxQueue
    BY <1>1, <2>1, TheHead DEF IM!ImapMailboxAssumption
  <2>3. Append(IM!Rest, job) \in Seq(IM!Job) /\ Len(Append(IM!Rest, job)) <= MaxQueue
    BY <1>4, <2>1
  <2> QED BY <1>5, <2>2, <2>3
<1>7. misfiled' \in BOOLEAN
  BY DEF IM!MessagesArrive
<1>8. IM!TypeOK'
  BY <1>6, <1>7 DEF IM!MessagesArrive, PlaceInv, IM!TypeOK, IM!client
<1>9. Ahead(jobs', at, refusedSelect) /\ Heads(jobs', queuedFolder, at, refusedSelect)
  BY <1>2, <1>4, <1>5
<1> QED BY <1>8, <1>9 DEF IM!MessagesArrive, PlaceInv, IM!OnlyRefusalsStray, IM!client

LEMMA NothingQueued ==
    ASSUME NEW a, NEW r
    PROVE  Ahead(<<>>, a, r) /\ Heads(<<>>, NoMailbox, a, r) /\ <<>> \in Seq(IM!Job) /\ Len(<<>>) = 0
BY DEF Ahead, Heads

LEMMA SessionKeeps ==
    ASSUME PlaceInv, IM!ImapMailboxAssumption, IM!CloseSessions \/ IM!Connect \/ UNCHANGED IM!mailboxVars
    PROVE  PlaceInv'
<1>1. CASE IM!CloseSessions
  <2>1. IM!TypeOK'
    <3>1. jobs' \in Seq(IM!Job) /\ Len(jobs') <= MaxQueue
      BY <1>1, NothingQueued DEF IM!CloseSessions, IM!ImapMailboxAssumption
    <3> QED BY <1>1, <3>1 DEF IM!CloseSessions, PlaceInv, IM!TypeOK
  <2> QED BY <1>1, <2>1, NothingQueued DEF IM!CloseSessions, PlaceInv, IM!OnlyRefusalsStray
<1>2. CASE IM!Connect
  BY <1>2 DEF IM!Connect, PlaceInv, IM!TypeOK, IM!OnlyRefusalsStray, IM!client
<1>3. CASE UNCHANGED IM!mailboxVars
  BY <1>3 DEF IM!mailboxVars, PlaceInv, IM!TypeOK, IM!OnlyRefusalsStray
<1> QED BY <1>1, <1>2, <1>3

-----------------------------------------------------------------------------

LEMMA PlaceStarts ==
    ASSUME IM!ImapMailboxAssumption, IM!Init
    PROVE  PlaceInv
<1>1. IM!TypeOK
  <2>1. jobs \in Seq(IM!Job) /\ Len(jobs) <= MaxQueue
    BY NothingQueued DEF IM!Init, IM!ImapMailboxAssumption
  <2> QED BY <2>1 DEF IM!Init, IM!TypeOK
<1> QED BY <1>1, NothingQueued DEF IM!Init, PlaceInv, IM!OnlyRefusalsStray

LEMMA PlaceStays ==
    ASSUME IM!ImapMailboxAssumption, PlaceInv, [IM!Next]_(IM!mailboxVars)
    PROVE  PlaceInv'
<1>1. ASSUME NEW f \in ImapBoxes, NEW next \in {"none", "STORE", "EXPUNGE"}, IM!StoreFlags(f, next)
      PROVE  PlaceInv'
  BY <1>1, StoreFlagsKeeps
<1>2. ASSUME NEW f \in ImapBoxes,
             IM!MoveMessages(f) \/ IM!OpenFolder(f) \/ IM!FetchBodiesOnMainSession(f)
               \/ \E g \in BOOLEAN : IM!FetchHeaders(f, g)
      PROVE  PlaceInv'
  BY <1>2, CallersKeep
<1>3. ASSUME NEW rw \in BOOLEAN, IM!SelectAnswered(rw)
      PROVE  PlaceInv'
  BY <1>3, SelectAnsweredKeeps
<1>4. ASSUME NEW ro \in BOOLEAN, IM!CommandRefused(ro)
      PROVE  PlaceInv'
  BY <1>4, CommandRefusedKeeps
<1>5. CASE IM!SelectRefused \/ IM!WriteDone \/ IM!MessagesArrive
  BY <1>5, SelectRefusedKeeps, WriteDoneKeeps, MessagesArriveKeeps
<1>6. CASE IM!CloseSessions \/ IM!Connect \/ UNCHANGED IM!mailboxVars
  BY <1>6, SessionKeeps
<1> QED BY <1>1, <1>2, <1>3, <1>4, <1>5, <1>6 DEF IM!Next

\* Rows are filed under the mailbox they were read from, and what the client
\* believes of the selection is so.
Honest == IM!MailIsOfItsFolder /\ IM!BeliefIsTrue

LEMMA HonestStarts ==
    ASSUME IM!Init
    PROVE  Honest
BY DEF IM!Init, Honest, IM!MailIsOfItsFolder, IM!BeliefIsTrue

LEMMA HonestStays ==
    ASSUME IM!ImapMailboxAssumption, PlaceInv, Honest, [IM!Next]_(IM!mailboxVars)
    PROVE  Honest'
<1> USE DEF Honest, IM!MailIsOfItsFolder, IM!BeliefIsTrue
<1>1. ASSUME NEW f \in ImapBoxes,
             \/ \E next \in {"none", "STORE", "EXPUNGE"} : IM!StoreFlags(f, next)
             \/ IM!MoveMessages(f) \/ IM!OpenFolder(f) \/ IM!FetchBodiesOnMainSession(f)
             \/ \E g \in BOOLEAN : IM!FetchHeaders(f, g)
      PROVE  Honest'
  <2>1. UNCHANGED <<at, selectedFolder, misfiled>>
    BY <1>1 DEF IM!StoreFlags, IM!MoveMessages, IM!OpenFolder, IM!FetchBodiesOnMainSession, IM!FetchHeaders
  <2> QED BY <2>1
<1>2. ASSUME NEW rw \in BOOLEAN, IM!SelectAnswered(rw)
      PROVE  Honest'
  BY <1>2 DEF IM!SelectAnswered
<1>3. ASSUME NEW ro \in BOOLEAN, IM!CommandRefused(ro)
      PROVE  Honest'
  BY <1>3 DEF IM!CommandRefused
<1>4. CASE IM!SelectRefused \/ IM!WriteDone \/ IM!CloseSessions
  BY <1>4 DEF IM!SelectRefused, IM!WriteDone, IM!CloseSessions
<1>5. CASE IM!Connect \/ UNCHANGED IM!mailboxVars
  BY <1>5 DEF IM!Connect, IM!mailboxVars, IM!client
<1>6. CASE IM!MessagesArrive
  <2>1. IM!Head0.on # NoMailbox
    BY <1>6, TheHead DEF IM!MessagesArrive, IM!Runs, IM!ImapMailboxAssumption
  <2> QED BY <1>6, <2>1 DEF IM!MessagesArrive, IM!SessionHasSelected, IM!client
<1> QED BY <1>1, <1>2, <1>3, <1>4, <1>5, <1>6 DEF IM!Next

(*****************************************************************************)
(* IC, the background connections of IMAP (ImapConnections).  A busy mark    *)
(* is a batch under way: the mark of a body connection is set and cleared    *)
(* with its job, that of the sync session with the one BODY command in its   *)
(* queue.                                                                    *)
(*****************************************************************************)

\* What is true of one body connection: a busy mark is a batch, a batch knows its
\* mailbox, and the server has open what the client believes or nothing.
Conn == [st : {"off", "login", "ready"}, busy : BOOLEAN, folder : IC!Boxes, at : IC!Boxes,
         job : {"none", "SELECT", "FULL", "TEXT"}, want : IC!Boxes]
Sane(s) == /\ s \in Conn
           /\ s.busy <=> s.job # "none"
           /\ s.job # "none" => s.want # NoMailbox
           /\ s.at \in {NoMailbox, s.folder}
PoolOK(p) == p \in [Slots -> Conn] /\ \A c \in Slots : Sane(p[c])

\* What is true of the queue of the sync session: at most one batch of bodies, and
\* marked says whether there is one.
Cmd == [cmd : {"SELECT", "READ", "BODY"}, on : ImapBoxes]
QueueOK(q, marked) ==
    /\ q \in Seq(Cmd)
    /\ marked <=> \E i \in DOMAIN q : q[i].cmd = "BODY"
    /\ \A i, j \in DOMAIN q : q[i].cmd = "BODY" /\ q[j].cmd = "BODY" => i = j

\* The sync session's own mailbox, and what push needs to be brought back.
PlaceOK == /\ syncFolder # NoMailbox => syncAt = syncFolder
           /\ idle # "none" \/ pushRetry => pushFolder # NoMailbox

ConnInv == IC!TypeOK /\ PoolOK(pool) /\ QueueOK(syncJobs, fallbackBusy) /\ PlaceOK /\ ~mixed

-----------------------------------------------------------------------------
LEMMA EmptyQueue == QueueOK(<<>>, FALSE)
BY DEF QueueOK

LEMMA TailQueue ==
    ASSUME NEW q, NEW b \in BOOLEAN, QueueOK(q, b), q # <<>>
    PROVE  /\ QueueOK(Tail(q), b /\ Head(q).cmd # "BODY")
           /\ Head(q) \in Cmd
           /\ Head(q).cmd = "BODY" => b
<1>1. q \in Seq(Cmd) /\ Head(q) = q[1] /\ Head(q) \in Cmd /\ Tail(q) \in Seq(Cmd)
      /\ 1 \in DOMAIN q
  BY DEF QueueOK
<1>2. \A i \in DOMAIN Tail(q) : i + 1 \in DOMAIN q /\ Tail(q)[i] = q[i + 1]
  BY <1>1
<1>3. \A i \in DOMAIN q : i = 1 \/ (i - 1 \in DOMAIN Tail(q) /\ Tail(q)[i - 1] = q[i])
  BY <1>1
<1>4. \A i \in DOMAIN q : i \in Nat
  BY <1>1
<1>5. Head(q).cmd = "BODY" => b
  BY <1>1 DEF QueueOK
<1>6. ASSUME b, Head(q).cmd # "BODY"
      PROVE  \E i \in DOMAIN Tail(q) : Tail(q)[i].cmd = "BODY"
  <2>1. PICK i \in DOMAIN q : q[i].cmd = "BODY"
    BY <1>6 DEF QueueOK
  <2>2. i # 1
    BY <1>1, <1>6, <2>1
  <2> QED BY <1>3, <2>1, <2>2
<1>7. ASSUME NEW i \in DOMAIN Tail(q), Tail(q)[i].cmd = "BODY"
      PROVE  b /\ Head(q).cmd # "BODY"
  <2>1. i + 1 \in DOMAIN q /\ q[i + 1].cmd = "BODY" /\ i \in Nat /\ i # 0
    BY <1>1, <1>2, <1>7
  <2>2. b
    BY <2>1 DEF QueueOK
  <2>3. Head(q).cmd = "BODY" => i + 1 = 1
    BY <1>1, <2>1 DEF QueueOK
  <2> QED BY <2>1, <2>2, <2>3
<1>8. \A i, j \in DOMAIN Tail(q) :
         Tail(q)[i].cmd = "BODY" /\ Tail(q)[j].cmd = "BODY" => i = j
  <2>1. \A i, j \in DOMAIN Tail(q) :
         Tail(q)[i].cmd = "BODY" /\ Tail(q)[j].cmd = "BODY" => i + 1 = j + 1
    BY <1>2 DEF QueueOK
  <2>2. \A i \in DOMAIN Tail(q) : i \in Nat
    BY <1>1
  <2> QED BY <2>1, <2>2
<1>9. QueueOK(Tail(q), b /\ Head(q).cmd # "BODY")
  BY <1>1, <1>6, <1>7, <1>8 DEF QueueOK
<1> QED BY <1>1, <1>5, <1>9

LEMMA AppendQueue ==
    ASSUME NEW q, NEW b \in BOOLEAN, QueueOK(q, b), NEW job \in Cmd,
           job.cmd = "BODY" => ~b
    PROVE  QueueOK(Append(q, job), b \/ job.cmd = "BODY")
<1> DEFINE r == Append(q, job)
           n == Len(q) + 1
<1>1. q \in Seq(Cmd) /\ r \in Seq(Cmd) /\ DOMAIN r = 1 .. n /\ n \in Nat /\ 1 <= n /\ r[n] = job
      /\ DOMAIN q = 1 .. (n - 1)
  BY DEF QueueOK
<1>2. \A i \in 1 .. (n - 1) : r[i] = q[i]
  BY <1>1
<1> HIDE DEF r, n
<1>3. \A i \in DOMAIN r : r[i].cmd = "BODY" => b \/ job.cmd = "BODY"
  BY <1>1, <1>2 DEF QueueOK
<1>4. b \/ job.cmd = "BODY" => \E i \in DOMAIN r : r[i].cmd = "BODY"
  <2>1. CASE b
    <3>1. PICK i \in DOMAIN q : q[i].cmd = "BODY"
      BY <2>1 DEF QueueOK
    <3> QED BY <1>1, <1>2, <3>1
  <2>2. CASE job.cmd = "BODY"
    <3>1. n \in DOMAIN r
      BY <1>1
    <3> QED BY <1>1, <2>2, <3>1
  <2> QED BY <2>1, <2>2
<1>5. \A i, j \in DOMAIN r : r[i].cmd = "BODY" /\ r[j].cmd = "BODY" => i = j
  <2>1. CASE b
    <3>1. \A i \in DOMAIN r : r[i].cmd = "BODY" => i \in DOMAIN q /\ q[i].cmd = "BODY"
      BY <1>1, <1>2, <2>1
    <3> QED BY <3>1 DEF QueueOK
  <2>2. CASE ~b
    <3>1. \A i \in DOMAIN r : r[i].cmd = "BODY" => i = n
      BY <1>1, <1>2, <2>2 DEF QueueOK
    <3> QED BY <3>1
  <2> QED BY <2>1, <2>2
<1>6. QueueOK(r, b \/ job.cmd = "BODY")
  BY <1>1, <1>3, <1>4, <1>5 DEF QueueOK
<1> QED BY <1>6 DEF r

\* OnSync(): the SELECT, if one is needed, and the command behind it.
LEMMA OnSyncQueue ==
    ASSUME IC!TypeOK, QueueOK(syncJobs, fallbackBusy), NEW f \in ImapBoxes,
           NEW cmd \in {"READ", "BODY"}, cmd = "BODY" => ~fallbackBusy, IC!OnSync(f, cmd)
    PROVE  /\ QueueOK(syncJobs', fallbackBusy \/ cmd = "BODY")
           /\ syncQueued' \in IC!Boxes /\ UNCHANGED <<sync, syncAt, syncFolder>>
<1> DEFINE job == [cmd |-> cmd, on |-> f]
           sel == [cmd |-> "SELECT", on |-> f]
           b   == fallbackBusy
<1>1. job \in Cmd /\ sel \in Cmd /\ job.cmd = cmd /\ sel.cmd = "SELECT" /\ b \in BOOLEAN
  BY DEF Cmd, IC!TypeOK
<1>2. syncJobs \in Seq(Cmd)
  BY DEF QueueOK
<1> HIDE DEF job, sel, b
<1>3. QueueOK(Append(syncJobs, job), b \/ cmd = "BODY")
  BY <1>1, AppendQueue DEF b
<1>4. QueueOK(Append(Append(syncJobs, sel), job), b \/ cmd = "BODY")
  <2> DEFINE q == Append(syncJobs, sel)
  <2>1. QueueOK(q, b \/ sel.cmd = "BODY")
    BY <1>1, AppendQueue DEF b
  <2>2. QueueOK(q, b)
    BY <1>1, <2>1 DEF QueueOK
  <2> HIDE DEF q
  <2>3. QueueOK(Append(q, job), b \/ job.cmd = "BODY")
    BY <1>1, <2>2, AppendQueue DEF b
  <2> QED BY <1>1, <2>3 DEF q
<1>5. syncJobs' \in {Append(syncJobs, job), Append(Append(syncJobs, sel), job)}
  <2>1. syncJobs' = syncJobs \o (IF syncQueued # f THEN <<sel>> ELSE <<>>) \o <<job>>
    BY DEF IC!OnSync, job, sel
  <2>2. CASE syncQueued = f
    <3>1. syncJobs' = syncJobs \o <<>> \o <<job>>
      BY <2>1, <2>2
    <3>2. syncJobs \o <<>> = syncJobs
      BY <1>2
    <3>3. syncJobs' = syncJobs \o <<job>>
      BY <3>1, <3>2
    <3> QED BY <1>1, <1>2, <3>3
  <2>3. CASE syncQueued # f
    <3>1. syncJobs' = (syncJobs \o <<sel>>) \o <<job>>
      BY <2>1, <2>3
    <3>2. syncJobs \o <<sel>> = Append(syncJobs, sel) /\ Append(syncJobs, sel) \in Seq(Cmd)
      BY <1>1, <1>2
    <3>3. \A q \in Seq(Cmd) : q \o <<job>> = Append(q, job)
      BY <1>1
    <3> QED BY <3>1, <3>2, <3>3
  <2> QED BY <2>2, <2>3
<1>6. syncQueued' \in IC!Boxes /\ UNCHANGED <<sync, syncAt, syncFolder>>
  BY DEF IC!OnSync, IC!Boxes
<1> QED BY <1>3, <1>4, <1>5, <1>6 DEF b

\* NoConn is sane, and so is one place changed for another sane connection.
LEMMA NoConnSane == Sane(IC!NoConn) /\ IC!NoConn.st = "off" /\ ~IC!NoConn.busy
BY DEF Sane, Conn, IC!NoConn, IC!Boxes

LEMMA PoolChanged ==
    ASSUME NEW p, PoolOK(p), NEW c \in Slots, NEW s, Sane(s)
    PROVE  PoolOK([p EXCEPT ![c] = s])
<1>1. s \in Conn
  BY DEF Sane
<1> QED BY <1>1 DEF PoolOK

\* shrinkBodyPool() only gives up a connection with no batch.
LEMMA PoolShrunk ==
    ASSUME NEW p, PoolOK(p), IC!ShrinkBodyPool(p)
    PROVE  PoolOK(pool') /\ poolBroken' = TRUE
<1>1. \A q \in IC!Shrunk(p) : PoolOK(q)
  BY NoConnSane, PoolChanged DEF IC!Shrunk
<1> QED BY <1>1 DEF IC!ShrinkBodyPool

\* ensureBodyPool() only fills empty places.
LEMMA PoolFilled ==
    ASSUME PoolOK(pool)
    PROVE  PoolOK(IC!Filled)
<1> DEFINE s == [IC!NoConn EXCEPT !.st = "login"]
<1>1. Sane(s)
  BY DEF Sane, Conn, IC!NoConn, IC!Boxes
<1>2. s \in Conn
  BY <1>1 DEF Sane
<1> HIDE DEF s
<1>3. PoolOK([c \in Slots |-> IF pool[c].st = "off" THEN s ELSE pool[c]])
  BY <1>1, <1>2 DEF PoolOK
<1> QED BY <1>3 DEF IC!Filled, s

-----------------------------------------------------------------------------
\* The account's connections as a whole.
LEMMA AccountKeeps ==
    ASSUME ConnInv, IC!Connected \/ IC!CloseSessions
    PROVE  ConnInv'
<1>1. CASE IC!Connected
  <2>1. IC!TypeOK'
    BY <1>1 DEF ConnInv, IC!TypeOK, IC!Connected, IC!bodyVars, IC!pushVars
  <2> QED BY <1>1, <2>1 DEF ConnInv, PlaceOK, IC!Connected, IC!bodyVars, IC!pushVars
<1>2. CASE IC!CloseSessions
  <2>1. PoolOK(pool')
    <3> DEFINE s == IC!NoConn
    <3>1. Sane(s) /\ s \in Conn
      BY NoConnSane DEF Sane
    <3> HIDE DEF s
    <3>2. PoolOK([c \in Slots |-> s])
      BY <3>1 DEF PoolOK
    <3> QED BY <1>2, <3>2 DEF IC!CloseSessions, s
  <2>2. QueueOK(syncJobs', fallbackBusy')
    <3>1. syncJobs' = <<>> /\ fallbackBusy' = FALSE
      BY <1>2 DEF IC!CloseSessions, IC!SyncGone
    <3> QED BY <3>1, EmptyQueue
  <2>3. IC!TypeOK'
    BY <1>2, <2>1, <2>2 DEF ConnInv, IC!TypeOK, PoolOK, QueueOK, Conn, Cmd, IC!CloseSessions,
       IC!SyncGone, IC!PushStopped, IC!Boxes
  <2> QED BY <1>2, <2>1, <2>2, <2>3 DEF ConnInv, PlaceOK, IC!CloseSessions, IC!SyncGone, IC!PushStopped
<1> QED BY <1>1, <1>2

\* The sync session.
LEMMA SyncKeeps ==
    ASSUME ConnInv,
           \/ IC!EnsureBackgroundReady \/ IC!SyncLogin \/ IC!SyncDrop
           \/ \E f \in ImapBoxes : IC!BackgroundRead(f)
           \/ \E ok \in BOOLEAN : IC!SyncSelected(ok)
    PROVE  ConnInv'
<1>1. /\ PoolOK(pool') /\ UNCHANGED <<connectionsConnected, poolBroken, IC!pushVars, mixed>>
  BY DEF ConnInv, IC!EnsureBackgroundReady, IC!SyncLogin, IC!SyncDrop, IC!BackgroundRead, IC!SyncSelected, IC!bodyVars
<1>2. CASE IC!EnsureBackgroundReady \/ IC!SyncLogin
  <2>1. IC!TypeOK'
    BY <1>2 DEF ConnInv, IC!TypeOK, IC!EnsureBackgroundReady, IC!SyncLogin, IC!StartedSync, IC!bodyVars, IC!pushVars
  <2> QED BY <1>1, <1>2, <2>1 DEF ConnInv, PlaceOK, IC!EnsureBackgroundReady, IC!SyncLogin, IC!bodyVars, IC!pushVars
<1>3. CASE IC!SyncDrop
  <2>1. syncJobs' = <<>> /\ fallbackBusy' = FALSE
    BY <1>3 DEF ConnInv, QueueOK, IC!SyncDrop, IC!SyncGone, IC!TypeOK
  <2>2. QueueOK(syncJobs', fallbackBusy')
    BY <2>1, EmptyQueue
  <2>3. IC!TypeOK'
    BY <1>1, <1>3, <2>1 DEF ConnInv, IC!TypeOK, IC!SyncDrop, IC!SyncGone, IC!pushVars, IC!Boxes
  <2> QED BY <1>1, <1>3, <2>2, <2>3 DEF ConnInv, PlaceOK, IC!SyncDrop, IC!SyncGone, IC!pushVars
<1>4. ASSUME NEW f \in ImapBoxes, IC!BackgroundRead(f)
      PROVE  ConnInv'
  <2>1. /\ QueueOK(syncJobs', fallbackBusy') /\ UNCHANGED <<syncAt, syncFolder, fallbackBusy>>
        /\ syncQueued' \in IC!Boxes /\ sync' \in {"none", "login", "ready"}
    <3>1. CASE sync = "ready"
      <4>1. IC!OnSync(f, "READ") /\ fallbackBusy' = fallbackBusy
        BY <1>4, <3>1 DEF IC!BackgroundRead, IC!bodyVars
      <4>2. QueueOK(syncJobs', fallbackBusy \/ "READ" = "BODY")
        BY <4>1, OnSyncQueue DEF ConnInv
      <4>3. syncQueued' \in IC!Boxes /\ UNCHANGED <<sync, syncAt, syncFolder>>
        BY <4>1, OnSyncQueue DEF ConnInv
      <4> QED BY <4>1, <4>2, <4>3 DEF ConnInv, IC!TypeOK, QueueOK
    <3>2. CASE sync # "ready"
      BY <1>4, <3>2 DEF ConnInv, IC!TypeOK, IC!BackgroundRead, IC!StartedSync, IC!bodyVars
    <3> QED BY <3>1, <3>2
  <2>2. IC!TypeOK'
    BY <1>1, <2>1 DEF ConnInv, IC!TypeOK, PoolOK, QueueOK, Conn, Cmd, IC!pushVars
  <2> QED BY <1>1, <2>1, <2>2 DEF ConnInv, PlaceOK, IC!pushVars
<1>5. ASSUME NEW ok \in BOOLEAN, IC!SyncSelected(ok)
      PROVE  ConnInv'
  <2>1. QueueOK(syncJobs', fallbackBusy') /\ Head(syncJobs).on \in ImapBoxes
    <3>1. /\ syncJobs # <<>> /\ Head(syncJobs).cmd = "SELECT" /\ syncJobs' = Tail(syncJobs)
          /\ fallbackBusy' = fallbackBusy /\ fallbackBusy \in BOOLEAN
      BY <1>5 DEF ConnInv, IC!TypeOK, IC!SyncSelected, IC!SyncRuns, IC!bodyVars
    <3>2. /\ QueueOK(Tail(syncJobs), fallbackBusy /\ Head(syncJobs).cmd # "BODY")
          /\ Head(syncJobs) \in Cmd
      BY <3>1, TailQueue DEF ConnInv
    <3> QED BY <3>1, <3>2 DEF QueueOK, Cmd
  <2>2. /\ syncAt' \in IC!Boxes /\ syncQueued' \in IC!Boxes /\ syncFolder' \in IC!Boxes
        /\ syncFolder' # NoMailbox => syncAt' = syncFolder'
    BY <1>5, <2>1 DEF ConnInv, IC!TypeOK, IC!SyncSelected, IC!Boxes
  <2>3. IC!TypeOK'
    BY <1>1, <1>5, <2>1, <2>2 DEF ConnInv, IC!TypeOK, PoolOK, QueueOK, Conn, Cmd, IC!SyncSelected, IC!bodyVars, IC!pushVars
  <2> QED BY <1>1, <2>1, <2>2, <2>3 DEF ConnInv, PlaceOK, IC!pushVars
<1> QED BY <1>2, <1>3, <1>4, <1>5

\* The answers on the sync session.
LEMMA AnswersKeep ==
    ASSUME IC!ImapConnectionsAssumption, ConnInv, NEW b \in BOOLEAN,
           IC!SyncAnswered(b) \/ IC!SyncFailed(b)
    PROVE  ConnInv'
<1> DEFINE job == Head(syncJobs)
<1>1. /\ syncJobs # <<>> /\ fallbackBusy \in BOOLEAN /\ job.cmd \in {"READ", "BODY"}
      /\ UNCHANGED <<connectionsConnected, sync, syncAt, syncQueued, syncFolder, IC!pushVars>>
  BY DEF ConnInv, IC!TypeOK, IC!SyncAnswered, IC!SyncFailed, IC!SyncRuns
<1>2. /\ QueueOK(Tail(syncJobs), fallbackBusy /\ job.cmd # "BODY")
      /\ job \in Cmd /\ (job.cmd = "BODY" => fallbackBusy)
  BY <1>1, TailQueue DEF ConnInv
<1>3. /\ QueueOK(syncJobs', fallbackBusy') /\ fallbackBusy' \in BOOLEAN
  <2>1. CASE IC!SyncAnswered(TRUE) /\ b
    <3>1. job.cmd = "BODY" /\ syncJobs' = Append(Tail(syncJobs), job) /\ fallbackBusy' = fallbackBusy
      BY <1>1, <2>1 DEF IC!SyncAnswered
    <3> DEFINE none == FALSE
               q == Tail(syncJobs)
    <3>2. QueueOK(q, none) /\ none \in BOOLEAN
      BY <1>2, <3>1 DEF QueueOK
    <3>3. ~none
      OBVIOUS
    <3> HIDE DEF none, q
    <3>4. QueueOK(Append(q, job), none \/ job.cmd = "BODY")
      BY <1>2, <3>2, <3>3, AppendQueue
    <3>5. (none \/ job.cmd = "BODY") <=> fallbackBusy
      BY <1>2, <3>1
    <3>6. QueueOK(Append(q, job), fallbackBusy)
      BY <3>4, <3>5 DEF QueueOK
    <3> QED BY <1>1, <3>1, <3>6 DEF q
  <2>2. CASE (IC!SyncAnswered(b) /\ ~b) \/ IC!SyncFailed(b)
    <3>1. syncJobs' = Tail(syncJobs) /\ fallbackBusy' = (fallbackBusy /\ job.cmd # "BODY")
      BY <1>1, <2>2 DEF IC!SyncAnswered, IC!SyncFailed
    <3> QED BY <1>1, <1>2, <3>1
  <2> QED BY <2>1, <2>2
<1>4. PoolOK(pool') /\ poolBroken' \in BOOLEAN
  <2>1. CASE IC!SyncAnswered(b)
    BY <2>1 DEF IC!SyncAnswered, ConnInv, IC!TypeOK
  <2>2. CASE IC!SyncFailed(b)
    BY <2>2, PoolShrunk DEF IC!SyncFailed, ConnInv, IC!TypeOK
  <2> QED BY <2>1, <2>2
<1>5. mixed' = FALSE
  <2>1. ~IC!Mixes
    BY <1>2 DEF ConnInv, PlaceOK, IC!Mixes, IC!Used, Cmd, IC!ImapConnectionsAssumption
  <2> QED BY <2>1 DEF ConnInv, IC!TypeOK, IC!SyncAnswered, IC!SyncFailed
<1>6. IC!TypeOK'
  BY <1>1, <1>3, <1>4, <1>5 DEF ConnInv, IC!TypeOK, PoolOK, QueueOK, Conn, Cmd, IC!pushVars
<1> QED BY <1>1, <1>3, <1>4, <1>5, <1>6 DEF ConnInv, PlaceOK, IC!pushVars

-----------------------------------------------------------------------------
\* What a step that only touches the pool has to show.
LEMMA PoolOnly ==
    ASSUME ConnInv, PoolOK(pool'), poolBroken' \in BOOLEAN, mixed' = FALSE,
           UNCHANGED <<connectionsConnected, IC!syncVars, fallbackBusy, IC!pushVars>>
    PROVE  ConnInv'
<1>1. IC!TypeOK'
  BY DEF ConnInv, IC!TypeOK, PoolOK, Conn, IC!syncVars, IC!pushVars
<1> QED BY <1>1 DEF ConnInv, PlaceOK, IC!syncVars, IC!pushVars

\* The body pool.
LEMMA PoolKeeps ==
    ASSUME IC!ImapConnectionsAssumption, ConnInv, NEW c \in Slots,
           \/ IC!PoolDrop(c)
           \/ \E ok \in BOOLEAN : \/ IC!PoolLogin(c, ok) \/ IC!PoolSelected(c, ok)
                                 \/ IC!PoolFetched(c, ok) \/ IC!PoolRefused(c, ok)
    PROVE  ConnInv'
<1> DEFINE s == pool[c]
<1>1. Sane(s) /\ s \in Conn /\ PoolOK(pool) /\ {poolBroken, mixed} \subseteq BOOLEAN /\ ~mixed
      /\ \A x \in Slots : pool[x] \in Conn
  BY DEF ConnInv, PoolOK, Sane, IC!TypeOK
<1>2. CASE IC!PoolDrop(c)
  <2>1. PoolOK(pool')
    BY <1>1, <1>2, NoConnSane, PoolChanged DEF IC!PoolDrop
  <2> QED BY <1>1, <1>2, <2>1, PoolOnly DEF IC!PoolDrop
<1>3. ASSUME NEW ok \in BOOLEAN, IC!PoolLogin(c, ok)
      PROVE  ConnInv'
  <2> DEFINE t == IF ok THEN [s EXCEPT !.st = "ready"] ELSE IC!NoConn
  <2>1. Sane(t)
    BY <1>1, NoConnSane DEF Sane, Conn
  <2>2. pool' = [pool EXCEPT ![c] = t] /\ poolBroken' \in BOOLEAN /\ mixed' = FALSE
        /\ UNCHANGED <<connectionsConnected, IC!syncVars, fallbackBusy, IC!pushVars>>
    BY <1>1, <1>3 DEF IC!PoolLogin, PoolOK
  <2> HIDE DEF t
  <2> QED BY <1>1, <2>1, <2>2, PoolChanged, PoolOnly
<1>4. ASSUME NEW ok \in BOOLEAN, IC!PoolSelected(c, ok)
      PROVE  ConnInv'
  <2>1. PICK others \in {NoMailbox, s.at} :
          pool' = IF ok THEN [pool EXCEPT ![c].job = "FULL", ![c].folder = s.want, ![c].at = s.want]
                  ELSE [pool EXCEPT ![c].job = "none", ![c].busy = FALSE, ![c].at = others]
    BY <1>4 DEF IC!PoolSelected
  <2>2. s.job = "SELECT" /\ UNCHANGED <<connectionsConnected, IC!syncVars, poolBroken, fallbackBusy, IC!pushVars, mixed>>
    BY <1>4 DEF IC!PoolSelected
  <2> DEFINE t == IF ok THEN [s EXCEPT !.job = "FULL", !.folder = s.want, !.at = s.want]
                  ELSE [s EXCEPT !.job = "none", !.busy = FALSE, !.at = others]
  <2>3. Sane(t)
    BY <1>1, <2>2 DEF Sane, Conn, IC!Boxes
  <2>4. pool' = [pool EXCEPT ![c] = t]
    BY <1>1, <2>1 DEF PoolOK, Conn
  <2> HIDE DEF t
  <2> QED BY <1>1, <2>2, <2>3, <2>4, PoolChanged, PoolOnly
<1>5. ASSUME NEW b \in BOOLEAN, IC!PoolFetched(c, b) \/ IC!PoolRefused(c, b)
      PROVE  ConnInv'
  <2> DEFINE rest == [s EXCEPT !.job = "none", !.busy = FALSE]
             owed == [s EXCEPT !.job = "TEXT"]
  <2>1. s.job \in {"FULL", "TEXT"}
        /\ UNCHANGED <<connectionsConnected, IC!syncVars, fallbackBusy, IC!pushVars>>
    BY <1>5 DEF IC!PoolFetched, IC!PoolRefused
  <2>2. Sane(rest) /\ Sane(owed)
    BY <1>1, <2>1 DEF Sane, Conn
  <2>3. CASE IC!PoolFetched(c, b)
    <3>1. ~(s.folder = s.want /\ s.at # s.want)
      BY <1>1, <2>1, <2>3 DEF IC!PoolFetched, Sane
    <3>2. mixed' = FALSE /\ poolBroken' \in BOOLEAN
      BY <1>1, <2>3, <3>1 DEF IC!PoolFetched
    <3>3. \/ pool' = [pool EXCEPT ![c] = owed] \/ pool' = [pool EXCEPT ![c] = rest]
      BY <1>1, <2>3 DEF IC!PoolFetched, PoolOK, Conn
    <3> HIDE DEF rest, owed
    <3>4. PoolOK(pool')
      BY <1>1, <2>2, <3>3, PoolChanged
    <3> QED BY <2>1, <3>2, <3>4, PoolOnly
  <2>4. CASE IC!PoolRefused(c, b)
    <3> DEFINE released == [pool EXCEPT ![c].job = "none", ![c].busy = FALSE]
    <3>1. released = [pool EXCEPT ![c] = rest]
      BY <1>1 DEF PoolOK, Conn
    <3>2. IF b THEN IC!ShrinkBodyPool(released) ELSE pool' = released /\ UNCHANGED poolBroken
      BY <2>4 DEF IC!PoolRefused
    <3>3. mixed' = FALSE
      BY <1>1, <2>4 DEF IC!PoolRefused
    <3> HIDE DEF rest, owed, released
    <3>4. PoolOK(released)
      BY <1>1, <2>2, <3>1, PoolChanged
    <3>5. PoolOK(pool') /\ poolBroken' \in BOOLEAN
      BY <1>1, <3>2, <3>4, PoolShrunk
    <3> QED BY <2>1, <3>3, <3>5, PoolOnly
  <2> QED BY <1>5, <2>3, <2>4
<1> QED BY <1>2, <1>3, <1>4, <1>5

\* A batch of bodies: on a free connection of the pool, on the sync session, or
\* nowhere.
LEMMA FetchKeeps ==
    ASSUME IC!ImapConnectionsAssumption, ConnInv, NEW f \in ImapBoxes, IC!FetchBodies(f)
    PROVE  ConnInv'
<1>1. UNCHANGED <<connectionsConnected, poolBroken, IC!pushVars, mixed>>
      /\ UNCHANGED <<syncAt, syncFolder>> /\ sync' \in {"none", "login", "ready"}
  BY DEF IC!FetchBodies, ConnInv, IC!TypeOK, IC!StartedSync, IC!OnSync
<1>2. PoolOK(IC!Filled)
  BY PoolFilled DEF ConnInv
<1>3. PoolOK(pool')
  <2>1. ASSUME NEW c \in Slots, IC!Filled[c].st = "ready", ~IC!Filled[c].busy,
               pool' = [IC!Filled EXCEPT ![c].busy = TRUE, ![c].want = f,
                          ![c].job = IF IC!Filled[c].folder = f THEN "FULL" ELSE "SELECT"]
        PROVE  PoolOK(pool')
    <3> DEFINE s == IC!Filled[c]
               t == [s EXCEPT !.busy = TRUE, !.want = f,
                              !.job = IF s.folder = f THEN "FULL" ELSE "SELECT"]
    <3>1. Sane(s) /\ s \in Conn /\ IC!Filled \in [Slots -> Conn]
      BY <1>2 DEF PoolOK, Sane
    <3>2. Sane(t)
      BY <3>1 DEF Sane, Conn, IC!Boxes, IC!ImapConnectionsAssumption
    <3>3. pool' = [IC!Filled EXCEPT ![c] = t]
      BY <2>1, <3>1 DEF Conn
    <3> HIDE DEF t
    <3> QED BY <1>2, <3>2, <3>3, PoolChanged
  <2> QED BY <1>2, <2>1 DEF IC!FetchBodies
<1>4. QueueOK(syncJobs', fallbackBusy') /\ fallbackBusy' \in BOOLEAN /\ syncQueued' \in IC!Boxes
  <2>1. CASE ~fallbackBusy /\ fallbackBusy' = TRUE /\ IC!OnSync(f, "BODY")
    <3> DEFINE cmd == "BODY"
    <3>1. cmd \in {"READ", "BODY"} /\ (cmd = "BODY" => ~fallbackBusy) /\ IC!OnSync(f, cmd) /\ cmd = "BODY"
      BY <2>1
    <3> HIDE DEF cmd
    <3>2. QueueOK(syncJobs', fallbackBusy \/ cmd = "BODY") /\ syncQueued' \in IC!Boxes
      BY <3>1, OnSyncQueue DEF ConnInv
    <3> QED BY <2>1, <3>1, <3>2 DEF QueueOK
  <2>2. CASE UNCHANGED <<syncJobs, syncQueued, fallbackBusy>>
    BY <2>2 DEF ConnInv, IC!TypeOK
  <2> QED BY <2>1, <2>2 DEF IC!FetchBodies
<1>5. IC!TypeOK'
  BY <1>1, <1>3, <1>4 DEF ConnInv, IC!TypeOK, PoolOK, QueueOK, Conn, Cmd, IC!pushVars
<1> QED BY <1>1, <1>3, <1>4, <1>5 DEF ConnInv, PlaceOK, IC!pushVars

\* The latch and the IDLE connection.
LEMMA PushKeeps ==
    ASSUME IC!ImapConnectionsAssumption, ConnInv,
           \/ \E f \in ImapBoxes : IC!StartPush(f)
           \/ \E b \in BOOLEAN : IC!LatchLifts(b)
           \/ IC!RetryDue \/ IC!PushAdvances \/ IC!PushFails
    PROVE  ConnInv'
<1>1. CASE \E b \in BOOLEAN : IC!LatchLifts(b)
  <2>1. IC!TypeOK'
    BY <1>1 DEF IC!LatchLifts, ConnInv, IC!TypeOK, IC!StartedSync, IC!pushVars
  <2> QED BY <1>1, <2>1 DEF IC!LatchLifts, ConnInv, PlaceOK, IC!pushVars
<1>2. ASSUME \/ \E f \in ImapBoxes : IC!StartPush(f)
             \/ IC!RetryDue \/ IC!PushAdvances \/ IC!PushFails
      PROVE  ConnInv'
  <2>1. UNCHANGED <<connectionsConnected, IC!syncVars, IC!bodyVars, mixed>>
    BY <1>2 DEF IC!StartPush, IC!RetryDue, IC!PushAdvances, IC!PushFails
  <2>2. /\ idle' \in {"none", "login", "select", "idle"} /\ pushRetry' \in BOOLEAN
        /\ pushFolder' \in IC!Boxes /\ backoff' \in 0 .. MaxBackoff
        /\ idle' # "none" \/ pushRetry' => pushFolder' # NoMailbox
    <3>1. CASE \E f \in IC!Boxes : f # NoMailbox /\ IC!StartPush(f)
      BY <3>1 DEF IC!StartPush, IC!PushStopped, ConnInv, PlaceOK, IC!TypeOK
    <3>2. CASE IC!PushAdvances
      BY <3>2 DEF IC!PushAdvances, ConnInv, PlaceOK, IC!TypeOK, IC!ImapConnectionsAssumption
    <3>3. CASE IC!PushFails
      <4>1. backoff \in 0 .. MaxBackoff /\ MaxBackoff \in Nat
        BY DEF ConnInv, IC!TypeOK, IC!ImapConnectionsAssumption
      <4>2. backoff < MaxBackoff => backoff + 1 \in 0 .. MaxBackoff
        BY <4>1
      <4>3. backoff' \in {backoff, IF backoff < MaxBackoff THEN backoff + 1 ELSE backoff}
        BY <3>3 DEF IC!PushFails
      <4>4. /\ idle' = "none" /\ pushRetry' \in BOOLEAN /\ pushFolder' \in IC!Boxes
            /\ pushRetry' => pushFolder' # NoMailbox
        BY <3>3 DEF IC!PushFails, ConnInv, IC!TypeOK
      <4> QED BY <4>1, <4>2, <4>3, <4>4
    <3>4. CASE IC!RetryDue
      BY <3>1, <3>4 DEF IC!RetryDue, ConnInv, PlaceOK, IC!TypeOK
    <3>5. CASE \E f \in ImapBoxes : IC!StartPush(f)
      BY <3>1, <3>5 DEF IC!Boxes, IC!ImapConnectionsAssumption
    <3> QED BY <1>2, <3>2, <3>3, <3>4, <3>5
  <2>3. IC!TypeOK'
    BY <2>1, <2>2 DEF ConnInv, IC!TypeOK, IC!syncVars, IC!bodyVars
  <2> QED BY <2>1, <2>2, <2>3 DEF ConnInv, PlaceOK, IC!syncVars, IC!bodyVars
<1> QED BY <1>1, <1>2

LEMMA NextKeeps ==
    ASSUME IC!ImapConnectionsAssumption, ConnInv, [IC!Next]_(IC!connVars)
    PROVE  ConnInv'
<1>1. CASE UNCHANGED IC!connVars
  BY <1>1 DEF IC!connVars, IC!syncVars, IC!bodyVars, IC!pushVars, ConnInv, IC!TypeOK, PlaceOK
<1>2. CASE IC!Next
  BY <1>2, AccountKeeps, SyncKeeps, AnswersKeep, PoolKeeps, FetchKeeps, PushKeeps DEF IC!Next
<1> QED BY <1>1, <1>2

LEMMA InitKeeps ==
    ASSUME IC!ImapConnectionsAssumption, IC!Init
    PROVE  ConnInv
<1>1. PoolOK(pool)
  <2> DEFINE s == IC!NoConn
  <2>1. Sane(s) /\ s \in Conn
    BY NoConnSane DEF Sane
  <2> HIDE DEF s
  <2>2. PoolOK([c \in Slots |-> s])
    BY <2>1 DEF PoolOK
  <2> QED BY <2>2 DEF IC!Init, s
<1>2. QueueOK(syncJobs, fallbackBusy)
  <2>1. syncJobs = <<>> /\ fallbackBusy = FALSE
    BY DEF IC!Init
  <2> QED BY <2>1, EmptyQueue
<1>3. IC!TypeOK
  <2>1. 0 \in 0 .. MaxBackoff /\ NoMailbox \in IC!Boxes
    BY DEF IC!Boxes, IC!ImapConnectionsAssumption
  <2>2. {connectionsConnected, poolBroken, fallbackBusy, pushRetry, mixed} \subseteq BOOLEAN
    BY DEF IC!Init
  <2> QED BY <1>1, <1>2, <2>1, <2>2 DEF IC!Init, IC!TypeOK, PoolOK, QueueOK, Conn, Cmd
<1> QED BY <1>1, <1>2, <1>3 DEF IC!Init, ConnInv, PlaceOK

LEMMA KeptIsWorking ==
    ASSUME ConnInv
    PROVE  IC!BusyMeansWorking /\ IC!OneFallback /\ IC!NothingMixed
BY DEF ConnInv, IC!BusyMeansWorking, IC!OneFallback, IC!NothingMixed, PoolOK, Sane, QueueOK

LEMMA PushStays ==
    ASSUME ConnInv, [IC!Next]_(IC!connVars)
    PROVE  [IC!PushIsKept]_(IC!connVars)
<1> SUFFICES ASSUME IC!Next, idle # "none" \/ pushRetry, connectionsConnected'
             PROVE  idle' # "none" \/ pushRetry'
  BY DEF IC!PushIsKept
<1>1. CASE \/ \E f \in ImapBoxes : IC!StartPush(f)
           \/ IC!RetryDue \/ IC!PushAdvances \/ IC!PushFails
  BY <1>1 DEF IC!StartPush, IC!RetryDue, IC!PushAdvances, IC!PushFails, ConnInv, PlaceOK, IC!TypeOK
<1>2. CASE UNCHANGED IC!pushVars
  BY <1>2 DEF IC!pushVars
<1>3. CASE IC!CloseSessions
  BY <1>3 DEF IC!CloseSessions
<1> QED
  BY <1>1, <1>2, <1>3 DEF IC!Next, IC!Connected, IC!EnsureBackgroundReady, IC!SyncLogin, IC!SyncDrop,
     IC!BackgroundRead, IC!FetchBodies, IC!SyncSelected, IC!SyncAnswered, IC!SyncFailed, IC!LatchLifts,
     IC!PoolDrop, IC!PoolLogin, IC!PoolSelected, IC!PoolFetched, IC!PoolRefused

(*****************************************************************************)
(* TK, tokens (Tokens).  While a caller waits, one of three things is under  *)
(* way: the read of the secret, a sign-in in the browser, a request; and     *)
(* the request, the sign-in and what they bring are of the open account.     *)
(*****************************************************************************)

Typed ==
  /\ account \in Accounts /\ wallet \in [Accounts -> Accounts \cup {Nobody}]
  /\ \A r \in reads : r.account \in Accounts /\ r.gen \in Nat /\ r.gen <= tokensGen
  /\ tokensGen \in Nat /\ asks \in Nat /\ signIn \in Nat
  /\ ready \in BOOLEAN /\ tokensWanted \in BOOLEAN /\ inFlight \in BOOLEAN /\ refreshing \in BOOLEAN
  /\ resolving \in BOOLEAN /\ linkOnly \in BOOLEAN /\ crossed \in BOOLEAN
  /\ refreshTok \in Accounts \cup {Nobody} /\ access \in Accounts \cup {Nobody}
  /\ request \subseteq Accounts /\ signedFor \in Accounts \cup {Nobody}
  /\ signIn # 0 => signedFor \in Accounts
  /\ inFlight => asks > 0

\* Nothing is under way; or one thing is: the secret is being read, a sign-in
\* waits for the browser, or a token is asked for.
Resting     == ~resolving /\ signIn = 0 /\ request = {}
Reading   == resolving /\ signIn = 0 /\ request = {}
Browsing  == ~resolving /\ signIn # 0 /\ request = {}
Asking    == ~resolving /\ signIn = 0 /\ \E t : request = {t}
Acquiring == IF inFlight THEN Reading \/ Browsing \/ Asking ELSE Resting

\* The flag and the waiters go with it, and a refresh is a token asked for.
Answered == /\ Acquiring /\ (refreshing => request # {})
            /\ waiters # {} => inFlight
            /\ signIn # 0 => signIn \in timers

WaitInv == Typed /\ Answered

-----------------------------------------------------------------------------
(* Beginning and ending an acquisition.                                     *)

\* What Start leaves is one thing under way.
LEMMA StartsOne ==
    ASSUME WaitInv, NEW owner \in Accounts \cup {Nobody}, TK!Start(owner),
           signIn = 0, request = {}, asks' \in Nat \ {0}, ~resolving', inFlight', refreshing => request # {}
    PROVE  /\ Acquiring' /\ (refreshing' => request' # {}) /\ (signIn' # 0 => signIn' \in timers')
           /\ signIn' \in Nat /\ request' \subseteq Accounts /\ linkOnly' \in BOOLEAN /\ refreshing' \in BOOLEAN
           /\ signedFor' \in Accounts \cup {Nobody} /\ (signIn' # 0 => signedFor' \in Accounts)
<1>1. linkOnly' = FALSE /\ ((TK!Refresh(owner) /\ owner # Nobody) \/ TK!Authorize)
  BY DEF TK!Start
<1>2. CASE TK!Refresh(owner) /\ owner # Nobody
  BY <1>1, <1>2 DEF TK!Refresh, WaitInv, Typed, Acquiring, Reading, Browsing, Asking
<1>3. CASE TK!Authorize
  BY <1>1, <1>3 DEF TK!Authorize, WaitInv, Typed, Acquiring, Reading, Browsing, Asking
<1> QED BY <1>1, <1>2, <1>3

Under == <<inFlight, refreshing, resolving, linkOnly, TK!help, asks>>

\* A caller joins what is under way, or begins it.
Begins(owner) ==
  IF inFlight THEN UNCHANGED Under
  ELSE /\ asks' = asks + 1 /\ inFlight'
       /\ \/ TK!Start(owner) /\ UNCHANGED resolving
          \/ resolving' = TRUE /\ UNCHANGED <<refreshing, linkOnly, TK!help>>

\* The types of what an acquisition changes.
Kinds == /\ asks \in Nat /\ signIn \in Nat /\ request \subseteq Accounts
         /\ inFlight \in BOOLEAN /\ refreshing \in BOOLEAN /\ resolving \in BOOLEAN /\ linkOnly \in BOOLEAN
         /\ signedFor \in Accounts \cup {Nobody} /\ (signIn # 0 => signedFor \in Accounts)
         /\ (inFlight => asks > 0)

LEMMA BeginningIsOne ==
    ASSUME WaitInv, NEW owner \in Accounts \cup {Nobody}, Begins(owner)
    PROVE  Answered' /\ Kinds'
<1>1. CASE inFlight
  <2>1. UNCHANGED Under
    BY <1>1 DEF Begins
  <2> QED BY <1>1, <2>1 DEF Under, TK!help, WaitInv, Typed, Answered, Kinds, Acquiring, Reading, Browsing, Asking
<1>2. CASE ~inFlight
  <2>1. Resting /\ ~refreshing
    BY <1>2 DEF WaitInv, Answered, Acquiring, Resting
  <2>2. asks' = asks + 1 /\ inFlight' /\ asks' \in Nat \ {0} /\ inFlight' \in BOOLEAN
    BY <1>2 DEF Begins, WaitInv, Typed
  <2>3. CASE TK!Start(owner) /\ UNCHANGED resolving
    <3>1. ~resolving' /\ resolving' \in BOOLEAN
      BY <2>1, <2>3 DEF Resting, WaitInv, Typed
    <3> QED BY <2>1, <2>2, <2>3, <3>1, StartsOne DEF Resting, Answered, Kinds
  <2>4. CASE resolving' = TRUE /\ UNCHANGED <<refreshing, linkOnly, TK!help>>
    BY <2>1, <2>2, <2>4 DEF TK!help, Resting, Reading, Acquiring, Answered, Kinds, WaitInv, Typed
  <2> QED BY <1>2, <2>3, <2>4 DEF Begins
<1> QED BY <1>1, <1>2 DEF WaitInv, Typed

\* What an acquisition does not change keeps its type.
Others == /\ account \in Accounts /\ wallet \in [Accounts -> Accounts \cup {Nobody}]
          /\ \A r \in reads : r.account \in Accounts /\ r.gen \in Nat /\ r.gen <= tokensGen
          /\ tokensGen \in Nat /\ ready \in BOOLEAN /\ tokensWanted \in BOOLEAN /\ crossed \in BOOLEAN
          /\ refreshTok \in Accounts \cup {Nobody} /\ access \in Accounts \cup {Nobody}

LEMMA InParts == (Typed <=> Kinds /\ Others) /\ (Typed' <=> Kinds' /\ Others')
BY DEF Typed, Kinds, Others

LEMMA NothingBegins ==
    ASSUME WaitInv, UNCHANGED <<Under, waiters>>
    PROVE  Answered' /\ Kinds'
BY InParts DEF Under, TK!help, WaitInv, Answered, Kinds, Acquiring, Resting, Reading, Browsing, Asking

LEMMA Acquired ==
    ASSUME WaitInv, NEW w, TK!AcquireToken(w)
    PROVE  Answered' /\ Kinds'
<1>1. Begins(refreshTok)
  BY DEF TK!AcquireToken, Begins, Under
<1>2. refreshTok \in Accounts \cup {Nobody}
  BY DEF WaitInv, Typed
<1> QED BY <1>1, <1>2, BeginningIsOne

\* The way it was under way ends, and nothing is under way.
LEMMA EndsAll ==
    ASSUME WaitInv, inFlight' = FALSE, waiters' = {}, refreshing' = FALSE,
           resolving' = resolving, linkOnly' = linkOnly, asks' = asks, signedFor' = signedFor,
           \/ signIn # 0 /\ signIn' = 0 /\ request' = request
           \/ signIn' = signIn /\ \E t \in request : request' = request \ {t}
    PROVE  Answered' /\ Kinds' /\ inFlight /\ (signIn # 0 => ~refreshing)
<1>1. CASE signIn # 0 /\ signIn' = 0 /\ request' = request
  BY <1>1, InParts DEF WaitInv, Answered, Kinds, Acquiring, Resting, Reading, Browsing, Asking
<1>2. CASE signIn' = signIn /\ \E t \in request : request' = request \ {t}
  <2>1. inFlight /\ Asking
    BY <1>2 DEF WaitInv, Answered, Acquiring, Resting, Reading, Browsing
  <2>2. request' = {} /\ ~resolving' /\ signIn' = 0
    BY <1>2, <2>1 DEF Asking
  <2>3. Resting'
    BY <2>2 DEF Resting
  <2> QED BY <2>1, <2>2, <2>3, InParts DEF WaitInv, Answered, Kinds, Acquiring, Asking
<1> QED BY <1>1, <1>2

-----------------------------------------------------------------------------
(* The steps.                                                               *)

LEMMA StepWaits ==
    ASSUME TK!TokensAssumption, WaitInv, [TK!Next]_(TK!vars)
    PROVE  WaitInv'
<1>1. Kinds /\ Others
  BY InParts DEF WaitInv
<1>2. SUFFICES Answered' /\ Kinds' /\ Others'
  BY InParts DEF WaitInv
<1>3. CASE TK!Resolved
  <2>1. Reading /\ inFlight
    BY <1>3 DEF TK!Resolved, WaitInv, Answered, Acquiring, Resting, Browsing, Asking
  <2>2. asks' \in Nat \ {0}
    BY <1>1, <1>3, <2>1 DEF TK!Resolved, Kinds
  <2>3. Others'
    BY <1>1, <1>3 DEF TK!Resolved, TK!store, TK!held, Others
  <2>4. TK!Start(refreshTok) /\ ~resolving' /\ inFlight' /\ signIn = 0 /\ request = {}
        /\ (refreshing => request # {}) /\ refreshTok \in Accounts \cup {Nobody}
    BY <1>1, <1>3, <2>1 DEF TK!Resolved, Reading, WaitInv, Answered, Others
  <2>5. /\ Acquiring' /\ (refreshing' => request' # {}) /\ (signIn' # 0 => signIn' \in timers')
        /\ signIn' \in Nat /\ request' \subseteq Accounts /\ linkOnly' \in BOOLEAN /\ refreshing' \in BOOLEAN
        /\ signedFor' \in Accounts \cup {Nobody} /\ (signIn' # 0 => signedFor' \in Accounts)
    BY <2>2, <2>4, StartsOne
  <2>6. Answered'
    BY <2>4, <2>5 DEF Answered
  <2>7. Kinds'
    BY <1>1, <1>3, <2>2, <2>4, <2>5 DEF TK!Resolved, Kinds
  <2> QED BY <2>3, <2>6, <2>7
<1>4. CASE TK!Reconnect
  <2>1. Others'
    BY <1>1, <1>4 DEF TK!Reconnect, TK!ConnectAccount, TK!held, Others
  <2>2. CASE TK!Idle
    BY <2>1, <2>2, NothingBegins DEF TK!Idle, Under
  <2>3. CASE TK!AcquireToken("connect")
    BY <2>1, <2>3, Acquired
  <2> QED BY <1>4, <2>2, <2>3 DEF TK!Reconnect, TK!ConnectAccount
<1>5. CASE TK!Send
  <2>1. Others'
    BY <1>1, <1>5 DEF TK!Send, TK!store, TK!held, Others
  <2> QED BY <1>5, <2>1, Acquired DEF TK!Send
<1>6. CASE TK!Expire
  <2>1. Others' /\ UNCHANGED <<Under, waiters>>
    BY <1>1, <1>6 DEF TK!Expire, TK!store, Under, Others
  <2> QED BY <2>1, NothingBegins
<1>7. CASE TK!CopyLink
  <2>1. Others'
    BY <1>1, <1>7 DEF TK!CopyLink, TK!store, TK!held, Others
  <2>2. Resting /\ ~refreshing /\ inFlight' /\ inFlight' \in BOOLEAN /\ asks' = asks + 1 /\ asks' \in Nat \ {0}
    BY <1>1, <1>7 DEF TK!CopyLink, WaitInv, Answered, Acquiring, Resting, Kinds
  <2>3. CASE TK!Authorize /\ UNCHANGED <<resolving, linkOnly>>
    <3>1. /\ ~resolving' /\ signIn' = asks' /\ request' = {} /\ ~refreshing' /\ refreshing' = refreshing
          /\ signedFor' = account /\ signIn' \in timers' /\ linkOnly' = linkOnly /\ resolving' = resolving
      BY <2>2, <2>3 DEF TK!Authorize, Resting
    <3>2. Answered'
      BY <2>2, <3>1 DEF Browsing, Acquiring, Answered
    <3>3. Kinds'
      BY <1>1, <2>2, <3>1 DEF Kinds, Others
    <3> QED BY <2>1, <3>2, <3>3
  <2>4. CASE resolving' = TRUE /\ linkOnly' = TRUE /\ UNCHANGED <<refreshing, TK!help>>
    <3>1. /\ signIn' = 0 /\ request' = {} /\ ~refreshing' /\ refreshing' = refreshing /\ signedFor' = signedFor
      BY <2>2, <2>4 DEF TK!help, Resting
    <3>2. Answered'
      BY <2>2, <2>4, <3>1 DEF Reading, Acquiring, Answered
    <3>3. Kinds'
      BY <1>1, <2>2, <2>4, <3>1 DEF Kinds
    <3> QED BY <2>1, <3>2, <3>3
  <2> QED BY <1>7, <2>1, <2>3, <2>4 DEF TK!CopyLink
<1>8. CASE TK!Redirected
  <2>1. Others'
    BY <1>1, <1>8 DEF TK!Redirected, TK!store, TK!held, Others
  <2>2. Browsing /\ inFlight /\ signedFor \in Accounts
    BY <1>1, <1>8 DEF TK!Redirected, WaitInv, Answered, Acquiring, Resting, Reading, Asking, Kinds
  <2>3. request' = {signedFor} /\ signIn' = 0 /\ ~resolving' /\ inFlight'
    BY <1>8, <2>2 DEF TK!Redirected, Browsing
  <2>4. Answered'
    BY <2>3 DEF Asking, Acquiring, Answered
  <2>5. Kinds'
    BY <1>1, <1>8, <2>2, <2>3 DEF TK!Redirected, Kinds
  <2> QED BY <2>1, <2>4, <2>5
<1>9. CASE TK!Declined
  <2>1. Answered' /\ Kinds'
    BY <1>9, EndsAll DEF TK!Declined, TK!Failed
  <2>2. Others'
    BY <1>1, <1>9 DEF TK!Declined, TK!Failed, Others
  <2> QED BY <2>1, <2>2
<1>10. ASSUME NEW t \in Accounts, TK!Refused(t)
       PROVE  Answered' /\ Kinds' /\ Others'
  <2>1. Answered' /\ Kinds'
    BY <1>10, EndsAll DEF TK!Refused, TK!Failed
  <2>2. Others'
    BY <1>1, <1>10 DEF TK!Refused, TK!Failed, Others
  <2> QED BY <2>1, <2>2
<1>11. ASSUME NEW t \in Accounts, NEW fresh \in BOOLEAN, TK!Granted(t, fresh)
       PROVE  Answered' /\ Kinds' /\ Others'
  <2>1. Answered' /\ Kinds'
    BY <1>11, EndsAll DEF TK!Granted, TK!TokensReady
  <2>2. tokensWanted' \in BOOLEAN /\ access' = t
    BY <1>1, <1>11 DEF TK!Granted, TK!TokensReady, Others
  <2>3. refreshTok' \in Accounts \cup {Nobody} /\ wallet' \in [Accounts -> Accounts \cup {Nobody}]
    BY <1>1, <1>11 DEF TK!Granted, TK!TokensReady, Others
  <2>4. Others'
    BY <1>1, <1>11, <2>2, <2>3 DEF TK!Granted, Others
  <2> QED BY <2>1, <2>4
<1>12. ASSUME NEW n \in timers, TK!TimedOut(n)
       PROVE  Answered' /\ Kinds' /\ Others'
  <2>1. CASE signIn = 0
    BY <1>1, <1>12, <2>1 DEF TK!TimedOut, WaitInv, Answered, Kinds, Others, Acquiring, Resting, Reading, Browsing, Asking
  <2>2. CASE signIn # 0
    <3>1. Answered' /\ Kinds'
      BY <1>12, <2>2, EndsAll DEF TK!TimedOut, TK!Failed
    <3>2. Others'
      BY <1>1, <1>12, <2>2 DEF TK!TimedOut, TK!Failed, Others
    <3> QED BY <3>1, <3>2
  <2> QED BY <2>1, <2>2
<1>13. ASSUME NEW a \in Accounts, TK!SwitchAccount(a)
       PROVE  Answered' /\ Kinds' /\ Others'
  <2>1. UNCHANGED <<Under, waiters>>
    BY <1>13 DEF TK!SwitchAccount, Under
  <2>2. Others'
    <3>1. tokensGen' = tokensGen + 1 /\ tokensGen' \in Nat /\ tokensGen <= tokensGen'
      BY <1>1, <1>13 DEF TK!SwitchAccount, Others
    <3>2. reads' = reads \cup {[account |-> a, gen |-> tokensGen']}
      BY <1>13 DEF TK!SwitchAccount
    <3>3. \A r \in reads' : r.account \in Accounts /\ r.gen \in Nat /\ r.gen <= tokensGen'
      BY <1>1, <3>1, <3>2 DEF Others
    <3> QED BY <1>1, <1>13, <3>1, <3>3 DEF TK!SwitchAccount, Others
  <2> QED BY <2>1, <2>2, NothingBegins
<1>14. ASSUME NEW r \in reads, TK!SecretRead(r)
       PROVE  Answered' /\ Kinds' /\ Others'
  <2>1. refreshTok' \in Accounts \cup {Nobody}
    BY <1>1, <1>14 DEF TK!SecretRead, Others
  <2>2. Others'
    BY <1>1, <1>14, <2>1 DEF TK!SecretRead, Others
  <2>3. CASE TK!Idle
    BY <2>2, <2>3, NothingBegins DEF TK!Idle, Under
  <2>4. CASE ~TK!Idle
    <3>1. Begins(refreshTok')
      BY <1>14, <2>4 DEF TK!SecretRead, Begins, Under
    <3> QED BY <2>1, <2>2, <3>1, BeginningIsOne
  <2> QED BY <2>3, <2>4
<1>15. CASE UNCHANGED TK!vars
  <2>1. Others' /\ UNCHANGED <<Under, waiters>>
    BY <1>1, <1>15 DEF TK!vars, TK!store, TK!held, Under, Others
  <2> QED BY <2>1, NothingBegins
<1> QED BY <1>3, <1>4, <1>5, <1>6, <1>7, <1>8, <1>9, <1>10, <1>11, <1>12, <1>13, <1>14, <1>15 DEF TK!Next

LEMMA InitWaits ==
    ASSUME TK!TokensAssumption, TK!Init
    PROVE  WaitInv
<1>1. Typed
  <2>1. \A r \in reads : r.account \in Accounts /\ r.gen \in Nat /\ r.gen <= tokensGen
    BY DEF TK!Init
  <2>2. request \subseteq Accounts /\ tokensGen \in Nat
    BY DEF TK!Init
  <2> QED BY <2>1, <2>2 DEF TK!Init, Typed
<1>2. Answered
  BY DEF TK!Init, Answered, Acquiring, Resting
<1> QED BY <1>1, <1>2 DEF WaitInv

LEMMA WaitersAreServed ==
    ASSUME WaitInv
    PROVE  TK!NobodyIsParked
<1>1. ASSUME inFlight
      PROVE  Cardinality(request) + (IF resolving THEN 1 ELSE 0) + (IF signIn # 0 THEN 1 ELSE 0) = 1
  <2>1. Cardinality({}) = 0 /\ \A t : Cardinality({t}) = 1
    BY FS_EmptySet, FS_Singleton
  <2>2. CASE Reading
    BY <2>1, <2>2 DEF Reading
  <2>3. CASE Browsing
    BY <2>1, <2>3 DEF Browsing
  <2>4. CASE Asking
    <3>1. ~resolving /\ signIn = 0 /\ Cardinality(request) = 1
      BY <2>1, <2>4, Zenon DEF Asking
    <3> QED BY <3>1
  <2> QED BY <1>1, <2>2, <2>3, <2>4 DEF WaitInv, Answered, Acquiring
<1>2. TK!Cardinality(request) = Cardinality(request)
  BY DEF TK!Cardinality, TK!IsFiniteSet, Cardinality, IsFiniteSet
<1> QED BY <1>1, <1>2 DEF TK!NobodyIsParked, WaitInv, Answered

LEMMA ForgottenOnRefusal ==
    ASSUME TK!TokensAssumption, WaitInv, [TK!Next]_(TK!vars)
    PROVE  [TK!ForgottenByRefusal]_(TK!vars)
<1> SUFFICES ASSUME NEW a \in Accounts, wallet[a] # Nobody, wallet'[a] = Nobody
             PROVE  refreshing /\ request # request'
  BY DEF TK!ForgottenByRefusal
<1>1. wallet' # wallet
  OBVIOUS
<1>2. CASE TK!Declined
  <2>1. ~refreshing
    BY <1>2 DEF TK!Declined, WaitInv, Answered, Acquiring, Resting, Reading, Browsing, Asking
  <2> QED BY <1>1, <1>2, <2>1 DEF TK!Declined, TK!Failed, TK!Drops
<1>3. ASSUME NEW n \in timers, TK!TimedOut(n)
      PROVE  FALSE
  <2>1. signIn # 0
    BY <1>1, <1>3 DEF TK!TimedOut
  <2>2. ~refreshing
    BY <2>1 DEF WaitInv, Answered, Acquiring, Resting, Reading, Browsing, Asking
  <2> QED BY <1>1, <1>3, <2>1, <2>2 DEF TK!TimedOut, TK!Failed, TK!Drops
<1>4. ASSUME NEW t \in Accounts, TK!Refused(t)
      PROVE  refreshing /\ request # request'
  BY <1>1, <1>4 DEF TK!Refused, TK!Failed, TK!Drops
<1>5. ASSUME NEW t \in Accounts, NEW fresh \in BOOLEAN, TK!Granted(t, fresh)
      PROVE  FALSE
  <2>1. wallet' = wallet \/ wallet' = [wallet EXCEPT ![account] = t]
    BY <1>5 DEF TK!Granted, TK!TokensReady
  <2>2. t # Nobody
    BY DEF TK!TokensAssumption
  <2> QED BY <1>1, <2>1, <2>2 DEF WaitInv, Typed
<1>6. CASE TK!Resolved \/ TK!Reconnect \/ TK!Send \/ TK!Expire \/ TK!CopyLink \/ TK!Redirected \/ UNCHANGED TK!vars
  BY <1>1, <1>6 DEF TK!Resolved, TK!Reconnect, TK!Send, TK!Expire, TK!CopyLink, TK!Redirected, TK!vars, TK!store
<1>7. ASSUME NEW b \in Accounts, TK!SwitchAccount(b)
      PROVE  FALSE
  BY <1>1, <1>7 DEF TK!SwitchAccount
<1>8. ASSUME NEW r \in reads, TK!SecretRead(r)
      PROVE  FALSE
  BY <1>1, <1>8 DEF TK!SecretRead
<1> QED BY <1>2, <1>3, <1>4, <1>5, <1>6, <1>7, <1>8 DEF TK!Next

-----------------------------------------------------------------------------
(* Whose tokens they are.                                                   *)

\* Where no account was opened during an acquisition, what was asked for and
\* what the browser was offered is the open account's, and so is the wallet read
\* that will be listened to.
Asked == request \subseteq {account} /\ (signIn # 0 => signedFor = account)
Owned == /\ TK!TokensOf(account, access) /\ TK!TokensOf(account, refreshTok)
         /\ \A a \in Accounts : TK!TokensOf(a, wallet[a])
         /\ \A r \in reads : r.gen = tokensGen => r.account = account
         /\ dialled # Nobody => dialled[1] = account /\ TK!TokensOf(account, dialled[2])
HomeInv == crossed \/ (Asked /\ Owned)

LEMMA AsksForItsOwn ==
    ASSUME WaitInv, Asked, account' = account, NEW owner, TK!TokensOf(account, owner),
           TK!Start(owner) \/ UNCHANGED TK!help
    PROVE  Asked'
BY DEF Asked, TK!Start, TK!Refresh, TK!Authorize, TK!help, TK!TokensOf

LEMMA StepStaysHome ==
    ASSUME TK!TokensAssumption, WaitInv, HomeInv, [TK!Next]_(TK!vars)
    PROVE  HomeInv'
<1> SUFFICES ASSUME ~crossed'
             PROVE  Asked' /\ Owned'
  BY DEF HomeInv
<1>1. ~crossed
  BY DEF TK!Next, TK!Resolved, TK!Reconnect, TK!Send, TK!Expire, TK!CopyLink, TK!Redirected, TK!Declined, TK!Refused, TK!Granted, TK!TimedOut,
         TK!SwitchAccount, TK!SecretRead, TK!vars
<1>2. Asked /\ Owned
  BY <1>1 DEF HomeInv
<1>3. ASSUME account' = account, wallet' = wallet, reads' = reads, tokensGen' = tokensGen, refreshTok' = refreshTok,
             access' = access \/ access' = Nobody,
             dialled' = dialled \/ dialled' = <<account, access>>
      PROVE  Owned'
  BY <1>2, <1>3 DEF Owned, TK!TokensOf
<1>4. TK!TokensOf(account, refreshTok)
  BY <1>2 DEF Owned
<1>5. ASSUME NEW w, TK!AcquireToken(w), account' = account
      PROVE  Asked'
  <2>1. TK!Start(refreshTok) \/ UNCHANGED TK!help
    BY <1>5 DEF TK!AcquireToken
  <2> QED BY <1>2, <1>4, <1>5, <2>1, AsksForItsOwn
<1>6. CASE TK!Resolved
  <2>1. Owned'
    BY <1>3, <1>6 DEF TK!Resolved, TK!store, TK!held
  <2> QED BY <1>2, <1>4, <1>6, <2>1, AsksForItsOwn DEF TK!Resolved
<1>7. CASE TK!Reconnect
  <2>1. Owned'
    BY <1>3, <1>7 DEF TK!Reconnect, TK!ConnectAccount, TK!held
  <2>2. CASE TK!Idle
    BY <1>2, <1>4, <1>7, <2>1, <2>2, AsksForItsOwn DEF TK!Reconnect, TK!Idle
  <2>3. CASE TK!AcquireToken("connect")
    BY <1>5, <1>7, <2>1, <2>3 DEF TK!Reconnect
  <2> QED BY <1>7, <2>2, <2>3 DEF TK!Reconnect, TK!ConnectAccount
<1>8. CASE TK!Send
  <2>1. Owned'
    BY <1>3, <1>8 DEF TK!Send, TK!store, TK!held
  <2> QED BY <1>5, <1>8, <2>1 DEF TK!Send
<1>9. CASE TK!Expire
  <2>1. Owned'
    BY <1>3, <1>9 DEF TK!Expire, TK!store
  <2> QED BY <1>2, <1>4, <1>9, <2>1, AsksForItsOwn DEF TK!Expire
<1>10. CASE TK!CopyLink
  <2>1. Owned'
    BY <1>3, <1>10 DEF TK!CopyLink, TK!store, TK!held
  <2>2. Asked'
    BY <1>2, <1>10 DEF TK!CopyLink, TK!Authorize, TK!help, Asked
  <2> QED BY <2>1, <2>2
<1>11. CASE TK!Redirected
  <2>1. Owned'
    BY <1>3, <1>11 DEF TK!Redirected, TK!store, TK!held
  <2> QED BY <1>2, <1>11, <2>1 DEF TK!Redirected, Asked
<1>12. ASSUME TK!Failed, UNCHANGED <<account, reads, tokensGen, access, dialled>>
       PROVE  Owned'
  BY <1>2, <1>12 DEF TK!Failed, Owned, TK!TokensOf, WaitInv, Typed
<1>13. CASE TK!Declined
  BY <1>2, <1>12, <1>13 DEF TK!Declined, Asked
<1>14. ASSUME NEW t \in Accounts, TK!Refused(t)
       PROVE  Asked' /\ Owned'
  BY <1>2, <1>12, <1>14 DEF TK!Refused, Asked
<1>15. ASSUME NEW t \in Accounts, NEW fresh \in BOOLEAN, TK!Granted(t, fresh)
       PROVE  Asked' /\ Owned'
  <2>1. t = account /\ access' = t /\ UNCHANGED <<account, reads, tokensGen>>
    BY <1>2, <1>15 DEF TK!Granted, TK!TokensReady, Asked
  <2>2. /\ refreshTok' = refreshTok \/ refreshTok' = t
        /\ wallet' = wallet \/ wallet' = [wallet EXCEPT ![account] = t]
    BY <1>15 DEF TK!Granted, TK!TokensReady
  <2>3. dialled' \in {dialled, Nobody, <<account, t>>}
    BY <1>15, <2>1 DEF TK!Granted, TK!TokensReady, TK!Waited
  <2>4. Owned'
    BY <1>2, <2>1, <2>2, <2>3 DEF Owned, TK!TokensOf, WaitInv, Typed
  <2> QED BY <1>2, <1>15, <2>4 DEF TK!Granted, Asked
<1>16. ASSUME NEW n \in timers, TK!TimedOut(n)
       PROVE  Asked' /\ Owned'
  <2>1. CASE signIn = 0
    BY <1>2, <1>3, <1>16, <2>1 DEF TK!TimedOut, Asked
  <2>2. CASE signIn # 0
    BY <1>2, <1>12, <1>16, <2>2 DEF TK!TimedOut, Asked
  <2> QED BY <2>1, <2>2
<1>17. ASSUME NEW a \in Accounts, TK!SwitchAccount(a)
       PROVE  Asked' /\ Owned'
  <2>1. ~inFlight
    BY <1>17 DEF TK!SwitchAccount
  <2>2. signIn = 0 /\ request = {}
    BY <2>1 DEF WaitInv, Answered, Acquiring, Resting
  <2>3. Asked'
    BY <1>17, <2>2 DEF TK!SwitchAccount, TK!help, Asked
  <2>4. \A r \in reads' : r.gen = tokensGen' => r.account = account'
    <3>1. tokensGen \in Nat /\ tokensGen' = tokensGen + 1 /\ \A r \in reads : r.gen \in Nat /\ r.gen <= tokensGen
      BY <1>17 DEF TK!SwitchAccount, WaitInv, Typed
    <3>2. reads' = reads \cup {[account |-> a, gen |-> tokensGen']} /\ account' = a
      BY <1>17 DEF TK!SwitchAccount
    <3>3. \A r \in reads : r.gen # tokensGen'
      BY <3>1
    <3> QED BY <3>2, <3>3
  <2>5. Owned'
    BY <1>2, <1>17, <2>4 DEF TK!SwitchAccount, Owned, TK!TokensOf
  <2> QED BY <2>3, <2>5
<1>18. ASSUME NEW r \in reads, TK!SecretRead(r)
       PROVE  Asked' /\ Owned'
  <2>1. UNCHANGED <<account, wallet, tokensGen, access>> /\ reads' = reads \ {r}
    BY <1>18 DEF TK!SecretRead
  <2>2. refreshTok' = refreshTok \/ (refreshTok' = wallet[r.account] /\ r.gen = tokensGen)
    BY <1>18 DEF TK!SecretRead, TK!Stale
  <2>3. TK!TokensOf(account, refreshTok')
    BY <1>2, <2>2 DEF Owned, TK!TokensOf, WaitInv, Typed
  <2>4. dialled' \in {dialled, <<account, access>>}
    BY <1>18 DEF TK!SecretRead
  <2>5. Owned'
    BY <1>2, <2>1, <2>3, <2>4 DEF Owned, TK!TokensOf
  <2>6. TK!Start(refreshTok') \/ UNCHANGED TK!help
    BY <1>18 DEF TK!SecretRead, TK!Idle
  <2> QED BY <1>2, <2>1, <2>3, <2>5, <2>6, AsksForItsOwn
<1>19. CASE UNCHANGED TK!vars
  BY <1>2, <1>3, <1>19 DEF TK!vars, TK!store, TK!held, TK!help, Asked
<1> QED BY <1>6, <1>7, <1>8, <1>9, <1>10, <1>11, <1>13, <1>14, <1>15, <1>16, <1>17, <1>18, <1>19 DEF TK!Next

LEMMA HomeStarts ==
    ASSUME TK!Init
    PROVE  HomeInv
BY DEF TK!Init, HomeInv, Asked, Owned, TK!TokensOf

LEMMA HomeMeans ==
    ASSUME HomeInv
    PROVE  TK!TokensStayHome
BY DEF HomeInv, Owned, TK!TokensStayHome

(*****************************************************************************)
(* MT, the upkeep of the cache (Maintenance).  Each claim is kept by every   *)
(* step as it is: what could start a writer looks at the compaction first,   *)
(* and what paused the sync lets it go on in the step in which it ends.      *)
(*****************************************************************************)

\* What the pills lack: the count of a thread that started, or of the next one.
Counting == [thread : {"none", "reading", "read", "stale"}, again : BOOLEAN, debounce : BOOLEAN, behind : BOOLEAN]
UpkeepInv == MT!CompactionIsQuiet /\ MT!SyncComesBack /\ recount \in Counting /\ MT!PillsCatchUp

-----------------------------------------------------------------------------
LEMMA UpkeepStarts ==
    ASSUME MT!Init
    PROVE  UpkeepInv
BY DEF MT!Init, MT!Launch, MT!NoCount, UpkeepInv, Counting, MT!CompactionIsQuiet, MT!SyncComesBack, MT!PillsCatchUp

\* No step of the upkeep brings a writer back while the file is copied.
LEMMA CompactionStaysQuiet ==
    ASSUME MT!CompactionIsQuiet, MT!Workers
    PROVE  MT!CompactionIsQuiet'
<1>1. reclaim \in {"copying", "copied"} => /\ workers \cap {"attach", "purge"} = {} /\ writer = "none" /\ MT!Reclaiming
  BY DEF MT!CompactionIsQuiet, MT!WritersIdle, MT!Reclaiming
<1> SUFFICES ASSUME reclaim' \in {"copying", "copied"}
             PROVE  workers' \cap {"attach", "purge"} = {} /\ writer' = "none"
  BY DEF MT!CompactionIsQuiet, MT!WritersIdle
<1>2. CASE MT!QueueBodyWrite \/ MT!WriteBatch \/ MT!WriterFinished \/ MT!ReclaimDiskSpace
  BY <1>1, <1>2 DEF MT!QueueBodyWrite, MT!WriteBatch, MT!WriterFinished, MT!ReclaimDiskSpace, MT!Revive, MT!background
<1>3. CASE MT!StartVacuum \/ MT!SwapIn
  BY <1>3 DEF MT!StartVacuum, MT!SwapIn, MT!WritersIdle, MT!background
<1>4. CASE \E ok \in BOOLEAN : MT!Vacuumed(ok)
  BY <1>1, <1>4 DEF MT!Vacuumed, MT!background, MT!writing
<1>5. ASSUME NEW job \in {"attach", "purge", "folder", "index"},
             MT!Work(job) \/ MT!WorkerEnds(job) \/ MT!StartWorker(job) \/ MT!TooLate(job)
      PROVE  workers' \cap {"attach", "purge"} = {} /\ writer' = "none"
  <2>1. CASE MT!Work(job) \/ MT!WorkerEnds(job) \/ MT!TooLate(job)
    BY <1>1, <2>1 DEF MT!Work, MT!WorkerEnds, MT!TooLate, MT!background, MT!writing
  <2>2. CASE MT!StartWorker(job)
    BY <1>1, <2>2 DEF MT!StartWorker, MT!Startable, MT!Begin, MT!writing
  <2> QED BY <1>5, <2>1, <2>2
<1>6. CASE MT!PurgeFolders \/ MT!ReindexPendingBodies \/ MT!FinishBodyIndexBatch \/ MT!ClientWrites
  BY <1>1, <1>6 DEF MT!PurgeFolders, MT!ReindexPendingBodies, MT!FinishBodyIndexBatch, MT!ClientWrites, MT!background, MT!writing
<1>7. CASE MT!StartCacheMigrations \/ MT!MigrationCommits
  BY <1>1, <1>7 DEF MT!StartCacheMigrations, MT!MigrationCommits, MT!background, MT!writing
<1>8. CASE MT!MigrationsSkipped \/ MT!MigrationsDone
  BY <1>1, <1>8 DEF MT!MigrationsSkipped, MT!MigrationsDone, MT!Resume, MT!Startable, MT!Begin, MT!Revive, MT!background, MT!writing
<1>9. CASE MT!Quit
  BY <1>9 DEF MT!Quit
<1> QED BY <1>2, <1>3, <1>4, <1>5, <1>6, <1>7, <1>8, <1>9 DEF MT!Workers

\* Whoever paused the sync lets it go on in the step in which it ends.
LEMMA SyncStillComesBack ==
    ASSUME MT!SyncComesBack, MT!Workers
    PROVE  MT!SyncComesBack'
<1>1. CASE MT!QueueBodyWrite \/ MT!WriteBatch \/ MT!WriterFinished \/ MT!ReclaimDiskSpace
  BY <1>1 DEF MT!QueueBodyWrite, MT!WriteBatch, MT!WriterFinished, MT!ReclaimDiskSpace, MT!SyncComesBack, MT!Reclaiming, MT!oneTime
<1>2. CASE MT!StartVacuum \/ MT!SwapIn
  BY <1>2 DEF MT!StartVacuum, MT!SwapIn, MT!Resume, MT!SyncComesBack, MT!Reclaiming, MT!oneTime
<1>3. CASE \E ok \in BOOLEAN : MT!Vacuumed(ok)
  BY <1>3 DEF MT!Vacuumed, MT!SyncComesBack, MT!Reclaiming, MT!oneTime
<1>4. ASSUME NEW job \in {"attach", "purge", "folder", "index"},
             MT!Work(job) \/ MT!WorkerEnds(job) \/ MT!StartWorker(job) \/ MT!TooLate(job)
      PROVE  MT!SyncComesBack'
  BY <1>4 DEF MT!Work, MT!WorkerEnds, MT!StartWorker, MT!TooLate, MT!SyncComesBack, MT!Reclaiming, MT!oneTime
<1>5. CASE MT!PurgeFolders \/ MT!ReindexPendingBodies \/ MT!FinishBodyIndexBatch \/ MT!ClientWrites
  BY <1>5 DEF MT!PurgeFolders, MT!ReindexPendingBodies, MT!FinishBodyIndexBatch, MT!ClientWrites, MT!SyncComesBack, MT!Reclaiming, MT!oneTime
<1>6. CASE MT!StartCacheMigrations \/ MT!MigrationCommits
  BY <1>6 DEF MT!StartCacheMigrations, MT!MigrationCommits, MT!SyncComesBack, MT!Reclaiming, MT!oneTime
<1>7. CASE MT!MigrationsSkipped \/ MT!MigrationsDone
  BY <1>7 DEF MT!MigrationsSkipped, MT!MigrationsDone, MT!Resume, MT!SyncComesBack, MT!Reclaiming
<1>8. CASE MT!Quit
  BY <1>8 DEF MT!Quit, MT!SyncComesBack
<1> QED BY <1>1, <1>2, <1>3, <1>4, <1>5, <1>6, <1>7, <1>8 DEF MT!Workers

\* A change made while the thread counts is counted again.
LEMMA PillsStillCatchUp ==
    ASSUME recount \in Counting, MT!PillsCatchUp, MT!Pills
    PROVE  recount' \in Counting /\ MT!PillsCatchUp'
<1> DEFINE rec(t, a, d, b) == [thread |-> t, again |-> a, debounce |-> d, behind |-> b]
           yes == TRUE
           no  == FALSE
<1>1. /\ recount = rec(recount.thread, recount.again, recount.debounce, recount.behind)
      /\ recount.thread \in {"none", "reading", "read", "stale"}
      /\ recount.again \in BOOLEAN /\ recount.debounce \in BOOLEAN /\ recount.behind \in BOOLEAN
  BY DEF Counting
<1>2. \A t, a, d, b : /\ rec(t, a, d, b).thread = t /\ rec(t, a, d, b).again = a
                      /\ rec(t, a, d, b).debounce = d /\ rec(t, a, d, b).behind = b
                      /\ t \in {"none", "reading", "read", "stale"} /\ {a, d, b} \subseteq BOOLEAN
                           => rec(t, a, d, b) \in Counting
  BY DEF Counting
<1>8. \A t, a, d, b, x : /\ [rec(t, a, d, b) EXCEPT !.debounce = x] = rec(t, a, x, b)
                         /\ [rec(t, a, d, b) EXCEPT !.again = x] = rec(t, x, d, b)
                         /\ [rec(t, a, d, b) EXCEPT !.thread = x] = rec(x, a, d, b)
  OBVIOUS
<1>9. \A r, x, y : /\ [r EXCEPT !.debounce = x, !.again = y] = [[r EXCEPT !.debounce = x] EXCEPT !.again = y]
                   /\ [r EXCEPT !.debounce = x, !.thread = y] = [[r EXCEPT !.debounce = x] EXCEPT !.thread = y]
  OBVIOUS
<1>3. recount.behind => recount.debounce \/ recount.again \/ recount.thread \in {"reading", "read"}
  BY DEF MT!PillsCatchUp
<1>4. CASE MT!UnreadChanged
  <2>1. recount' = rec(IF recount.thread = "read" THEN "stale" ELSE recount.thread, recount.again, yes, yes)
    BY <1>1, <1>4 DEF MT!UnreadChanged
  <2> QED BY <1>1, <1>2, <2>1 DEF MT!PillsCatchUp
<1>5. CASE MT!StartUnreadRecount
  <2>1. recount' = IF recount.thread # "none" THEN rec(recount.thread, yes, no, recount.behind)
                   ELSE rec("reading", recount.again, no, recount.behind)
    <3>1. CASE recount.thread # "none"
      <4>1. recount' = [recount EXCEPT !.debounce = no, !.again = yes]
        BY <1>5, <3>1 DEF MT!StartUnreadRecount
      <4> HIDE DEF rec, yes, no
      <4>2. [recount EXCEPT !.debounce = no, !.again = yes] = [[recount EXCEPT !.debounce = no] EXCEPT !.again = yes]
        BY <1>9
      <4>3. [recount EXCEPT !.debounce = no] = rec(recount.thread, recount.again, no, recount.behind)
        BY <1>1, <1>8
      <4>5. [rec(recount.thread, recount.again, no, recount.behind) EXCEPT !.again = yes] = rec(recount.thread, yes, no, recount.behind)
        BY <1>8
      <4>4. [recount EXCEPT !.debounce = no, !.again = yes] = rec(recount.thread, yes, no, recount.behind)
        BY <4>2, <4>3, <4>5, Zenon
      <4> QED BY <3>1, <4>1, <4>4
    <3>2. CASE recount.thread = "none"
      <4>1. recount' = [recount EXCEPT !.debounce = no, !.thread = "reading"]
        BY <1>5, <3>2 DEF MT!StartUnreadRecount
      <4> HIDE DEF rec, yes, no
      <4>2. [recount EXCEPT !.debounce = no, !.thread = "reading"] = [[recount EXCEPT !.debounce = no] EXCEPT !.thread = "reading"]
        BY <1>9
      <4>3. [recount EXCEPT !.debounce = no] = rec(recount.thread, recount.again, no, recount.behind)
        BY <1>1, <1>8
      <4>5. [rec(recount.thread, recount.again, no, recount.behind) EXCEPT !.thread = "reading"] = rec("reading", recount.again, no, recount.behind)
        BY <1>8
      <4>4. [recount EXCEPT !.debounce = no, !.thread = "reading"] = rec("reading", recount.again, no, recount.behind)
        BY <4>2, <4>3, <4>5, Zenon
      <4> QED BY <3>2, <4>1, <4>4
    <3> QED BY <3>1, <3>2
  <2> QED BY <1>1, <1>2, <2>1 DEF MT!PillsCatchUp
<1>6. CASE MT!UnreadRead
  <2>1. recount' = rec("read", recount.again, recount.debounce, recount.behind)
    BY <1>1, <1>6 DEF MT!UnreadRead
  <2> QED BY <1>1, <1>2, <2>1 DEF MT!PillsCatchUp
<1>7. CASE MT!RecountDone
  <2>1. recount' = rec("none", no, recount.debounce \/ recount.again, recount.behind /\ recount.thread = "stale")
    BY <1>1, <1>7 DEF MT!RecountDone
  <2> QED BY <1>1, <1>2, <1>3, <2>1 DEF MT!PillsCatchUp
<1> QED BY <1>4, <1>5, <1>6, <1>7 DEF MT!Pills

LEMMA UpkeepStays ==
    ASSUME UpkeepInv, [MT!Next]_(MT!vars)
    PROVE  UpkeepInv'
<1>1. CASE UNCHANGED MT!vars
  BY <1>1 DEF MT!vars, UpkeepInv, MT!CompactionIsQuiet, MT!WritersIdle, MT!SyncComesBack, MT!Reclaiming, MT!PillsCatchUp
<1>2. CASE MT!Workers
  <2>1. recount' = recount \/ recount' = MT!NoCount
    BY <1>2 DEF MT!Workers, MT!QueueBodyWrite, MT!WriteBatch, MT!WriterFinished, MT!ReclaimDiskSpace, MT!StartVacuum, MT!SwapIn,
                MT!Vacuumed, MT!Work, MT!WorkerEnds, MT!StartWorker, MT!TooLate, MT!PurgeFolders, MT!ReindexPendingBodies,
                MT!FinishBodyIndexBatch, MT!ClientWrites, MT!StartCacheMigrations, MT!MigrationCommits,
                MT!MigrationsSkipped, MT!MigrationsDone, MT!Quit, MT!cvars
  <2>2. recount' \in Counting /\ MT!PillsCatchUp'
    <3>1. MT!NoCount \in Counting /\ ~MT!NoCount.behind
      BY DEF MT!NoCount, Counting
    <3> QED BY <2>1, <3>1 DEF UpkeepInv, MT!PillsCatchUp
  <2> QED BY <1>2, <2>2, CompactionStaysQuiet, SyncStillComesBack DEF UpkeepInv
<1>3. CASE MT!Pills
  <2>1. UNCHANGED <<reclaim, workers, writer, migration, paused>>
    BY <1>3 DEF MT!Pills, MT!UnreadChanged, MT!StartUnreadRecount, MT!UnreadRead, MT!RecountDone, MT!Recounting, MT!writing,
                MT!background, MT!oneTime
  <2>2. MT!CompactionIsQuiet' /\ MT!SyncComesBack'
    BY <2>1 DEF UpkeepInv, MT!CompactionIsQuiet, MT!WritersIdle, MT!SyncComesBack, MT!Reclaiming
  <2> QED BY <1>3, <2>2, PillsStillCatchUp DEF UpkeepInv
<1> QED BY <1>1, <1>2, <1>3 DEF MT!Next

LEMMA UpkeepMeans ==
    ASSUME UpkeepInv
    PROVE  MT!CompactionIsQuiet /\ MT!SyncComesBack /\ MT!PillsCatchUp
BY DEF UpkeepInv

(*****************************************************************************)
(* MG, the one-time migrations (Migrations).  The steps end in their order,  *)
(* so a later one can count on the earlier: once the rows are adopted and    *)
(* the ghosts gone, a body has its row, and what a walk has passed stays     *)
(* right.                                                                    *)
(*****************************************************************************)

OldKey(u)  == <<"old", u>>
AcctKey(u) == <<"acct", u>>

AllSteps == {"legacy_adopt1", "ghost_sweep1", "raw_refetch_29", "body_msgid_heal1",
             "attach_backfill", "junk_hash1"}

\* The tables' types; rows of a scope are dropped with the verdicts made on them.
TablesOK ==
    /\ header \in [MG!Keys -> Letters \cup {NoLetter, Ghost}]
    /\ body \in [MG!Keys -> Letters \cup {NoLetter}] /\ verdict \in [MG!Keys -> Letters \cup {NoLetter}]
    /\ now \in [Uids -> Letters \cup {NoLetter}]
    /\ \A k \in MG!Keys : header[k] = NoLetter => verdict[k] = NoLetter
    /\ \A u \in Uids : MG!Effective(body, u) # NoLetter => MG!Effective(header, u) \in Letters

\* What comes before a step that is done is done; a run has every step that is left,
\* but for the adoption, which is the first to be done unless the history says late.
InOrder ==
    /\ done \subseteq AllSteps /\ launchesTodo \subseteq AllSteps /\ launchesTodo \cap done = {}
    /\ launchesTodo # {} => AllSteps \ {"legacy_adopt1"} \subseteq done \cup launchesTodo
    /\ "raw_refetch_29" \in done => "ghost_sweep1" \in done
    /\ "body_msgid_heal1" \in done => "raw_refetch_29" \in done
    /\ "attach_backfill" \in done => "body_msgid_heal1" \in done
    /\ done # {} /\ ~launchesLate => "legacy_adopt1" \in done

\* What a finished sweep has left.
SweepsHold ==
    /\ "legacy_adopt1" \in done => MG!Old(header) \cup MG!Old(body) = {}
    /\ "ghost_sweep1" \in done /\ ~launchesLate => \A k \in MG!Keys : header[k] # Ghost

\* The body a row's verdicts were made on is the row's, or not yet the row's, or goes with
\* what is recent, or was dropped as a twin.
VerdictsOf ==
    ~launchesLate =>
      /\ "legacy_adopt1" \notin done =>
           \A u \in Uids : verdict[OldKey(u)] \in {NoLetter, body[OldKey(u)]}
      /\ \A u \in Uids : LET k == AcctKey(u) IN
           \/ verdict[k] \in {NoLetter, body[k]} \/ k \in orphaned
           \/ "raw_refetch_29" \notin done /\ header[k] \in Recent
           \/ "legacy_adopt1" \notin done /\ verdict[k] = body[OldKey(u)]

\* What a walk has passed, or all of it once the walk is done.
BeforeHeal  == {"legacy_adopt1", "ghost_sweep1", "raw_refetch_29"}
BeforeClips == BeforeHeal \cup {"body_msgid_heal1"}
Passed(step, before) == IF step \in done THEN MG!Keys
                        ELSE IF step \in launchesTodo /\ before \cap launchesTodo = {} THEN seen ELSE {}
HealOK ==
    ~launchesLate => \A k \in MG!Keys : k \in Passed("body_msgid_heal1", BeforeHeal) => body[k] \in {NoLetter, header[k]} \/ k \in untold
ClipsOK ==
    ~launchesLate => \A k \in MG!Keys : /\ k \in Passed("attach_backfill", BeforeClips)
                            /\ body[k] = header[k] /\ header[k] \in Attached => k \in clip

MigInv == ~aborted /\ TablesOK /\ InOrder /\ SweepsHold /\ VerdictsOf /\ HealOK /\ ClipsOK
-----------------------------------------------------------------------------
LEMMA KeyFacts ==
    /\ \A u \in Uids : OldKey(u) \in MG!Keys /\ AcctKey(u) \in MG!Keys
    /\ \A u, w :
         /\ OldKey(u) # AcctKey(w) /\ MG!Scoped(OldKey(u)) = AcctKey(u)
         /\ OldKey(u) = OldKey(w) => u = w
         /\ AcctKey(u) = AcctKey(w) => u = w
         /\ OldKey(u)[1] = "old" /\ AcctKey(u)[1] = "acct"
    /\ \A k \in MG!Keys : \E u \in Uids : k = OldKey(u) \/ k = AcctKey(u)
BY DEF OldKey, AcctKey, MG!Keys, MG!Scopes, MG!Scoped

LEMMA KeysApart ==
    ASSUME NEW u \in Uids
    PROVE  /\ OldKey(u) \in MG!Keys /\ AcctKey(u) \in MG!Keys /\ OldKey(u) # AcctKey(u)
           /\ MG!Scoped(OldKey(u)) = AcctKey(u)
           /\ \A w \in Uids : OldKey(w) \in MG!Keys /\ AcctKey(w) \in MG!Keys
           /\ \A w \in Uids : OldKey(w) # AcctKey(u) /\ OldKey(u) # AcctKey(w)
           /\ \A w \in Uids : w # u => (OldKey(w) # OldKey(u) /\ AcctKey(w) # AcctKey(u))
BY DEF OldKey, AcctKey, MG!Keys, MG!Scopes, MG!Scoped

LEMMA EffectiveIs ==
    ASSUME NEW t, NEW u
    PROVE  MG!Effective(t, u) = IF t[AcctKey(u)] # NoLetter THEN t[AcctKey(u)] ELSE t[OldKey(u)]
BY DEF MG!Effective, OldKey, AcctKey

LEMMA OldIs ==
    ASSUME NEW t
    PROVE  /\ \A u \in Uids : OldKey(u) \in MG!Old(t) <=> t[OldKey(u)] # NoLetter
           /\ \A k \in MG!Old(t) : k \in MG!Keys /\ t[k] # NoLetter /\ \E u \in Uids : k = OldKey(u)
           /\ MG!Old(t) = {} <=> \A u \in Uids : t[OldKey(u)] = NoLetter
<1>1. \A k : k \in MG!Old(t) <=> k \in MG!Keys /\ t[k] # NoLetter /\ k[1] = "old"
  BY DEF MG!Old, MG!Rows
<1>2. \A u \in Uids : OldKey(u) \in MG!Keys /\ OldKey(u)[1] = "old" /\ AcctKey(u)[1] # "old"
  BY DEF OldKey, AcctKey, MG!Keys, MG!Scopes
<1>3. \A k \in MG!Keys : \E u \in Uids : k = OldKey(u) \/ k = AcctKey(u)
  BY KeyFacts
<1>4. \A u \in Uids : OldKey(u) \in MG!Old(t) <=> t[OldKey(u)] # NoLetter
  BY <1>1, <1>2
<1>5. \A k \in MG!Old(t) : k \in MG!Keys /\ t[k] # NoLetter /\ \E u \in Uids : k = OldKey(u)
  BY <1>1, <1>2, <1>3
<1> QED BY <1>4, <1>5

LEMMA MovedIs ==
    ASSUME NEW T, NEW t \in [MG!Keys -> T], NoLetter \in T, NEW u \in Uids
    PROVE  /\ MG!Moved(t, OldKey(u)) \in [MG!Keys -> T]
           /\ MG!Moved(t, OldKey(u))[OldKey(u)] = NoLetter
           /\ MG!Moved(t, OldKey(u))[AcctKey(u)] = t[OldKey(u)]
           /\ \A k \in MG!Keys : k # OldKey(u) /\ k # AcctKey(u) => MG!Moved(t, OldKey(u))[k] = t[k]
<1>1. MG!Moved(t, OldKey(u)) = [t EXCEPT ![OldKey(u)] = NoLetter, ![AcctKey(u)] = t[OldKey(u)]]
  <2>1. MG!Scoped(OldKey(u)) = AcctKey(u)
    BY DEF OldKey, AcctKey, MG!Scoped
  <2> QED BY <2>1, Zenon DEF MG!Moved
<1>2. OldKey(u) \in MG!Keys /\ AcctKey(u) \in MG!Keys /\ OldKey(u) # AcctKey(u)
  BY DEF OldKey, AcctKey, MG!Keys, MG!Scopes
<1> QED BY <1>1, <1>2

\* ... of the tables.
LEMMA ErasedTables ==
    ASSUME NEW k \in MG!Keys
    PROVE  /\ header \in [MG!Keys -> Letters \cup {NoLetter, Ghost}] =>
                /\ MG!Erase(header, {k}) \in [MG!Keys -> Letters \cup {NoLetter, Ghost}]
                /\ \A q \in MG!Keys : MG!Erase(header, {k})[q] = IF q = k THEN NoLetter ELSE header[q]
           /\ \A t \in [MG!Keys -> Letters \cup {NoLetter}] :
                /\ MG!Erase(t, {k}) \in [MG!Keys -> Letters \cup {NoLetter}]
                /\ \A q \in MG!Keys : MG!Erase(t, {k})[q] = IF q = k THEN NoLetter ELSE t[q]
<1> DEFINE H == Letters \cup {NoLetter, Ghost}
           B == Letters \cup {NoLetter}
<1>1. NoLetter \in H /\ NoLetter \in B
  OBVIOUS
<1> HIDE DEF H, B
<1>2. header \in [MG!Keys -> H] => /\ MG!Erase(header, {k}) \in [MG!Keys -> H]
                               /\ \A q \in MG!Keys : MG!Erase(header, {k})[q] = IF q = k THEN NoLetter ELSE header[q]
  BY <1>1 DEF MG!Erase
<1>3. ASSUME NEW t \in [MG!Keys -> B]
      PROVE  /\ MG!Erase(t, {k}) \in [MG!Keys -> B]
             /\ \A q \in MG!Keys : MG!Erase(t, {k})[q] = IF q = k THEN NoLetter ELSE t[q]
  BY <1>1 DEF MG!Erase
<1> USE DEF H, B
<1> QED BY <1>2, <1>3

LEMMA MovedTables ==
    ASSUME NEW u \in Uids
    PROVE  /\ header \in [MG!Keys -> Letters \cup {NoLetter, Ghost}] =>
                /\ MG!Moved(header, OldKey(u)) \in [MG!Keys -> Letters \cup {NoLetter, Ghost}]
                /\ MG!Moved(header, OldKey(u))[OldKey(u)] = NoLetter
                /\ MG!Moved(header, OldKey(u))[AcctKey(u)] = header[OldKey(u)]
                /\ \A q \in MG!Keys : q # OldKey(u) /\ q # AcctKey(u) => MG!Moved(header, OldKey(u))[q] = header[q]
           /\ \A t \in [MG!Keys -> Letters \cup {NoLetter}] :
                /\ MG!Moved(t, OldKey(u)) \in [MG!Keys -> Letters \cup {NoLetter}]
                /\ MG!Moved(t, OldKey(u))[OldKey(u)] = NoLetter
                /\ MG!Moved(t, OldKey(u))[AcctKey(u)] = t[OldKey(u)]
                /\ \A q \in MG!Keys : q # OldKey(u) /\ q # AcctKey(u) => MG!Moved(t, OldKey(u))[q] = t[q]
<1> DEFINE H == Letters \cup {NoLetter, Ghost}
           B == Letters \cup {NoLetter}
<1>1. NoLetter \in H /\ NoLetter \in B
  OBVIOUS
<1> HIDE DEF H, B
<1>2. header \in [MG!Keys -> H] =>
                /\ MG!Moved(header, OldKey(u)) \in [MG!Keys -> H]
                /\ MG!Moved(header, OldKey(u))[OldKey(u)] = NoLetter
                /\ MG!Moved(header, OldKey(u))[AcctKey(u)] = header[OldKey(u)]
                /\ \A q \in MG!Keys : q # OldKey(u) /\ q # AcctKey(u) => MG!Moved(header, OldKey(u))[q] = header[q]
  BY <1>1, MovedIs
<1>3. ASSUME NEW t \in [MG!Keys -> B]
      PROVE  /\ MG!Moved(t, OldKey(u)) \in [MG!Keys -> B]
             /\ MG!Moved(t, OldKey(u))[OldKey(u)] = NoLetter
             /\ MG!Moved(t, OldKey(u))[AcctKey(u)] = t[OldKey(u)]
             /\ \A q \in MG!Keys : q # OldKey(u) /\ q # AcctKey(u) => MG!Moved(t, OldKey(u))[q] = t[q]
  BY <1>1, MovedIs
<1> USE DEF H, B
<1> QED BY <1>2, <1>3

LEMMA StepsAre ==
    /\ {MG!Steps[n] : n \in DOMAIN MG!Steps} = AllSteps
    /\ MG!At("legacy_adopt1") <=> "legacy_adopt1" \in launchesTodo
    /\ MG!At("ghost_sweep1") <=> "ghost_sweep1" \in launchesTodo /\ "legacy_adopt1" \notin launchesTodo
    /\ MG!At("raw_refetch_29") <=>
         "raw_refetch_29" \in launchesTodo /\ {"legacy_adopt1", "ghost_sweep1"} \cap launchesTodo = {}
    /\ MG!At("body_msgid_heal1") <=>
         "body_msgid_heal1" \in launchesTodo /\ {"legacy_adopt1", "ghost_sweep1", "raw_refetch_29"} \cap launchesTodo = {}
    /\ MG!At("attach_backfill") <=>
         /\ "attach_backfill" \in launchesTodo
         /\ {"legacy_adopt1", "ghost_sweep1", "raw_refetch_29", "body_msgid_heal1"} \cap launchesTodo = {}
    /\ MG!At("junk_hash1") <=> "junk_hash1" \in launchesTodo /\ (AllSteps \ {"junk_hash1"}) \cap launchesTodo = {}
    /\ \A step : MG!At(step) => step \in launchesTodo
<1>1. DOMAIN MG!Steps = 1 .. 6
  BY DEF MG!Steps
<1>2. /\ MG!Steps[1] = "legacy_adopt1" /\ MG!Steps[2] = "ghost_sweep1" /\ MG!Steps[3] = "raw_refetch_29"
      /\ MG!Steps[4] = "body_msgid_heal1" /\ MG!Steps[5] = "attach_backfill" /\ MG!Steps[6] = "junk_hash1"
  BY DEF MG!Steps
<1>3. {MG!Steps[n] : n \in DOMAIN MG!Steps} = AllSteps
  BY <1>1, <1>2 DEF AllSteps
<1>4. \A step : MG!At(step) <=> \E n \in 1 .. 6 : /\ step = MG!Steps[n] /\ step \in launchesTodo
                                           /\ \A i \in 1 .. n - 1 : MG!Steps[i] \notin launchesTodo
  BY <1>1 DEF MG!At
<1>5. MG!At("legacy_adopt1") <=> "legacy_adopt1" \in launchesTodo
  <2>1. 1 \in 1 .. 6 /\ 1 .. 1 - 1 = {}
    OBVIOUS
  <2> QED BY <1>2, <1>4, <2>1
<1>6. MG!At("ghost_sweep1") <=> "ghost_sweep1" \in launchesTodo /\ "legacy_adopt1" \notin launchesTodo
  <2>1. 2 \in 1 .. 6 /\ 1 .. 2 - 1 = {1}
    OBVIOUS
  <2>2. \A n \in 1 .. 6 : MG!Steps[n] = "ghost_sweep1" <=> n = 2
    BY <1>2
  <2> QED BY <1>2, <1>4, <2>1, <2>2
<1>7. MG!At("raw_refetch_29") <=>
         "raw_refetch_29" \in launchesTodo /\ {"legacy_adopt1", "ghost_sweep1"} \cap launchesTodo = {}
  <2>1. 3 \in 1 .. 6 /\ 1 .. 3 - 1 = {1, 2}
    OBVIOUS
  <2>2. \A n \in 1 .. 6 : MG!Steps[n] = "raw_refetch_29" <=> n = 3
    BY <1>2
  <2> QED BY <1>2, <1>4, <2>1, <2>2
<1>8. MG!At("body_msgid_heal1") <=>
         "body_msgid_heal1" \in launchesTodo /\ {"legacy_adopt1", "ghost_sweep1", "raw_refetch_29"} \cap launchesTodo = {}
  <2>1. 4 \in 1 .. 6 /\ 1 .. 4 - 1 = {1, 2, 3}
    OBVIOUS
  <2>2. \A n \in 1 .. 6 : MG!Steps[n] = "body_msgid_heal1" <=> n = 4
    BY <1>2
  <2> QED BY <1>2, <1>4, <2>1, <2>2
<1>9. MG!At("attach_backfill") <=>
         /\ "attach_backfill" \in launchesTodo
         /\ {"legacy_adopt1", "ghost_sweep1", "raw_refetch_29", "body_msgid_heal1"} \cap launchesTodo = {}
  <2>1. 5 \in 1 .. 6 /\ 1 .. 5 - 1 = {1, 2, 3, 4}
    OBVIOUS
  <2>2. \A n \in 1 .. 6 : MG!Steps[n] = "attach_backfill" <=> n = 5
    BY <1>2
  <2> QED BY <1>2, <1>4, <2>1, <2>2
<1>10. MG!At("junk_hash1") <=> "junk_hash1" \in launchesTodo /\ (AllSteps \ {"junk_hash1"}) \cap launchesTodo = {}
  <2>1. 6 \in 1 .. 6 /\ 1 .. 6 - 1 = {1, 2, 3, 4, 5}
    OBVIOUS
  <2>2. \A n \in 1 .. 6 : MG!Steps[n] = "junk_hash1" <=> n = 6
    BY <1>2
  <2>3. AllSteps \ {"junk_hash1"} = {MG!Steps[1], MG!Steps[2], MG!Steps[3], MG!Steps[4], MG!Steps[5]}
    BY <1>2 DEF AllSteps
  <2> QED BY <1>2, <1>4, <2>1, <2>2, <2>3
<1> QED BY <1>3, <1>4, <1>5, <1>6, <1>7, <1>8, <1>9, <1>10
-----------------------------------------------------------------------------
LEMMA MigStarts ==
    ASSUME MG!MigrationsAssumption, MG!Init
    PROVE  MigInv
<1>1. PICK c \in Caches : header = c.header /\ body = c.body
  BY DEF MG!Init
<1>2. /\ header \in [MG!Keys -> Letters \cup {NoLetter, Ghost}] /\ body \in [MG!Keys -> Letters \cup {NoLetter}]
      /\ \A u \in Uids : MG!Effective(body, u) # NoLetter => MG!Effective(header, u) \in Letters
      /\ now \in [Uids -> Letters \cup {NoLetter}]
  BY <1>1 DEF MG!MigrationsAssumption, MG!Init
<1>3. \A k \in MG!Keys : verdict[k] = IF header[k] = NoLetter THEN NoLetter ELSE body[k]
  BY DEF MG!Init
<1>4. verdict \in [MG!Keys -> Letters \cup {NoLetter}]
  BY <1>2 DEF MG!Init
<1>5. TablesOK
  BY <1>2, <1>3, <1>4 DEF TablesOK
<1>6. done = {} /\ launchesTodo = {} /\ ~aborted
  BY DEF MG!Init
<1>7. InOrder /\ SweepsHold /\ HealOK /\ ClipsOK
  BY <1>6 DEF InOrder, SweepsHold, HealOK, ClipsOK, Passed
<1>8. VerdictsOf
  BY <1>3, KeyFacts DEF VerdictsOf
<1> QED BY <1>5, <1>6, <1>7, <1>8 DEF MigInv

\* The run begins, is cut short, or goes on to its next step.
LEMMA LaunchKeepsMig ==
    ASSUME MigInv, NEW local \in BOOLEAN, MG!Launch(local)
    PROVE  MigInv'
<1>1. UNCHANGED <<header, body, verdict, clip, done, aborted, launchesLate, orphaned, untold, now>> /\ seen' = {}
  BY DEF MG!Launch, MG!tables, MG!history
<1>2. launchesTodo' = AllSteps \ (done \cup (IF local THEN {"legacy_adopt1"} ELSE {}))
  BY StepsAre DEF MG!Launch
<1>3. TablesOK' /\ SweepsHold' /\ VerdictsOf' /\ ~aborted'
  BY <1>1 DEF MigInv, TablesOK, SweepsHold, VerdictsOf, MG!Old, MG!Rows, MG!Effective
<1>4. InOrder'
  BY <1>1, <1>2 DEF MigInv, InOrder
<1>5. HealOK' /\ ClipsOK'
  BY <1>1 DEF MigInv, HealOK, ClipsOK, Passed
<1> QED BY <1>3, <1>4, <1>5 DEF MigInv

LEMMA QuitKeepsMig ==
    ASSUME MigInv, MG!Quit
    PROVE  MigInv'
<1>1. UNCHANGED <<header, body, verdict, clip, done, aborted, launchesLate, orphaned, untold, now>> /\ launchesTodo' = {}
  BY DEF MG!Quit, MG!tables, MG!bound, MG!history
<1>2. TablesOK' /\ SweepsHold' /\ VerdictsOf' /\ ~aborted'
  BY <1>1 DEF MigInv, TablesOK, SweepsHold, VerdictsOf, MG!Old, MG!Rows, MG!Effective
<1>3. InOrder'
  BY <1>1 DEF MigInv, InOrder
<1>4. HealOK' /\ ClipsOK'
  BY <1>1 DEF MigInv, HealOK, ClipsOK, Passed
<1> QED BY <1>2, <1>3, <1>4 DEF MigInv

\* A step is flagged: what it swept or walked is all there is.
LEMMA FinishKeepsMig ==
    ASSUME MigInv, NEW step \in AllSteps, MG!At(step), MG!Finish(step),
           step = "legacy_adopt1" => MG!Old(header) \cup MG!Old(body) = {},
           step = "ghost_sweep1" => \A k \in MG!Keys : header[k] # Ghost,
           step = "raw_refetch_29" => \A k \in MG!Keys : verdict[k] # NoLetter => header[k] \notin Recent,
           step = "body_msgid_heal1" /\ ~launchesLate => \A k \in MG!Keys : body[k] # NoLetter => k \in seen,
           step = "attach_backfill" => \A k \in MG!Keys : body[k] # NoLetter => k \in seen,
           NoLetter \notin Attached
    PROVE  MigInv'
<1>1. UNCHANGED <<header, body, verdict, clip, aborted, orphaned, untold, now>>
  BY DEF MG!Finish, MG!tables, MG!bound, MG!history
<1>2. /\ done' = done \cup {step} /\ launchesTodo' = launchesTodo \ {step} /\ seen' = {} /\ step \in launchesTodo
      /\ launchesLate' = (launchesLate \/ (step # "legacy_adopt1" /\ "legacy_adopt1" \notin done))
  BY StepsAre DEF MG!Finish
<1>3. TablesOK' /\ ~aborted'
  BY <1>1 DEF MigInv, TablesOK, MG!Effective
<1>4. /\ step = "raw_refetch_29" => "ghost_sweep1" \in done
      /\ step = "body_msgid_heal1" => "raw_refetch_29" \in done
      /\ step = "attach_backfill" => "body_msgid_heal1" \in done
  BY <1>2, StepsAre DEF MigInv, InOrder, AllSteps
<1>5. InOrder'
  BY <1>2, <1>4 DEF MigInv, InOrder
<1>6. SweepsHold'
  BY <1>1, <1>2 DEF MigInv, SweepsHold, MG!Old, MG!Rows
<1>7. VerdictsOf'
  <2> SUFFICES ASSUME ~launchesLate' PROVE VerdictsOf'
    BY DEF VerdictsOf
  <2>1. ~launchesLate
    BY <1>2
  <2>2. "legacy_adopt1" \notin done' =>
           \A u \in Uids : verdict[OldKey(u)] \in {NoLetter, body[OldKey(u)]}
    BY <1>2, <2>1 DEF MigInv, VerdictsOf
  <2>3. ASSUME NEW u \in Uids
        PROVE  \/ verdict[AcctKey(u)] \in {NoLetter, body[AcctKey(u)]} \/ AcctKey(u) \in orphaned
               \/ "raw_refetch_29" \notin done' /\ header[AcctKey(u)] \in Recent
               \/ "legacy_adopt1" \notin done' /\ verdict[AcctKey(u)] = body[OldKey(u)]
    <3>1. \/ verdict[AcctKey(u)] \in {NoLetter, body[AcctKey(u)]} \/ AcctKey(u) \in orphaned
          \/ "raw_refetch_29" \notin done /\ header[AcctKey(u)] \in Recent
          \/ "legacy_adopt1" \notin done /\ verdict[AcctKey(u)] = body[OldKey(u)]
      BY <2>1 DEF MigInv, VerdictsOf
    <3>2. AcctKey(u) \in MG!Keys
      BY KeyFacts
    <3>3. step = "legacy_adopt1" => body[OldKey(u)] = NoLetter
      BY OldIs
    <3> QED BY <1>2, <3>1, <3>2, <3>3
  <2> QED BY <1>1, <2>2, <2>3 DEF VerdictsOf
<1>8. HealOK'
  <2> SUFFICES ASSUME ~launchesLate', NEW k \in MG!Keys, (k \in Passed("body_msgid_heal1", BeforeHeal))'
               PROVE  body[k] \in {NoLetter, header[k]} \/ k \in untold
    BY <1>1 DEF HealOK
  <2>1. ~launchesLate /\ "body_msgid_heal1" \in done'
    BY <1>2 DEF Passed
  <2>2. step = "body_msgid_heal1" => (k \in Passed("body_msgid_heal1", BeforeHeal) \/ body[k] = NoLetter)
    BY <1>2, <2>1, StepsAre DEF Passed, BeforeHeal, MigInv, InOrder
  <2>3. step # "body_msgid_heal1" => k \in Passed("body_msgid_heal1", BeforeHeal)
    BY <1>2, <2>1 DEF Passed
  <2> QED BY <2>1, <2>2, <2>3 DEF MigInv, HealOK
<1>9. ClipsOK'
  <2> SUFFICES ASSUME ~launchesLate', NEW k \in MG!Keys, (k \in Passed("attach_backfill", BeforeClips))',
                      body[k] = header[k], header[k] \in Attached
               PROVE  k \in clip
    BY <1>1 DEF ClipsOK
  <2>1. ~launchesLate /\ "attach_backfill" \in done'
    BY <1>2 DEF Passed
  <2>2. step = "attach_backfill" => (k \in Passed("attach_backfill", BeforeClips) \/ body[k] = NoLetter)
    BY <1>2, <2>1, StepsAre DEF Passed, BeforeClips, BeforeHeal, MigInv, InOrder
  <2>3. step # "attach_backfill" => k \in Passed("attach_backfill", BeforeClips)
    BY <1>2, <2>1 DEF Passed
  <2> QED BY <2>1, <2>2, <2>3 DEF MigInv, ClipsOK
<1> QED BY <1>3, <1>5, <1>6, <1>7, <1>8, <1>9 DEF MigInv
-----------------------------------------------------------------------------
\* While rows are adopted nothing is done, unless the adoption is late.
LEMMA NothingDone ==
    ASSUME MigInv, MG!At("legacy_adopt1"),
           UNCHANGED <<done, launchesTodo, seen, aborted, launchesLate, untold>>
    PROVE  /\ ~aborted' /\ InOrder' /\ "legacy_adopt1" \notin done
           /\ SweepsHold' /\ HealOK' /\ ClipsOK'
<1>1. "legacy_adopt1" \in launchesTodo /\ "legacy_adopt1" \notin done /\ (~launchesLate => done = {})
  BY StepsAre DEF MigInv, InOrder
<1>2. InOrder' /\ ~aborted'
  BY DEF MigInv, InOrder
<1>3. SweepsHold'
  BY <1>1 DEF SweepsHold
<1>4. HealOK' /\ ClipsOK'
  BY <1>1 DEF HealOK, ClipsOK, Passed, BeforeHeal, BeforeClips
<1> QED BY <1>1, <1>2, <1>3, <1>4

\* The parts of the invariant that look at one table alone.
LEMMA TablesFrom ==
    ASSUME header' \in [MG!Keys -> Letters \cup {NoLetter, Ghost}], body' \in [MG!Keys -> Letters \cup {NoLetter}],
           verdict' \in [MG!Keys -> Letters \cup {NoLetter}], now' \in [Uids -> Letters \cup {NoLetter}],
           \A k \in MG!Keys : header'[k] = NoLetter => verdict'[k] = NoLetter,
           \A u \in Uids : (body'[AcctKey(u)] # NoLetter \/ body'[OldKey(u)] # NoLetter) =>
              IF header'[AcctKey(u)] # NoLetter THEN header'[AcctKey(u)] \in Letters
              ELSE header'[OldKey(u)] \in Letters
    PROVE  TablesOK'
<1>1. \A u \in Uids : (MG!Effective(body, u) # NoLetter => MG!Effective(header, u) \in Letters)'
  <2> SUFFICES ASSUME NEW u \in Uids PROVE (MG!Effective(body, u) # NoLetter => MG!Effective(header, u) \in Letters)'
    OBVIOUS
  <2>1. MG!Effective(body, u)' = (IF body'[AcctKey(u)] # NoLetter THEN body'[AcctKey(u)] ELSE body'[OldKey(u)])
    BY DEF MG!Effective, OldKey, AcctKey
  <2>2. MG!Effective(header, u)' = (IF header'[AcctKey(u)] # NoLetter THEN header'[AcctKey(u)] ELSE header'[OldKey(u)])
    BY DEF MG!Effective, OldKey, AcctKey
  <2> QED BY <2>1, <2>2
<1> QED BY <1>1 DEF TablesOK

LEMMA TablesSay ==
    ASSUME TablesOK
    PROVE  /\ header \in [MG!Keys -> Letters \cup {NoLetter, Ghost}] /\ body \in [MG!Keys -> Letters \cup {NoLetter}]
           /\ verdict \in [MG!Keys -> Letters \cup {NoLetter}] /\ now \in [Uids -> Letters \cup {NoLetter}]
           /\ \A k \in MG!Keys : header[k] = NoLetter => verdict[k] = NoLetter
           /\ \A u \in Uids : (body[AcctKey(u)] # NoLetter \/ body[OldKey(u)] # NoLetter) =>
                IF header[AcctKey(u)] # NoLetter THEN header[AcctKey(u)] \in Letters
                ELSE header[OldKey(u)] \in Letters
<1>1. \A u \in Uids : (body[AcctKey(u)] # NoLetter \/ body[OldKey(u)] # NoLetter) =>
                IF header[AcctKey(u)] # NoLetter THEN header[AcctKey(u)] \in Letters
                ELSE header[OldKey(u)] \in Letters
  BY EffectiveIs DEF TablesOK
<1> QED BY <1>1 DEF TablesOK

LEMMA AdoptKeepsMig ==
    ASSUME MG!MigrationsAssumption, MigInv, NEW k \in MG!Keys, MG!Adopt(k)
    PROVE  MigInv'
<1>1. UNCHANGED <<done, launchesTodo, seen, aborted, launchesLate, untold, now>> /\ MG!At("legacy_adopt1")
  BY DEF MG!Adopt, MG!Adopting, MG!bound
<1>2. /\ ~aborted' /\ InOrder' /\ SweepsHold' /\ HealOK' /\ ClipsOK' /\ "legacy_adopt1" \notin done
  BY <1>1, NothingDone
<1>3. TablesOK /\ VerdictsOf
  BY DEF MigInv
<1>a. /\ header \in [MG!Keys -> Letters \cup {NoLetter, Ghost}] /\ body \in [MG!Keys -> Letters \cup {NoLetter}]
      /\ verdict \in [MG!Keys -> Letters \cup {NoLetter}] /\ now \in [Uids -> Letters \cup {NoLetter}]
      /\ \A q \in MG!Keys : header[q] = NoLetter => verdict[q] = NoLetter
      /\ \A w \in Uids : (body[AcctKey(w)] # NoLetter \/ body[OldKey(w)] # NoLetter) =>
           IF header[AcctKey(w)] # NoLetter THEN header[AcctKey(w)] \in Letters
           ELSE header[OldKey(w)] \in Letters
  BY <1>3, TablesSay
<1>4. PICK u \in Uids : k = OldKey(u)
  BY OldIs DEF MG!Adopt, MG!Table
<1>5. /\ OldKey(u) \in MG!Keys /\ AcctKey(u) \in MG!Keys /\ OldKey(u) # AcctKey(u) /\ MG!Scoped(k) = AcctKey(u)
      /\ \A w \in Uids : OldKey(w) \in MG!Keys /\ AcctKey(w) \in MG!Keys
      /\ \A w \in Uids : OldKey(w) # AcctKey(u) /\ OldKey(u) # AcctKey(w)
      /\ \A w \in Uids : w # u => (OldKey(w) # OldKey(u) /\ AcctKey(w) # AcctKey(u))
  BY <1>4, KeysApart
<1>7. CASE /\ k \in MG!Old(header) /\ MG!Taken(k) /\ header' = MG!Erase(header, {k}) /\ verdict' = MG!Erase(verdict, {k})
           /\ UNCHANGED <<body, orphaned>>
  <2>1. header[AcctKey(u)] # NoLetter
    BY <1>5, <1>7 DEF MG!Taken, MG!Rows
  <2>2. /\ \A q \in MG!Keys : header'[q] = (IF q = k THEN NoLetter ELSE header[q])
        /\ \A q \in MG!Keys : verdict'[q] = (IF q = k THEN NoLetter ELSE verdict[q])
        /\ header' \in [MG!Keys -> Letters \cup {NoLetter, Ghost}] /\ verdict' \in [MG!Keys -> Letters \cup {NoLetter}]
    BY <1>a, <1>3, <1>7, ErasedTables
  <2>3. TablesOK'
    <3>1. \A q \in MG!Keys : header'[q] = NoLetter => verdict'[q] = NoLetter
      BY <1>a, <1>3, <2>2
    <3>2. ASSUME NEW w \in Uids, body'[AcctKey(w)] # NoLetter \/ body'[OldKey(w)] # NoLetter
          PROVE  IF header'[AcctKey(w)] # NoLetter THEN header'[AcctKey(w)] \in Letters
                 ELSE header'[OldKey(w)] \in Letters
      BY <1>a, <1>3, <1>4, <1>5, <1>7, <2>1, <2>2, <3>2
    <3> QED BY <1>1, <1>a, <1>3, <1>7, <2>2, <3>1, <3>2, TablesFrom
  <2>4. VerdictsOf'
    BY <1>1, <1>2, <1>a, <1>3, <1>4, <1>5, <1>7, <2>2 DEF VerdictsOf
  <2> QED BY <1>2, <2>3, <2>4 DEF MigInv
<1>8. CASE /\ k \in MG!Old(body) /\ MG!Old(header) = {} /\ MG!Taken(k) /\ body' = MG!Erase(body, {k})
           /\ orphaned' = orphaned \cup {q \in {MG!Scoped(k)} : verdict[q] = body[k] /\ body[q] # body[k]}
           /\ UNCHANGED <<header, verdict>>
  <2>1. body[AcctKey(u)] # NoLetter /\ \A w \in Uids : header[OldKey(w)] = NoLetter
    BY <1>5, <1>8, OldIs DEF MG!Taken, MG!Rows
  <2>2. /\ \A q \in MG!Keys : body'[q] = (IF q = k THEN NoLetter ELSE body[q])
        /\ body' \in [MG!Keys -> Letters \cup {NoLetter}]
    BY <1>a, <1>3, <1>8, ErasedTables
  <2>3. TablesOK'
    <3>2. ASSUME NEW w \in Uids, body'[AcctKey(w)] # NoLetter \/ body'[OldKey(w)] # NoLetter
          PROVE  IF header'[AcctKey(w)] # NoLetter THEN header'[AcctKey(w)] \in Letters
                 ELSE header'[OldKey(w)] \in Letters
      BY <1>a, <1>3, <1>4, <1>5, <1>8, <2>1, <2>2, <3>2
    <3> QED BY <1>1, <1>a, <1>3, <1>8, <2>2, <3>2, TablesFrom
  <2>4. VerdictsOf'
    <3> SUFFICES ASSUME ~launchesLate PROVE VerdictsOf'
      BY <1>1 DEF VerdictsOf
    <3>1. ASSUME NEW w \in Uids PROVE verdict'[OldKey(w)] = NoLetter
      BY <1>a, <1>3, <1>5, <1>8, <2>1, <3>1
    <3>2. ASSUME NEW w \in Uids
          PROVE  \/ verdict[AcctKey(w)] \in {NoLetter, body'[AcctKey(w)]} \/ AcctKey(w) \in orphaned'
                 \/ "raw_refetch_29" \notin done /\ header[AcctKey(w)] \in Recent
                 \/ "legacy_adopt1" \notin done /\ verdict[AcctKey(w)] = body'[OldKey(w)]
      <4>1. \/ verdict[AcctKey(w)] \in {NoLetter, body[AcctKey(w)]} \/ AcctKey(w) \in orphaned
            \/ "raw_refetch_29" \notin done /\ header[AcctKey(w)] \in Recent
            \/ "legacy_adopt1" \notin done /\ verdict[AcctKey(w)] = body[OldKey(w)]
        BY <1>a, <1>3, <3>2 DEF VerdictsOf
      <4>2. body'[AcctKey(w)] = body[AcctKey(w)]
        BY <1>4, <1>5, <2>2, <3>2
      <4>3. w # u => body'[OldKey(w)] = body[OldKey(w)]
        BY <1>4, <1>5, <2>2, <3>2
      <4>4. w = u /\ verdict[AcctKey(w)] = body[OldKey(w)] /\ body[AcctKey(w)] # body[OldKey(w)]
              => AcctKey(w) \in orphaned'
        BY <1>4, <1>5, <1>8
      <4> QED BY <1>8, <4>1, <4>2, <4>3, <4>4
    <3> QED BY <1>1, <1>8, <3>1, <3>2 DEF VerdictsOf
  <2> QED BY <1>2, <2>3, <2>4 DEF MigInv
<1>9. CASE /\ k \in MG!Old(header) /\ ~MG!Taken(k) /\ header' = MG!Moved(header, k) /\ verdict' = MG!Moved(verdict, k)
           /\ UNCHANGED <<body, orphaned>>
  <2>1. header[AcctKey(u)] = NoLetter /\ header[k] # NoLetter
    BY <1>5, <1>9, OldIs DEF MG!Taken, MG!Rows
  <2>2. /\ header' \in [MG!Keys -> Letters \cup {NoLetter, Ghost}]
        /\ header'[k] = NoLetter /\ header'[AcctKey(u)] = header[k]
        /\ \A q \in MG!Keys : q # k /\ q # AcctKey(u) => header'[q] = header[q]
    BY <1>a, <1>3, <1>4, <1>9, MovedTables
  <2>3. /\ verdict' \in [MG!Keys -> Letters \cup {NoLetter}]
        /\ verdict'[k] = NoLetter /\ verdict'[AcctKey(u)] = verdict[k]
        /\ \A q \in MG!Keys : q # k /\ q # AcctKey(u) => verdict'[q] = verdict[q]
    BY <1>a, <1>3, <1>4, <1>9, MovedTables
  <2>4. TablesOK'
    <3>1. \A q \in MG!Keys : header'[q] = NoLetter => verdict'[q] = NoLetter
      BY <1>a, <1>3, <1>4, <2>1, <2>2, <2>3
    <3>2. ASSUME NEW w \in Uids, body'[AcctKey(w)] # NoLetter \/ body'[OldKey(w)] # NoLetter
          PROVE  IF header'[AcctKey(w)] # NoLetter THEN header'[AcctKey(w)] \in Letters
                 ELSE header'[OldKey(w)] \in Letters
      <4>1. CASE w = u
        BY <1>a, <1>3, <1>4, <1>9, <2>1, <2>2, <3>2, <4>1
      <4>2. CASE w # u
        BY <1>a, <1>3, <1>4, <1>5, <1>9, <2>2, <3>2, <4>2
      <4> QED BY <4>1, <4>2
    <3> QED BY <1>1, <1>a, <1>3, <1>9, <2>2, <2>3, <3>1, <3>2, TablesFrom
  <2>5. VerdictsOf'
    <3> SUFFICES ASSUME ~launchesLate PROVE VerdictsOf'
      BY <1>1 DEF VerdictsOf
    <3>1. ASSUME NEW w \in Uids PROVE verdict'[OldKey(w)] \in {NoLetter, body[OldKey(w)]}
      BY <1>2, <1>a, <1>3, <1>4, <1>5, <2>3, <3>1 DEF VerdictsOf
    <3>2. ASSUME NEW w \in Uids
          PROVE  \/ verdict'[AcctKey(w)] \in {NoLetter, body[AcctKey(w)]} \/ AcctKey(w) \in orphaned
                 \/ "raw_refetch_29" \notin done /\ header'[AcctKey(w)] \in Recent
                 \/ "legacy_adopt1" \notin done /\ verdict'[AcctKey(w)] = body[OldKey(w)]
      <4>1. CASE w = u
        BY <1>2, <1>a, <1>3, <1>4, <2>3, <4>1 DEF VerdictsOf
      <4>2. CASE w # u
        BY <1>a, <1>3, <1>4, <1>5, <2>2, <2>3, <3>2, <4>2 DEF VerdictsOf
      <4> QED BY <4>1, <4>2
    <3> QED BY <1>1, <1>9, <3>1, <3>2 DEF VerdictsOf
  <2> QED BY <1>2, <2>4, <2>5 DEF MigInv
<1>10. CASE /\ k \in MG!Old(body) /\ MG!Old(header) = {} /\ ~MG!Taken(k) /\ body' = MG!Moved(body, k)
            /\ UNCHANGED <<header, verdict, orphaned>>
  <2>1. body[AcctKey(u)] = NoLetter /\ \A w \in Uids : header[OldKey(w)] = NoLetter
    BY <1>5, <1>10, OldIs DEF MG!Taken, MG!Rows
  <2>2. /\ body' \in [MG!Keys -> Letters \cup {NoLetter}]
        /\ body'[k] = NoLetter /\ body'[AcctKey(u)] = body[k]
        /\ \A q \in MG!Keys : q # k /\ q # AcctKey(u) => body'[q] = body[q]
    BY <1>a, <1>3, <1>4, <1>10, MovedTables
  <2>3. TablesOK'
    <3>2. ASSUME NEW w \in Uids, body'[AcctKey(w)] # NoLetter \/ body'[OldKey(w)] # NoLetter
          PROVE  IF header'[AcctKey(w)] # NoLetter THEN header'[AcctKey(w)] \in Letters
                 ELSE header'[OldKey(w)] \in Letters
      <4>1. CASE w = u
        BY <1>a, <1>3, <1>4, <1>10, <2>1, <2>2, <3>2, <4>1
      <4>2. CASE w # u
        BY <1>a, <1>3, <1>4, <1>5, <1>10, <2>2, <3>2, <4>2
      <4> QED BY <4>1, <4>2
    <3> QED BY <1>1, <1>a, <1>3, <1>10, <2>2, <3>2, TablesFrom
  <2>4. VerdictsOf'
    <3> SUFFICES ASSUME ~launchesLate PROVE VerdictsOf'
      BY <1>1 DEF VerdictsOf
    <3>1. ASSUME NEW w \in Uids PROVE verdict'[OldKey(w)] = NoLetter
      BY <1>a, <1>3, <1>5, <1>10, <2>1, <3>1
    <3>2. ASSUME NEW w \in Uids
          PROVE  \/ verdict[AcctKey(w)] \in {NoLetter, body'[AcctKey(w)]} \/ AcctKey(w) \in orphaned
                 \/ "raw_refetch_29" \notin done /\ header[AcctKey(w)] \in Recent
                 \/ "legacy_adopt1" \notin done /\ verdict[AcctKey(w)] = body'[OldKey(w)]
      <4>1. CASE w = u
        BY <1>a, <1>3, <1>4, <2>1, <2>2, <4>1 DEF VerdictsOf
      <4>2. CASE w # u
        BY <1>a, <1>3, <1>4, <1>5, <2>2, <3>2, <4>2 DEF VerdictsOf
      <4> QED BY <4>1, <4>2
    <3> QED BY <1>1, <1>10, <3>1, <3>2 DEF VerdictsOf
  <2> QED BY <1>2, <2>3, <2>4 DEF MigInv
<1>11. ~MG!Taken(k) \/ MG!Taken(k)
  OBVIOUS
<1>12. \/ MG!Taken(k) /\ MG!DropTwin(k)
       \/ ~MG!Taken(k) /\ MG!Rename(k)
  BY DEF MG!Adopt
<1> QED BY <1>7, <1>8, <1>9, <1>10, <1>12 DEF MG!DropTwin, MG!Rename
-----------------------------------------------------------------------------
\* Once the ghosts are gone, and the rows adopted, a body has its row.
LEMMA Cleared ==
    ASSUME MG!MigrationsAssumption, MigInv, ~launchesLate, "ghost_sweep1" \in done
    PROVE  /\ "legacy_adopt1" \in done
           /\ \A u \in Uids : header[OldKey(u)] = NoLetter /\ body[OldKey(u)] = NoLetter
           /\ \A k \in MG!Keys : body[k] # NoLetter => header[k] \in Letters
           /\ \A k \in MG!Keys : header[k] # Ghost
<1>a. /\ header \in [MG!Keys -> Letters \cup {NoLetter, Ghost}] /\ body \in [MG!Keys -> Letters \cup {NoLetter}]
      /\ verdict \in [MG!Keys -> Letters \cup {NoLetter}] /\ now \in [Uids -> Letters \cup {NoLetter}]
      /\ \A q \in MG!Keys : header[q] = NoLetter => verdict[q] = NoLetter
      /\ \A w \in Uids : (body[AcctKey(w)] # NoLetter \/ body[OldKey(w)] # NoLetter) =>
           IF header[AcctKey(w)] # NoLetter THEN header[AcctKey(w)] \in Letters
           ELSE header[OldKey(w)] \in Letters
  BY TablesSay DEF MigInv
<1>b. NoLetter # Ghost /\ NoLetter \notin Letters /\ Ghost \notin Letters /\ NoLetter \notin Attached
  BY DEF MG!MigrationsAssumption
<1>1. "legacy_adopt1" \in done
  BY DEF MigInv, InOrder
<1>2. MG!Old(header) = {} /\ MG!Old(body) = {} /\ \A k \in MG!Keys : header[k] # Ghost
  BY <1>1 DEF MigInv, SweepsHold
<1>3. \A u \in Uids : header[OldKey(u)] = NoLetter /\ body[OldKey(u)] = NoLetter
  BY <1>2, OldIs
<1>4. ASSUME NEW k \in MG!Keys, body[k] # NoLetter PROVE header[k] \in Letters
  <2>1. PICK u \in Uids : k = OldKey(u) \/ k = AcctKey(u)
    BY <1>4, KeyFacts
  <2> QED BY <1>a, <1>b, <1>3, <1>4, <2>1
<1> QED BY <1>1, <1>2, <1>3, <1>4

\* Nothing is passed, and nothing cleared, before its time.
LEMMA PassedWhen ==
    ASSUME MigInv
    PROVE  /\ \A k : k \in Passed("body_msgid_heal1", BeforeHeal) => "ghost_sweep1" \in done /\ "raw_refetch_29" \in done
           /\ \A k : k \in Passed("attach_backfill", BeforeClips) => "ghost_sweep1" \in done /\ "body_msgid_heal1" \in done
           /\ MG!At("raw_refetch_29") => "ghost_sweep1" \in done
           /\ MG!At("body_msgid_heal1") => "ghost_sweep1" \in done /\ "raw_refetch_29" \in done
<1>1. InOrder
  BY DEF MigInv
<1>2. \A k : k \in Passed("body_msgid_heal1", BeforeHeal) => "ghost_sweep1" \in done /\ "raw_refetch_29" \in done
  BY <1>1 DEF Passed, InOrder, AllSteps, BeforeHeal
<1>3. \A k : k \in Passed("attach_backfill", BeforeClips) => "ghost_sweep1" \in done /\ "body_msgid_heal1" \in done
  BY <1>1 DEF Passed, InOrder, AllSteps, BeforeHeal, BeforeClips
<1>4. /\ MG!At("raw_refetch_29") => "ghost_sweep1" \in done
      /\ MG!At("body_msgid_heal1") => "ghost_sweep1" \in done /\ "raw_refetch_29" \in done
  BY <1>1, StepsAre DEF InOrder, AllSteps
<1> QED BY <1>2, <1>3, <1>4

LEMMA SweepKeepsMig ==
    ASSUME MG!MigrationsAssumption, MigInv, NEW k \in MG!Keys, MG!SweepGhost(k)
    PROVE  MigInv'
<1>a. /\ header \in [MG!Keys -> Letters \cup {NoLetter, Ghost}] /\ body \in [MG!Keys -> Letters \cup {NoLetter}]
      /\ verdict \in [MG!Keys -> Letters \cup {NoLetter}] /\ now \in [Uids -> Letters \cup {NoLetter}]
      /\ \A q \in MG!Keys : header[q] = NoLetter => verdict[q] = NoLetter
      /\ \A w \in Uids : (body[AcctKey(w)] # NoLetter \/ body[OldKey(w)] # NoLetter) =>
           IF header[AcctKey(w)] # NoLetter THEN header[AcctKey(w)] \in Letters
           ELSE header[OldKey(w)] \in Letters
  BY TablesSay DEF MigInv
<1>b. NoLetter # Ghost /\ NoLetter \notin Letters /\ Ghost \notin Letters /\ NoLetter \notin Attached
  BY DEF MG!MigrationsAssumption
<1>1. /\ UNCHANGED <<body, done, launchesTodo, seen, aborted, launchesLate, orphaned, untold, now>> /\ MG!At("ghost_sweep1") /\ header[k] = Ghost
      /\ header' = MG!Erase(header, {k}) /\ verdict' = MG!Erase(verdict, {k})
  BY DEF MG!SweepGhost, MG!Ghosts, MG!bound, MG!history
<1>2. /\ header' \in [MG!Keys -> Letters \cup {NoLetter, Ghost}] /\ verdict' \in [MG!Keys -> Letters \cup {NoLetter}]
      /\ \A q \in MG!Keys : header'[q] = (IF q = k THEN NoLetter ELSE header[q])
      /\ \A q \in MG!Keys : verdict'[q] = (IF q = k THEN NoLetter ELSE verdict[q])
  BY <1>a, <1>1, ErasedTables
<1>3. TablesOK'
  <2>1. \A q \in MG!Keys : header'[q] = NoLetter => verdict'[q] = NoLetter
    BY <1>a, <1>2
  <2>2. ASSUME NEW w \in Uids, body'[AcctKey(w)] # NoLetter \/ body'[OldKey(w)] # NoLetter
        PROVE  IF header'[AcctKey(w)] # NoLetter THEN header'[AcctKey(w)] \in Letters
               ELSE header'[OldKey(w)] \in Letters
    <3>1. AcctKey(w) \in MG!Keys /\ OldKey(w) \in MG!Keys /\ AcctKey(w) # OldKey(w)
      BY <2>2, KeysApart
    <3> QED BY <1>a, <1>b, <1>1, <1>2, <2>2, <3>1
  <2> QED BY <1>a, <1>1, <1>2, <2>1, <2>2, TablesFrom
<1>4. /\ "ghost_sweep1" \in launchesTodo /\ "ghost_sweep1" \notin done
      /\ "body_msgid_heal1" \notin done /\ "attach_backfill" \notin done
  BY <1>1, StepsAre DEF MigInv, InOrder
<1>5. HealOK' /\ ClipsOK'
  BY <1>1, <1>4 DEF HealOK, ClipsOK, Passed, BeforeHeal, BeforeClips
<1>6. SweepsHold'
  <2>1. "legacy_adopt1" \in done => MG!Old(header') \cup MG!Old(body) = {}
    <3> SUFFICES ASSUME "legacy_adopt1" \in done PROVE MG!Old(header') = {} /\ MG!Old(body) = {}
      OBVIOUS
    <3>1. MG!Old(header) = {} /\ MG!Old(body) = {}
      BY DEF MigInv, SweepsHold
    <3>2. \A u \in Uids : OldKey(u) \in MG!Keys /\ header[OldKey(u)] = NoLetter
      BY <3>1, OldIs, KeyFacts
    <3>3. \A u \in Uids : header'[OldKey(u)] = NoLetter
      BY <1>2, <3>2
    <3> QED BY <3>1, <3>3, OldIs
  <2> QED BY <1>1, <1>4, <2>1 DEF SweepsHold, MG!Old, MG!Rows
<1>7. VerdictsOf'
  <2>1. \A u \in Uids : OldKey(u) \in MG!Keys /\ AcctKey(u) \in MG!Keys
    BY KeyFacts
  <2> QED BY <1>1, <1>2, <2>1 DEF VerdictsOf, MigInv
<1>8. InOrder' /\ ~aborted'
  BY <1>1 DEF MigInv, InOrder
<1> QED BY <1>3, <1>5, <1>6, <1>7, <1>8 DEF MigInv

\* The old rows stay away, whatever else is erased or written.
LEMMA SweptStays ==
    ASSUME MigInv, UNCHANGED done, UNCHANGED launchesLate,
           "legacy_adopt1" \in done => \A u \in Uids :
              /\ header[OldKey(u)] = NoLetter => header'[OldKey(u)] = NoLetter
              /\ body[OldKey(u)] = NoLetter => body'[OldKey(u)] = NoLetter,
           "ghost_sweep1" \in done => \A k \in MG!Keys : header'[k] = Ghost => header[k] = Ghost
    PROVE  SweepsHold'
<1>1. ASSUME "legacy_adopt1" \in done PROVE MG!Old(header') = {} /\ MG!Old(body') = {}
  <2>1. MG!Old(header) = {} /\ MG!Old(body) = {}
    BY <1>1 DEF MigInv, SweepsHold
  <2>2. \A u \in Uids : header[OldKey(u)] = NoLetter /\ body[OldKey(u)] = NoLetter
    BY <2>1, OldIs
  <2>3. \A u \in Uids : header'[OldKey(u)] = NoLetter /\ body'[OldKey(u)] = NoLetter
    BY <1>1, <2>2
  <2> QED BY <2>3, OldIs
<1>2. "legacy_adopt1" \in done => MG!Old(header)' \cup MG!Old(body)' = {}
  BY <1>1 DEF MG!Old, MG!Rows
<1> QED BY <1>2 DEF MigInv, SweepsHold

LEMMA RefetchKeepsMig ==
    ASSUME MG!MigrationsAssumption, MigInv, NEW k \in MG!Keys, MG!Refetch(k)
    PROVE  MigInv'
<1>a. /\ header \in [MG!Keys -> Letters \cup {NoLetter, Ghost}] /\ body \in [MG!Keys -> Letters \cup {NoLetter}]
      /\ verdict \in [MG!Keys -> Letters \cup {NoLetter}] /\ now \in [Uids -> Letters \cup {NoLetter}]
      /\ \A q \in MG!Keys : header[q] = NoLetter => verdict[q] = NoLetter
      /\ \A w \in Uids : (body[AcctKey(w)] # NoLetter \/ body[OldKey(w)] # NoLetter) =>
           IF header[AcctKey(w)] # NoLetter THEN header[AcctKey(w)] \in Letters
           ELSE header[OldKey(w)] \in Letters
  BY TablesSay DEF MigInv
<1>b. NoLetter # Ghost /\ NoLetter \notin Letters /\ Ghost \notin Letters /\ NoLetter \notin Attached
  BY DEF MG!MigrationsAssumption
<1>1. UNCHANGED <<header, clip, done, launchesTodo, seen, aborted, launchesLate, orphaned, untold, now>> /\ MG!At("raw_refetch_29")
  BY DEF MG!Refetch, MG!bound, MG!history
<1>2. /\ body' \in [MG!Keys -> Letters \cup {NoLetter}] /\ verdict' \in [MG!Keys -> Letters \cup {NoLetter}]
      /\ \A q \in MG!Keys : body'[q] = body[q] \/ (q = k /\ body'[q] = NoLetter /\ header[q] \in Recent)
      /\ \A q \in MG!Keys : verdict'[q] = verdict[q] \/ verdict'[q] = NoLetter
  <2>1. CASE k \in MG!Stale /\ body' = MG!Erase(body, {k}) /\ UNCHANGED verdict
    <3>1. /\ MG!Erase(body, {k}) \in [MG!Keys -> Letters \cup {NoLetter}]
          /\ \A q \in MG!Keys : MG!Erase(body, {k})[q] = IF q = k THEN NoLetter ELSE body[q]
      BY <1>a, ErasedTables
    <3> QED BY <1>a, <2>1, <3>1 DEF MG!Stale
  <2>2. CASE verdict' = MG!Erase(verdict, {k}) /\ UNCHANGED body
    <3>1. /\ MG!Erase(verdict, {k}) \in [MG!Keys -> Letters \cup {NoLetter}]
          /\ \A q \in MG!Keys : MG!Erase(verdict, {k})[q] = IF q = k THEN NoLetter ELSE verdict[q]
      BY <1>a, ErasedTables
    <3> QED BY <1>a, <2>2, <3>1
  <2> QED BY <2>1, <2>2 DEF MG!Refetch
<1>3. TablesOK'
  <2>1. \A w \in Uids : OldKey(w) \in MG!Keys /\ AcctKey(w) \in MG!Keys
    BY KeyFacts
  <2>2. \A q \in MG!Keys : header'[q] = NoLetter => verdict'[q] = NoLetter
    BY <1>a, <1>1, <1>2
  <2>3. ASSUME NEW w \in Uids, body'[AcctKey(w)] # NoLetter \/ body'[OldKey(w)] # NoLetter
        PROVE  IF header'[AcctKey(w)] # NoLetter THEN header'[AcctKey(w)] \in Letters
               ELSE header'[OldKey(w)] \in Letters
    BY <1>a, <1>1, <1>2, <2>1, <2>3
  <2> QED BY <1>a, <1>1, <1>2, <2>2, <2>3, TablesFrom
<1>4. /\ "raw_refetch_29" \in launchesTodo /\ "raw_refetch_29" \notin done
      /\ "body_msgid_heal1" \notin done /\ "attach_backfill" \notin done /\ "ghost_sweep1" \in done
  BY <1>1, StepsAre, PassedWhen DEF MigInv, InOrder
<1>5. HealOK' /\ ClipsOK'
  BY <1>1, <1>4 DEF HealOK, ClipsOK, Passed, BeforeHeal, BeforeClips
<1>6. SweepsHold'
  <2>1. \A w \in Uids : OldKey(w) \in MG!Keys
    BY KeyFacts
  <2> QED BY <1>1, <1>2, <2>1, SweptStays
<1>7. VerdictsOf'
  <2> SUFFICES ASSUME ~launchesLate PROVE VerdictsOf'
    BY <1>1 DEF VerdictsOf
  <2>1. "legacy_adopt1" \in done
    BY <1>4, Cleared
  <2>2. \A u \in Uids : AcctKey(u) \in MG!Keys
    BY KeyFacts
  <2> QED BY <1>1, <1>2, <1>4, <2>1, <2>2 DEF VerdictsOf, MigInv
<1>8. InOrder' /\ ~aborted'
  BY <1>1 DEF MigInv, InOrder
<1> QED BY <1>3, <1>5, <1>6, <1>7, <1>8 DEF MigInv

LEMMA HealKeepsMig ==
    ASSUME MG!MigrationsAssumption, MigInv, NEW k \in MG!Keys, MG!Heal(k)
    PROVE  MigInv'
<1>a. /\ header \in [MG!Keys -> Letters \cup {NoLetter, Ghost}] /\ body \in [MG!Keys -> Letters \cup {NoLetter}]
      /\ verdict \in [MG!Keys -> Letters \cup {NoLetter}] /\ now \in [Uids -> Letters \cup {NoLetter}]
      /\ \A q \in MG!Keys : header[q] = NoLetter => verdict[q] = NoLetter
      /\ \A w \in Uids : (body[AcctKey(w)] # NoLetter \/ body[OldKey(w)] # NoLetter) =>
           IF header[AcctKey(w)] # NoLetter THEN header[AcctKey(w)] \in Letters
           ELSE header[OldKey(w)] \in Letters
  BY TablesSay DEF MigInv
<1>b. NoLetter # Ghost /\ NoLetter \notin Letters /\ Ghost \notin Letters /\ NoLetter \notin Attached
  BY DEF MG!MigrationsAssumption
<1>1. UNCHANGED <<header, clip, done, launchesTodo, aborted, launchesLate, orphaned, now>> /\ MG!At("body_msgid_heal1") /\ seen' = seen \cup {k}
  BY DEF MG!Heal, MG!Pass, MG!bound
<1>2. /\ body' \in [MG!Keys -> Letters \cup {NoLetter}] /\ verdict' \in [MG!Keys -> Letters \cup {NoLetter}]
      /\ \A q \in MG!Keys :
           \/ body'[q] = body[q] /\ verdict'[q] = verdict[q]
           \/ body'[q] = NoLetter /\ verdict'[q] = NoLetter
      /\ \A q \in MG!Keys : q # k => body'[q] = body[q]
      /\ \A q \in MG!Keys : q # k => (q \in untold' <=> q \in untold)
      /\ body'[k] \in {NoLetter, header[k]} \/ k \in untold'
  <2>1. CASE MG!Told(k) /\ msgid[k] # body[k]
    <3>1. {q \in {k} : MG!Told(q) /\ msgid[q] # body[q]} = {k}
      BY <2>1
    <3>2. /\ body' = MG!Erase(body, {k}) /\ verdict' = MG!Erase(verdict, {k})
          /\ untold' = (untold \ {k}) \cup {q \in {k} \ {k} : header[q] # body[q]}
      BY <3>1 DEF MG!Heal
    <3>3. /\ MG!Erase(body, {k}) \in [MG!Keys -> Letters \cup {NoLetter}]
          /\ \A q \in MG!Keys : MG!Erase(body, {k})[q] = IF q = k THEN NoLetter ELSE body[q]
      BY <1>a, ErasedTables
    <3>4. /\ MG!Erase(verdict, {k}) \in [MG!Keys -> Letters \cup {NoLetter}]
          /\ \A q \in MG!Keys : MG!Erase(verdict, {k})[q] = IF q = k THEN NoLetter ELSE verdict[q]
      BY <1>a, ErasedTables
    <3>5. /\ \A q \in MG!Keys : body'[q] = IF q = k THEN NoLetter ELSE body[q]
          /\ body' \in [MG!Keys -> Letters \cup {NoLetter}]
      BY <3>2, <3>3
    <3>6. /\ \A q \in MG!Keys : verdict'[q] = IF q = k THEN NoLetter ELSE verdict[q]
          /\ verdict' \in [MG!Keys -> Letters \cup {NoLetter}]
      BY <3>2, <3>4
    <3>7. \A q \in MG!Keys : q # k => (q \in untold' <=> q \in untold)
      BY <3>2
    <3> QED BY <3>5, <3>6, <3>7
  <2>2. CASE ~(MG!Told(k) /\ msgid[k] # body[k])
    <3>1. {q \in {k} : MG!Told(q) /\ msgid[q] # body[q]} = {}
      BY <2>2
    <3>2. /\ body' = MG!Erase(body, {}) /\ verdict' = MG!Erase(verdict, {})
          /\ untold' = (untold \ {k}) \cup {q \in {k} \ {} : header[q] # body[q]}
      BY <3>1 DEF MG!Heal
    <3>3. body' = [q \in MG!Keys |-> body[q]] /\ verdict' = [q \in MG!Keys |-> verdict[q]]
      BY <3>2 DEF MG!Erase
    <3>4. \A q \in MG!Keys : q # k => (q \in untold' <=> q \in untold)
      BY <3>2
    <3>5. body[k] = header[k] \/ k \in untold'
      BY <3>2
    <3>6. body' = body /\ verdict' = verdict
      BY <1>a, <3>3
    <3> QED BY <1>a, <3>4, <3>5, <3>6
  <2> QED BY <2>1, <2>2
<1>3. TablesOK'
  <2>1. \A w \in Uids : OldKey(w) \in MG!Keys /\ AcctKey(w) \in MG!Keys
    BY KeyFacts
  <2>2. \A q \in MG!Keys : header'[q] = NoLetter => verdict'[q] = NoLetter
    BY <1>a, <1>1, <1>2
  <2>3. ASSUME NEW w \in Uids, body'[AcctKey(w)] # NoLetter \/ body'[OldKey(w)] # NoLetter
        PROVE  IF header'[AcctKey(w)] # NoLetter THEN header'[AcctKey(w)] \in Letters
               ELSE header'[OldKey(w)] \in Letters
    BY <1>a, <1>1, <1>2, <2>1, <2>3
  <2> QED BY <1>a, <1>1, <1>2, <2>2, <2>3, TablesFrom
<1>4. /\ "body_msgid_heal1" \in launchesTodo /\ "body_msgid_heal1" \notin done
      /\ "attach_backfill" \notin done /\ "ghost_sweep1" \in done /\ BeforeHeal \cap launchesTodo = {}
  BY <1>1, StepsAre, PassedWhen DEF MigInv, InOrder, BeforeHeal
<1>5. ClipsOK'
  BY <1>1, <1>4 DEF ClipsOK, Passed, BeforeClips
<1>6. HealOK'
  <2> SUFFICES ASSUME ~launchesLate, NEW q \in MG!Keys, (q \in Passed("body_msgid_heal1", BeforeHeal))'
               PROVE  body'[q] \in {NoLetter, header[q]} \/ q \in untold'
    BY <1>1 DEF HealOK
  <2>1. q = k \/ q \in Passed("body_msgid_heal1", BeforeHeal)
    BY <1>1, <1>4 DEF Passed
  <2>2. q \in Passed("body_msgid_heal1", BeforeHeal) => body[q] \in {NoLetter, header[q]} \/ q \in untold
    BY DEF HealOK, MigInv
  <2> QED BY <1>2, <2>1, <2>2
<1>7. SweepsHold'
  <2>1. \A w \in Uids : OldKey(w) \in MG!Keys
    BY KeyFacts
  <2> QED BY <1>1, <1>2, <2>1, SweptStays
<1>8. VerdictsOf'
  <2> SUFFICES ASSUME ~launchesLate PROVE VerdictsOf'
    BY <1>1 DEF VerdictsOf
  <2>1. "legacy_adopt1" \in done
    BY <1>4, Cleared
  <2>2. \A u \in Uids : AcctKey(u) \in MG!Keys
    BY KeyFacts
  <2> QED BY <1>1, <1>2, <1>4, <2>1, <2>2 DEF VerdictsOf, MigInv
<1>9. InOrder' /\ ~aborted'
  BY <1>1 DEF MigInv, InOrder
<1> QED BY <1>3, <1>5, <1>6, <1>7, <1>8, <1>9 DEF MigInv

LEMMA WalkKeepsMig ==
    ASSUME MG!MigrationsAssumption, MigInv, NEW k \in MG!Keys, MG!AttachBackfill(k) \/ MG!LearnJunk(k)
    PROVE  MigInv'
<1>a. /\ header \in [MG!Keys -> Letters \cup {NoLetter, Ghost}] /\ body \in [MG!Keys -> Letters \cup {NoLetter}]
      /\ verdict \in [MG!Keys -> Letters \cup {NoLetter}] /\ now \in [Uids -> Letters \cup {NoLetter}]
      /\ \A q \in MG!Keys : header[q] = NoLetter => verdict[q] = NoLetter
      /\ \A w \in Uids : (body[AcctKey(w)] # NoLetter \/ body[OldKey(w)] # NoLetter) =>
           IF header[AcctKey(w)] # NoLetter THEN header[AcctKey(w)] \in Letters
           ELSE header[OldKey(w)] \in Letters
  BY TablesSay DEF MigInv
<1>b. NoLetter # Ghost /\ NoLetter \notin Letters /\ Ghost \notin Letters /\ NoLetter \notin Attached
  BY DEF MG!MigrationsAssumption
<1>1. UNCHANGED <<header, body, verdict, done, launchesTodo, aborted, launchesLate, orphaned, untold, now>> /\ seen' = seen \cup {k}
  BY DEF MG!AttachBackfill, MG!LearnJunk, MG!Pass, MG!bound
<1>2. \/ MG!At("attach_backfill") /\ clip' = clip \cup {q \in {k} : body[q] \in Attached /\ header[q] # NoLetter}
      \/ MG!At("junk_hash1") /\ clip' = clip
  BY DEF MG!AttachBackfill, MG!LearnJunk
<1>3. TablesOK' /\ SweepsHold' /\ VerdictsOf' /\ InOrder' /\ ~aborted'
  BY <1>1 DEF MigInv, TablesOK, SweepsHold, VerdictsOf, InOrder, MG!Old, MG!Rows, MG!Effective
<1>4. HealOK'
  <2>1. \A q \in MG!Keys : (q \in Passed("body_msgid_heal1", BeforeHeal))' => q \in Passed("body_msgid_heal1", BeforeHeal)
    BY <1>1, <1>2, StepsAre DEF Passed, BeforeHeal, AllSteps
  <2> QED BY <1>1, <2>1 DEF HealOK, MigInv
<1>5. ClipsOK'
  <2>1. \A q \in MG!Keys : q # k /\ (q \in Passed("attach_backfill", BeforeClips))' => q \in Passed("attach_backfill", BeforeClips)
    BY <1>1 DEF Passed
  <2>2. MG!At("junk_hash1") /\ (k \in Passed("attach_backfill", BeforeClips))' => k \in Passed("attach_backfill", BeforeClips)
    BY <1>1, StepsAre DEF Passed, AllSteps
  <2>3. clip \subseteq clip'
    BY <1>2
  <2> QED BY <1>b, <1>1, <1>2, <2>1, <2>2, <2>3 DEF ClipsOK, MigInv
<1> QED BY <1>3, <1>4, <1>5 DEF MigInv

LEMMA StoreHeaderKeepsMig ==
    ASSUME MG!MigrationsAssumption, MigInv, NEW u \in Uids, MG!StoreHeader(u)
    PROVE  MigInv'
<1>a. /\ header \in [MG!Keys -> Letters \cup {NoLetter, Ghost}] /\ body \in [MG!Keys -> Letters \cup {NoLetter}]
      /\ verdict \in [MG!Keys -> Letters \cup {NoLetter}] /\ now \in [Uids -> Letters \cup {NoLetter}]
      /\ \A q \in MG!Keys : header[q] = NoLetter => verdict[q] = NoLetter
      /\ \A w \in Uids : (body[AcctKey(w)] # NoLetter \/ body[OldKey(w)] # NoLetter) =>
           IF header[AcctKey(w)] # NoLetter THEN header[AcctKey(w)] \in Letters
           ELSE header[OldKey(w)] \in Letters
  BY TablesSay DEF MigInv
<1>b. NoLetter # Ghost /\ NoLetter \notin Letters /\ Ghost \notin Letters /\ NoLetter \notin Attached
  BY DEF MG!MigrationsAssumption
<1>1. UNCHANGED <<body, done, launchesTodo, seen, aborted, launchesLate, orphaned, untold, now>>
  BY DEF MG!StoreHeader, MG!Client, MG!bound, MG!history
<1>2. /\ OldKey(u) \in MG!Keys /\ AcctKey(u) \in MG!Keys
      /\ \A w \in Uids : OldKey(w) \in MG!Keys /\ AcctKey(w) \in MG!Keys
      /\ \A w \in Uids : OldKey(w) # AcctKey(u)
      /\ \A w \in Uids : w # u => AcctKey(w) # AcctKey(u)
  BY KeysApart
<1>3. /\ now[u] # NoLetter /\ header[AcctKey(u)] \in {NoLetter, now[u]} /\ header' = [header EXCEPT ![AcctKey(u)] = now[u]]
      /\ clip' = (IF now[u] \in Attached THEN clip \cup {AcctKey(u)} ELSE clip \ {AcctKey(u)})
      /\ verdict' = verdict
  BY DEF MG!StoreHeader, AcctKey
<1>4. /\ header' \in [MG!Keys -> Letters \cup {NoLetter, Ghost}] /\ verdict' \in [MG!Keys -> Letters \cup {NoLetter}]
      /\ header'[AcctKey(u)] = now[u] /\ now[u] \in Letters
      /\ \A q \in MG!Keys : q # AcctKey(u) => header'[q] = header[q]
  <2>1. now[u] \in Letters
    BY <1>a, <1>3
  <2> QED BY <1>a, <1>2, <1>3, <2>1
<1>5. TablesOK'
  <2>2. \A q \in MG!Keys : header'[q] = NoLetter => verdict'[q] = NoLetter
    BY <1>a, <1>b, <1>3, <1>4
  <2>3. ASSUME NEW w \in Uids, body'[AcctKey(w)] # NoLetter \/ body'[OldKey(w)] # NoLetter
        PROVE  IF header'[AcctKey(w)] # NoLetter THEN header'[AcctKey(w)] \in Letters
               ELSE header'[OldKey(w)] \in Letters
    <3>1. CASE w = u
      BY <1>b, <1>4, <3>1
    <3>2. CASE w # u
      BY <1>a, <1>1, <1>2, <1>4, <2>3, <3>2
    <3> QED BY <3>1, <3>2
  <2> QED BY <1>a, <1>1, <1>4, <2>2, <2>3, TablesFrom
<1>6. HealOK'
  <2> SUFFICES ASSUME ~launchesLate, NEW q \in MG!Keys, q \in Passed("body_msgid_heal1", BeforeHeal)
               PROVE  body[q] \in {NoLetter, header'[q]} \/ q \in untold
    BY <1>1 DEF HealOK, Passed
  <2>1. body[q] \in {NoLetter, header[q]} \/ q \in untold
    BY DEF HealOK, MigInv
  <2>2. "ghost_sweep1" \in done
    BY PassedWhen
  <2>3. body[q] # NoLetter => header[q] \in Letters
    BY <2>2, Cleared
  <2> QED BY <1>b, <1>3, <1>4, <2>1, <2>3
<1>7. ClipsOK'
  <2> SUFFICES ASSUME ~launchesLate, NEW q \in MG!Keys, q \in Passed("attach_backfill", BeforeClips),
                      body[q] = header'[q], header'[q] \in Attached
               PROVE  q \in clip'
    BY <1>1 DEF ClipsOK, Passed
  <2>1. CASE q = AcctKey(u)
    BY <1>3, <1>4, <2>1
  <2>2. CASE q # AcctKey(u)
    BY <1>3, <1>4, <2>2 DEF ClipsOK, MigInv
  <2> QED BY <2>1, <2>2
<1>8. SweepsHold'
  <2>1. \A q \in MG!Keys : header'[q] = Ghost => header[q] = Ghost
    BY <1>b, <1>4
  <2>2. \A w \in Uids : header[OldKey(w)] = NoLetter => header'[OldKey(w)] = NoLetter
    BY <1>2, <1>4
  <2> QED BY <1>1, <2>1, <2>2, SweptStays
<1>9. VerdictsOf'
  <2> SUFFICES ASSUME ~launchesLate PROVE VerdictsOf'
    BY <1>1 DEF VerdictsOf
  <2>1. "legacy_adopt1" \notin done => \A w \in Uids : verdict'[OldKey(w)] \in {NoLetter, body[OldKey(w)]}
    BY <1>2, <1>3 DEF VerdictsOf, MigInv
  <2>2. ASSUME NEW w \in Uids
        PROVE  \/ verdict'[AcctKey(w)] \in {NoLetter, body[AcctKey(w)]} \/ AcctKey(w) \in orphaned
               \/ "raw_refetch_29" \notin done /\ header'[AcctKey(w)] \in Recent
               \/ "legacy_adopt1" \notin done /\ verdict'[AcctKey(w)] = body[OldKey(w)]
    <3>1. CASE w = u
      <4>1. CASE header[AcctKey(u)] = NoLetter
        BY <1>a, <1>2, <1>3, <3>1, <4>1
      <4>2. CASE header[AcctKey(u)] = now[u]
        BY <1>2, <1>3, <1>4, <2>2, <3>1, <4>2 DEF VerdictsOf, MigInv
      <4> QED BY <1>3, <4>1, <4>2
    <3>2. CASE w # u
      BY <1>2, <1>3, <1>4, <2>2, <3>2 DEF VerdictsOf, MigInv
    <3> QED BY <3>1, <3>2
  <2> QED BY <1>1, <2>1, <2>2 DEF VerdictsOf
<1>10. InOrder' /\ ~aborted'
  BY <1>1 DEF MigInv, InOrder
<1> QED BY <1>5, <1>6, <1>7, <1>8, <1>9, <1>10 DEF MigInv

LEMMA StoreBodyKeepsMig ==
    ASSUME MG!MigrationsAssumption, MigInv, NEW u \in Uids, MG!StoreBody(u)
    PROVE  MigInv'
<1>a. /\ header \in [MG!Keys -> Letters \cup {NoLetter, Ghost}] /\ body \in [MG!Keys -> Letters \cup {NoLetter}]
      /\ verdict \in [MG!Keys -> Letters \cup {NoLetter}] /\ now \in [Uids -> Letters \cup {NoLetter}]
      /\ \A q \in MG!Keys : header[q] = NoLetter => verdict[q] = NoLetter
      /\ \A w \in Uids : (body[AcctKey(w)] # NoLetter \/ body[OldKey(w)] # NoLetter) =>
           IF header[AcctKey(w)] # NoLetter THEN header[AcctKey(w)] \in Letters
           ELSE header[OldKey(w)] \in Letters
  BY TablesSay DEF MigInv
<1>b. NoLetter # Ghost /\ NoLetter \notin Letters /\ Ghost \notin Letters /\ NoLetter \notin Attached
  BY DEF MG!MigrationsAssumption
<1>1. UNCHANGED <<header, verdict, done, launchesTodo, seen, aborted, launchesLate, orphaned, untold, now>>
  BY DEF MG!StoreBody, MG!Client, MG!bound, MG!history
<1>2. /\ OldKey(u) \in MG!Keys /\ AcctKey(u) \in MG!Keys
      /\ \A w \in Uids : OldKey(w) \in MG!Keys /\ AcctKey(w) \in MG!Keys
      /\ \A w \in Uids : OldKey(w) # AcctKey(u)
      /\ \A w \in Uids : w # u => AcctKey(w) # AcctKey(u)
  BY KeysApart
<1>3. /\ now[u] # NoLetter /\ header[AcctKey(u)] = now[u] /\ body[AcctKey(u)] = NoLetter
      /\ body' = [body EXCEPT ![AcctKey(u)] = now[u]]
      /\ clip' = (IF now[u] \in Attached THEN clip \cup {AcctKey(u)} ELSE clip \ {AcctKey(u)})
  BY DEF MG!StoreBody, AcctKey
<1>4. /\ body' \in [MG!Keys -> Letters \cup {NoLetter}] /\ body'[AcctKey(u)] = now[u] /\ now[u] \in Letters
      /\ \A q \in MG!Keys : q # AcctKey(u) => body'[q] = body[q]
  BY <1>a, <1>2, <1>3
<1>5. TablesOK'
  <2>3. ASSUME NEW w \in Uids, body'[AcctKey(w)] # NoLetter \/ body'[OldKey(w)] # NoLetter
        PROVE  IF header'[AcctKey(w)] # NoLetter THEN header'[AcctKey(w)] \in Letters
               ELSE header'[OldKey(w)] \in Letters
    <3>1. CASE w = u
      BY <1>1, <1>3, <1>4, <3>1
    <3>2. CASE w # u
      BY <1>a, <1>1, <1>2, <1>4, <2>3, <3>2
    <3> QED BY <3>1, <3>2
  <2> QED BY <1>a, <1>1, <1>4, <2>3, TablesFrom
<1>6. HealOK'
  BY <1>1, <1>3, <1>4 DEF HealOK, Passed, MigInv
<1>7. ClipsOK'
  <2> SUFFICES ASSUME ~launchesLate, NEW q \in MG!Keys, q \in Passed("attach_backfill", BeforeClips),
                      body'[q] = header[q], header[q] \in Attached
               PROVE  q \in clip'
    BY <1>1 DEF ClipsOK, Passed
  <2>1. CASE q = AcctKey(u)
    BY <1>3, <2>1
  <2>2. CASE q # AcctKey(u)
    BY <1>3, <1>4, <2>2 DEF ClipsOK, MigInv
  <2> QED BY <2>1, <2>2
<1>8. SweepsHold'
  <2>2. \A w \in Uids : body[OldKey(w)] = NoLetter => body'[OldKey(w)] = NoLetter
    BY <1>2, <1>4
  <2> QED BY <1>1, <2>2, SweptStays
<1>9. VerdictsOf'
  <2> SUFFICES ASSUME ~launchesLate PROVE VerdictsOf'
    BY <1>1 DEF VerdictsOf
  <2>1. "legacy_adopt1" \notin done => \A w \in Uids : verdict[OldKey(w)] \in {NoLetter, body'[OldKey(w)]}
    BY <1>2, <1>4 DEF VerdictsOf, MigInv
  <2>2. ASSUME NEW w \in Uids
        PROVE  \/ verdict[AcctKey(w)] \in {NoLetter, body'[AcctKey(w)]} \/ AcctKey(w) \in orphaned
               \/ "raw_refetch_29" \notin done /\ header[AcctKey(w)] \in Recent
               \/ "legacy_adopt1" \notin done /\ verdict[AcctKey(w)] = body'[OldKey(w)]
    <3>1. body'[OldKey(w)] = body[OldKey(w)]
      BY <1>2, <1>4, <2>2
    <3>2. CASE w = u
      BY <1>3, <3>1, <3>2 DEF VerdictsOf, MigInv
    <3>3. CASE w # u
      BY <1>2, <1>4, <2>2, <3>1, <3>3 DEF VerdictsOf, MigInv
    <3> QED BY <3>2, <3>3
  <2> QED BY <1>1, <2>1, <2>2 DEF VerdictsOf
<1>10. InOrder' /\ ~aborted'
  BY <1>1 DEF MigInv, InOrder
<1> QED BY <1>5, <1>6, <1>7, <1>8, <1>9, <1>10 DEF MigInv

\* An id tells no table of what the invariant speaks.
LEMMA BackfillKeepsMig ==
    ASSUME MigInv, NEW k \in MG!Keys, MG!BackfillMessageIds(k)
    PROVE  MigInv'
<1>1. UNCHANGED <<header, body, verdict, clip, done, launchesTodo, seen, aborted, launchesLate, orphaned, untold, now>>
  BY DEF MG!BackfillMessageIds, MG!Client, MG!bound, MG!history
<1>2. TablesOK' /\ SweepsHold' /\ VerdictsOf'
  BY <1>1 DEF MigInv, TablesOK, SweepsHold, VerdictsOf, MG!Old, MG!Rows, MG!Effective
<1>3. HealOK' /\ ClipsOK' /\ InOrder' /\ ~aborted'
  BY <1>1 DEF MigInv, HealOK, ClipsOK, Passed, InOrder
<1> QED BY <1>2, <1>3 DEF MigInv

LEMMA JudgeKeepsMig ==
    ASSUME MG!MigrationsAssumption, MigInv, NEW u \in Uids, MG!Judge(u)
    PROVE  MigInv'
<1>a. /\ header \in [MG!Keys -> Letters \cup {NoLetter, Ghost}] /\ body \in [MG!Keys -> Letters \cup {NoLetter}]
      /\ verdict \in [MG!Keys -> Letters \cup {NoLetter}] /\ now \in [Uids -> Letters \cup {NoLetter}]
      /\ \A q \in MG!Keys : header[q] = NoLetter => verdict[q] = NoLetter
      /\ \A w \in Uids : (body[AcctKey(w)] # NoLetter \/ body[OldKey(w)] # NoLetter) =>
           IF header[AcctKey(w)] # NoLetter THEN header[AcctKey(w)] \in Letters
           ELSE header[OldKey(w)] \in Letters
  BY TablesSay DEF MigInv
<1>b. NoLetter # Ghost /\ NoLetter \notin Letters /\ Ghost \notin Letters /\ NoLetter \notin Attached
  BY DEF MG!MigrationsAssumption
<1>1. UNCHANGED <<header, body, clip, done, launchesTodo, seen, aborted, launchesLate, orphaned, untold, now>>
  BY DEF MG!Judge, MG!history
<1>2. /\ AcctKey(u) \in MG!Keys /\ \A w \in Uids : OldKey(w) \in MG!Keys /\ AcctKey(w) \in MG!Keys
      /\ \A w \in Uids : OldKey(w) # AcctKey(u)
      /\ \A w \in Uids : w # u => AcctKey(w) # AcctKey(u)
  BY KeysApart
<1>3. header[AcctKey(u)] # NoLetter /\ verdict' = [verdict EXCEPT ![AcctKey(u)] = body[AcctKey(u)]]
  BY DEF MG!Judge, MG!Paired, AcctKey
<1>4. /\ verdict' \in [MG!Keys -> Letters \cup {NoLetter}] /\ verdict'[AcctKey(u)] = body[AcctKey(u)]
      /\ \A q \in MG!Keys : q # AcctKey(u) => verdict'[q] = verdict[q]
  BY <1>a, <1>2, <1>3
<1>5. TablesOK'
  <2>1. \A q \in MG!Keys : header'[q] = NoLetter => verdict'[q] = NoLetter
    BY <1>a, <1>1, <1>3, <1>4
  <2> QED BY <1>a, <1>1, <1>4, <2>1, TablesFrom
<1>6. HealOK' /\ ClipsOK' /\ SweepsHold' /\ InOrder' /\ ~aborted'
  BY <1>1 DEF HealOK, ClipsOK, Passed, MigInv, SweepsHold, InOrder, MG!Old, MG!Rows
<1>7. VerdictsOf'
  <2> SUFFICES ASSUME ~launchesLate PROVE VerdictsOf'
    BY <1>1 DEF VerdictsOf
  <2>1. "legacy_adopt1" \notin done => \A w \in Uids : verdict'[OldKey(w)] \in {NoLetter, body[OldKey(w)]}
    BY <1>2, <1>4 DEF VerdictsOf, MigInv
  <2>2. ASSUME NEW w \in Uids
        PROVE  \/ verdict'[AcctKey(w)] \in {NoLetter, body[AcctKey(w)]} \/ AcctKey(w) \in orphaned
               \/ "raw_refetch_29" \notin done /\ header[AcctKey(w)] \in Recent
               \/ "legacy_adopt1" \notin done /\ verdict'[AcctKey(w)] = body[OldKey(w)]
    <3>1. CASE w = u
      BY <1>4, <3>1
    <3>2. CASE w # u
      BY <1>2, <1>4, <2>2, <3>2 DEF VerdictsOf, MigInv
    <3> QED BY <3>1, <3>2
  <2> QED BY <1>1, <2>1, <2>2 DEF VerdictsOf
<1> QED BY <1>5, <1>6, <1>7 DEF MigInv

LEMMA MigStays ==
    ASSUME MG!MigrationsAssumption, MigInv, [MG!Next]_(MG!vars)
    PROVE  MigInv'
<1>1. NoLetter \notin Attached
  BY DEF MG!MigrationsAssumption
<1>2. CASE UNCHANGED MG!vars
  <2>1. UNCHANGED <<header, body, verdict, clip, done, launchesTodo, seen, aborted, launchesLate, orphaned, untold, now>>
    BY <1>2 DEF MG!vars
  <2>2. TablesOK' /\ SweepsHold' /\ VerdictsOf'
    BY <2>1 DEF MigInv, TablesOK, SweepsHold, VerdictsOf, MG!Old, MG!Rows, MG!Effective
  <2>3. HealOK' /\ ClipsOK' /\ InOrder' /\ ~aborted'
    BY <2>1 DEF MigInv, HealOK, ClipsOK, Passed, InOrder
  <2> QED BY <2>2, <2>3 DEF MigInv
<1>3. CASE MG!Adopted
  BY <1>1, <1>3, FinishKeepsMig DEF MG!Adopted, AllSteps
<1>4. CASE MG!Swept
  <2>1. \A k \in MG!Keys : header[k] # Ghost
    BY <1>4 DEF MG!Swept, MG!Ghosts
  <2> QED BY <1>1, <1>4, <2>1, FinishKeepsMig DEF MG!Swept, AllSteps
<1>5. CASE MG!Refetched
  <2>1. \A k \in MG!Keys : verdict[k] # NoLetter => header[k] \notin Recent
    BY <1>5 DEF MG!Refetched, MG!Unclear, MG!Rows
  <2> QED BY <1>1, <1>5, <2>1, FinishKeepsMig DEF MG!Refetched, AllSteps
<1>6. CASE MG!Healed
  <2>1. ASSUME ~launchesLate PROVE \A k \in MG!Keys : body[k] # NoLetter => k \in seen
    <3>1. "ghost_sweep1" \in done
      BY <1>6, PassedWhen DEF MG!Healed
    <3>2. \A k \in MG!Keys : body[k] # NoLetter => header[k] \in Letters
      BY <2>1, <3>1, Cleared
    <3>3. NoLetter \notin Letters
      BY DEF MG!MigrationsAssumption
    <3> QED BY <1>6, <3>2, <3>3 DEF MG!Healed, MG!Paired, MG!Rows
  <2> QED BY <1>1, <1>6, <2>1, FinishKeepsMig DEF MG!Healed, AllSteps
<1>7. CASE MG!Walked
  <2>1. PICK step \in {"attach_backfill", "junk_hash1"} :
           MG!At(step) /\ MG!Rows(body) \subseteq seen /\ MG!Finish(step)
    BY <1>7 DEF MG!Walked
  <2>2. \A k \in MG!Keys : body[k] # NoLetter => k \in seen
    BY <2>1 DEF MG!Rows
  <2> QED BY <1>1, <2>1, <2>2, FinishKeepsMig DEF AllSteps
<1>8. CASE \E local \in BOOLEAN : MG!Launch(local)
  BY <1>8, LaunchKeepsMig
<1>9. CASE MG!Quit
  BY <1>9, QuitKeepsMig
<1>10. CASE \E k \in MG!Keys : MG!Adopt(k) \/ MG!SweepGhost(k) \/ MG!Refetch(k) \/ MG!Heal(k)
                           \/ MG!AttachBackfill(k) \/ MG!LearnJunk(k) \/ MG!BackfillMessageIds(k)
  BY <1>10, AdoptKeepsMig, SweepKeepsMig, RefetchKeepsMig, HealKeepsMig, WalkKeepsMig, BackfillKeepsMig
<1>11. CASE \E u \in Uids : MG!StoreHeader(u) \/ MG!StoreBody(u) \/ MG!Judge(u)
  BY <1>11, StoreHeaderKeepsMig, StoreBodyKeepsMig, JudgeKeepsMig
<1> QED BY <1>2, <1>3, <1>4, <1>5, <1>6, <1>7, <1>8, <1>9, <1>10, <1>11 DEF MG!Next

LEMMA MigMeans ==
    ASSUME MG!MigrationsAssumption, MigInv
    PROVE  MG!AdoptionGoesThrough /\ MG!HealedIsRight /\ MG!ClipsAreShown
<1>1. MG!AdoptionGoesThrough
  BY DEF MG!AdoptionGoesThrough, MigInv, SweepsHold
<1>2. MG!HealedIsRight
  <2> SUFFICES ASSUME "body_msgid_heal1" \in done, ~launchesLate, NEW k \in MG!Paired \ untold
               PROVE  /\ body[k] = header[k]
                      /\ k \notin orphaned => verdict[k] \in {NoLetter, header[k]}
    BY DEF MG!HealedIsRight
  <2>1. k \in MG!Keys /\ body[k] # NoLetter
    BY DEF MG!Paired, MG!Rows
  <2>2. "raw_refetch_29" \in done /\ "ghost_sweep1" \in done
    BY DEF MigInv, InOrder
  <2>3. "legacy_adopt1" \in done /\ \A u \in Uids : body[OldKey(u)] = NoLetter
    BY <2>2, Cleared
  <2>4. PICK u \in Uids : k = AcctKey(u)
    BY <2>1, <2>3, KeyFacts
  <2>5. body[k] = header[k]
    BY <2>1 DEF MigInv, HealOK, Passed
  <2>6. verdict[k] \in {NoLetter, body[k]} \/ k \in orphaned
    BY <2>2, <2>3, <2>4 DEF MigInv, VerdictsOf
  <2> QED BY <2>5, <2>6
<1>3. MG!ClipsAreShown
  <2>1. \A k \in MG!Paired : k \in MG!Keys
    BY DEF MG!Paired, MG!Rows
  <2> QED BY <2>1 DEF MG!ClipsAreShown, MigInv, ClipsOK, Passed
<1> QED BY <1>1, <1>2, <1>3

(*****************************************************************************)
(* JS, a JMAP folder kept in step with the server (JmapSync).  A row is      *)
(* what the message was at a state no older than the one heard up to; a      *)
(* change, a delta of one change and a window each move one end of that      *)
(* range.                                                                    *)
(*****************************************************************************)

Account == [Messages -> {"unborn", "elsewhere", "unread", "seen", "destroyed"}]

\* Every request asks from a state the account has been in, and is answered at one
\* no earlier.
Sensible(r) == /\ r = [kind |-> r.kind, since |-> r.since, at |-> r.at]
               /\ r.since \in 0 .. JS!Now /\ r.at \in 0 .. JS!Now
               /\ r.at # 0 => r.since <= r.at
               /\ r.kind = "delta" => r.since # 0

SyncOK == /\ syncLog \in Seq(Account) /\ JS!Now >= 1
          /\ syncRows \in [Messages -> {"none", "unread", "seen"}]
          /\ syncToken \in 0 .. JS!Now /\ syncState \in 0 .. JS!Now /\ consumed \in 0 .. JS!Now
          /\ \A r \in syncRequests : Sensible(r)
FollowInv == SyncOK /\ JS!FollowsTheServer

-----------------------------------------------------------------------------
LEMMA SyncStarts ==
    ASSUME JS!Init
    PROVE  FollowInv
<1> DEFINE t == [m \in Messages |-> IF m = 1 THEN "unread" ELSE "unborn"]
<1>1. t \in Account
  BY DEF Account
<1>2. syncLog = <<t>> /\ syncRows = JS!None /\ syncToken = 0 /\ syncState = 0 /\ consumed = 0 /\ syncRequests = {}
  BY DEF JS!Init
<1> HIDE DEF t
<1>3. syncLog \in Seq(Account) /\ JS!Now = 1
  BY <1>1, <1>2 DEF JS!Now
<1>4. syncRows \in [Messages -> {"none", "unread", "seen"}]
  BY <1>2 DEF JS!None
<1>5. syncToken \in 0 .. JS!Now /\ syncState \in 0 .. JS!Now /\ consumed \in 0 .. JS!Now
  BY <1>2, <1>3
<1>6. SyncOK
  BY <1>2, <1>3, <1>4, <1>5 DEF SyncOK
<1>7. JS!FollowsTheServer
  BY <1>2 DEF JS!FollowsTheServer
<1> QED BY <1>6, <1>7 DEF FollowInv

\* Asked: no row changes, nothing is heard, and what is in flight is sensible.
LEMMA AskingStays ==
    ASSUME FollowInv, UNCHANGED <<syncLog, syncRows, consumed>>, excuses \subseteq excuses',
           syncToken' \in 0 .. JS!Now, syncState' \in 0 .. JS!Now,
           \A r \in syncRequests' : Sensible(r)
    PROVE  FollowInv'
<1>1. JS!Now' = JS!Now
  BY DEF JS!Now
<1>2. \A r \in syncRequests' : Sensible(r)'
  BY <1>1 DEF Sensible
<1>3. SyncOK'
  BY <1>1, <1>2 DEF FollowInv, SyncOK
<1>4. JS!FollowsTheServer'
  <2>1. excuses' = {} => excuses = {}
    OBVIOUS
  <2> QED BY <1>1, <2>1 DEF FollowInv, JS!FollowsTheServer, JS!Row
<1> QED BY <1>3, <1>4 DEF FollowInv

\* An answer was used: what each row shows is shown for every state from the one
\* heard up to, if it was before or is new.
LEMMA HeardStays ==
    ASSUME FollowInv, syncLog' = syncLog, excuses \subseteq excuses',
           syncToken' \in 0 .. JS!Now, syncState' \in 0 .. JS!Now, consumed' \in 0 .. JS!Now,
           \A r \in syncRequests' : Sensible(r),
           syncRows' \in [Messages -> {"none", "unread", "seen"}],
           excuses' = {} /\ consumed' # 0 =>
             \A m \in Messages : \E n \in consumed' .. JS!Now : syncRows'[m] = JS!Row(n, m)
    PROVE  FollowInv'
<1>1. JS!Now' = JS!Now
  BY DEF JS!Now
<1>2. \A r \in syncRequests' : Sensible(r)'
  BY <1>1 DEF Sensible
<1>3. SyncOK'
  BY <1>1, <1>2 DEF FollowInv, SyncOK
<1>4. JS!FollowsTheServer'
  <2>1. consumed' \in Nat
    OBVIOUS
  <2>2. \A n, m : JS!Row(n, m)' = JS!Row(n, m)
    BY DEF JS!Row
  <2> QED BY <1>1, <2>1, <2>2 DEF JS!FollowsTheServer
<1> QED BY <1>3, <1>4 DEF FollowInv

LEMMA ChangeStays ==
    ASSUME FollowInv, NEW m \in Messages, JS!Change(m)
    PROVE  FollowInv'
<1>1. PICK b \in JS!Becomes : syncLog' = Append(syncLog, [syncLog[JS!Now] EXCEPT ![m] = b[2]])
  BY DEF JS!Change
<1> DEFINE t == [syncLog[JS!Now] EXCEPT ![m] = b[2]]
<1>2. UNCHANGED <<syncRows, syncToken, syncState, consumed, excuses, syncRequests>>
  BY DEF JS!Change, JS!client
<1>3. JS!Now \in Nat /\ JS!Now >= 1 /\ syncLog[JS!Now] \in Account
  BY DEF FollowInv, SyncOK, JS!Now
<1>4. t \in Account
  <2>1. b[2] \in {"unborn", "elsewhere", "unread", "seen", "destroyed"}
    BY DEF JS!Becomes
  <2> QED BY <1>3, <2>1 DEF Account
<1>5. syncLog' = Append(syncLog, t)
  BY <1>1
<1> HIDE DEF t
<1>6. syncLog' \in Seq(Account) /\ JS!Now' = JS!Now + 1 /\ \A n \in 1 .. JS!Now : syncLog'[n] = syncLog[n]
  BY <1>4, <1>5 DEF FollowInv, SyncOK, JS!Now
<1>7. SyncOK'
  <2>1. 0 .. JS!Now \subseteq 0 .. JS!Now' /\ JS!Now' >= 1
    BY <1>3, <1>6
  <2>2. syncToken' \in 0 .. JS!Now' /\ syncState' \in 0 .. JS!Now' /\ consumed' \in 0 .. JS!Now'
    BY <1>2, <2>1 DEF FollowInv, SyncOK
  <2>3. \A r \in syncRequests : Sensible(r)'
    BY <2>1 DEF FollowInv, SyncOK, Sensible
  <2> QED BY <1>2, <1>6, <2>1, <2>2, <2>3 DEF FollowInv, SyncOK
<1>8. JS!FollowsTheServer'
  <2> SUFFICES ASSUME excuses = {}, consumed > 0, NEW k \in Messages
               PROVE  \E n \in consumed .. JS!Now' : syncRows[k] = JS!Row(n, k)'
    BY <1>2 DEF JS!FollowsTheServer
  <2>1. PICK n \in consumed .. JS!Now : syncRows[k] = JS!Row(n, k)
    BY DEF FollowInv, JS!FollowsTheServer
  <2>2. n \in 1 .. JS!Now /\ n \in consumed .. JS!Now'
    BY <1>3, <1>6 DEF FollowInv, SyncOK
  <2>3. JS!Row(n, k)' = JS!Row(n, k)
    BY <1>6, <2>2 DEF JS!Row
  <2> QED BY <2>1, <2>2, <2>3
<1> QED BY <1>7, <1>8 DEF FollowInv

LEMMA AskIsSensible ==
    ASSUME NEW kind, NEW since \in 0 .. JS!Now, kind = "delta" => since # 0, JS!Now \in Nat
    PROVE  Sensible(JS!Ask(kind, since))
<1>1. 0 \in 0 .. JS!Now
  OBVIOUS
<1> QED BY <1>1 DEF Sensible, JS!Ask

LEMMA OpenStays ==
    ASSUME FollowInv, NEW why, JS!OpenFolder(why)
    PROVE  FollowInv'
<1>1. JS!Now \in Nat /\ syncToken \in 0 .. JS!Now /\ syncState \in 0 .. JS!Now
  BY DEF FollowInv, SyncOK, JS!Now
<1> DEFINE q == JS!Ask("open", 0)
<1>2. Sensible(q)
  BY <1>1, AskIsSensible
<1>3. /\ syncState' = (IF syncToken # 0 THEN syncToken ELSE syncState) /\ syncRequests' = syncRequests \cup {q}
      /\ UNCHANGED <<syncLog, syncRows, syncToken, consumed>> /\ excuses \subseteq excuses'
  BY DEF JS!OpenFolder, JS!Post, JS!server
<1> HIDE DEF q
<1>4. \A r \in syncRequests' : Sensible(r)
  BY <1>2, <1>3 DEF FollowInv, SyncOK
<1> QED BY <1>1, <1>3, <1>4, AskingStays

LEMMA OpenedStays ==
    ASSUME FollowInv, NEW r \in syncRequests, JS!Opened(r)
    PROVE  FollowInv'
<1>1. JS!Now \in Nat /\ syncToken \in 0 .. JS!Now /\ syncState \in 0 .. JS!Now /\ r.at \in 0 .. JS!Now
  BY DEF FollowInv, SyncOK, JS!Now, Sensible
<1> DEFINE q == JS!Follow(intent)
<1>2. Sensible(q)
  <2>1. 0 \in 0 .. JS!Now
    BY <1>1
  <2>2. \A kind \in {"top", "page", "all"} : Sensible(JS!Ask(kind, 0))
    BY <1>1, <2>1, AskIsSensible
  <2>3. syncState # 0 => Sensible(JS!Ask("delta", syncState))
    BY <1>1, AskIsSensible
  <2> QED BY <2>2, <2>3 DEF JS!Follow
<1>3. /\ syncToken' = r.at /\ syncRequests' = (syncRequests \ {r}) \cup (IF JS!InFolder(r.at) = {} THEN {} ELSE {q})
      /\ UNCHANGED <<syncLog, syncRows, syncState, consumed, excuses>>
  BY DEF JS!Opened, JS!server
<1> HIDE DEF q
<1>4. \A x \in syncRequests' : Sensible(x)
  BY <1>2, <1>3 DEF FollowInv, SyncOK
<1> QED BY <1>1, <1>3, <1>4, AskingStays

\* What is stored of an answer is what the messages were when it was made.
LEMMA StoredIsRow ==
    ASSUME FollowInv, NEW n \in 1 .. JS!Now, NEW m \in JS!InFolder(n)
    PROVE  syncLog[n][m] = JS!Row(n, m) /\ syncLog[n][m] \in {"unread", "seen"}
BY DEF JS!InFolder, JS!Row, JS!Here

LEMMA WindowStays ==
    ASSUME FollowInv, NEW r \in syncRequests, JS!Window(r)
    PROVE  FollowInv'
<1> DEFINE ms == IF r.kind = "top" THEN JS!Newest(r.at) ELSE JS!InFolder(r.at)
<1>1. /\ syncRows' = JS!Stored(r, ms) /\ syncRequests' = syncRequests \ {r} /\ UNCHANGED <<syncLog, syncToken, syncState>>
      /\ consumed' = (IF r.kind = "all" /\ JS!Listed = {} THEN r.at ELSE consumed)
      /\ excuses' = excuses \cup (IF ms # {} THEN JS!Overtaken(r) ELSE {})
      /\ r.at # 0
  BY DEF JS!Window, JS!server
<1>2. JS!Now \in Nat /\ syncToken \in 0 .. JS!Now /\ syncState \in 0 .. JS!Now /\ r.at \in 1 .. JS!Now /\ consumed \in 0 .. JS!Now
  BY <1>1 DEF FollowInv, SyncOK, JS!Now, Sensible
<1>3. ms \subseteq JS!InFolder(r.at) /\ ms \subseteq Messages
  BY DEF JS!Newest, JS!InFolder
<1>4. r.kind = "all" => ms = JS!InFolder(r.at)
  OBVIOUS
<1> HIDE DEF ms
<1>5. \A m \in ms : syncLog[r.at][m] = JS!Row(r.at, m) /\ syncLog[r.at][m] \in {"unread", "seen"}
  BY <1>2, <1>3, StoredIsRow
<1>6. \A m \in Messages : syncRows'[m] = IF m \in ms THEN JS!Row(r.at, m) ELSE syncRows[m]
  BY <1>1, <1>5 DEF JS!Stored
<1>7. syncRows' \in [Messages -> {"none", "unread", "seen"}]
  BY <1>1, <1>5 DEF JS!Stored, FollowInv, SyncOK
<1>8. consumed' \in 0 .. JS!Now
  BY <1>1, <1>2
<1>9. ASSUME excuses' = {}, consumed' # 0, NEW m \in Messages
      PROVE  \E n \in consumed' .. JS!Now : syncRows'[m] = JS!Row(n, m)
  <2>1. excuses = {} /\ (ms # {} => r.at >= consumed)
    <3>1. excuses = {} /\ (ms # {} => JS!Overtaken(r) = {})
      BY <1>1, <1>9
    <3>2. JS!Overtaken(r) = {} => ~(r.at < consumed)
      BY DEF JS!Overtaken
    <3> QED BY <1>2, <3>1, <3>2
  <2>2. CASE r.kind = "all" /\ JS!Listed = {}
    <3>1. consumed' = r.at /\ r.at \in r.at .. JS!Now
      BY <1>1, <1>2, <2>2
    <3>2. CASE m \in ms
      BY <1>6, <3>1, <3>2
    <3>3. CASE m \notin ms
      <4>1. syncRows'[m] = "none"
        BY <1>6, <2>2, <3>3 DEF JS!Listed
      <4>2. JS!Row(r.at, m) = "none"
        BY <1>4, <2>2, <3>3 DEF JS!InFolder, JS!Row
      <4> QED BY <3>1, <4>1, <4>2
    <3> QED BY <3>2, <3>3
  <2>3. CASE ~(r.kind = "all" /\ JS!Listed = {})
    <3>1. consumed' = consumed
      BY <1>1, <2>3
    <3>2. CASE m \in ms
      <4>1. r.at \in consumed .. JS!Now
        BY <1>2, <2>1, <3>2
      <4> QED BY <1>6, <3>1, <3>2, <4>1
    <3>3. CASE m \notin ms
      <4>1. consumed > 0
        BY <1>2, <1>9, <3>1
      <4>2. syncRows[m] \in {JS!Row(n, m) : n \in consumed .. JS!Now}
        BY <2>1, <4>1 DEF FollowInv, JS!FollowsTheServer
      <4> QED BY <1>6, <3>1, <3>3, <4>2
    <3> QED BY <3>2, <3>3
  <2> QED BY <2>2, <2>3
<1>10. \A x \in syncRequests' : Sensible(x)
  BY <1>1 DEF FollowInv, SyncOK
<1>11. excuses \subseteq excuses'
  BY <1>1
<1> QED BY <1>1, <1>2, <1>7, <1>8, <1>9, <1>10, <1>11, HeardStays

\* A delta of one change.  A message it does not name has the same row before and
\* after; one it names gets the row of the moment of the answer, unless what is
\* owed forbids to drop it.
LEMMA DeltaStays ==
    ASSUME FollowInv, NEW r \in syncRequests, JS!Delta(r)
    PROVE  FollowInv'
<1> DEFINE gone == JS!Vanished(r)
           next == JS!NewState(r)
<1>1. /\ syncRows' = [m \in Messages |-> IF m \in gone /\ ~owes THEN "none" ELSE JS!Stored(r, JS!Mine(r))[m]]
      /\ excuses' = excuses \cup (IF owes /\ gone \cap JS!Listed # {} THEN {"dropped"} ELSE {})
                            \cup (IF JS!Named(r) # {} THEN JS!Overtaken(r) ELSE {})
      /\ syncState' = next
      /\ consumed' = (IF r.since <= consumed /\ next > consumed THEN next ELSE consumed)
      /\ syncRequests' = (syncRequests \ {r}) \cup (IF JS!HasMore(r) THEN {JS!Ask("delta", next)} ELSE {})
      /\ UNCHANGED <<syncLog, syncToken>> /\ r.kind = "delta" /\ r.at # 0
  BY DEF JS!Delta, JS!server
<1>2. /\ JS!Now \in Nat /\ syncToken \in 0 .. JS!Now /\ consumed \in 0 .. JS!Now
      /\ r.at \in 1 .. JS!Now /\ r.since \in 1 .. JS!Now /\ r.since <= r.at
  BY <1>1 DEF FollowInv, SyncOK, JS!Now, Sensible
<1>3. next \in 1 .. JS!Now /\ ((next = r.since /\ r.since = r.at) \/ (next = r.since + 1 /\ next <= r.at))
  BY <1>2 DEF JS!NewState
<1>4. JS!Named(r) \subseteq Messages /\ JS!Mine(r) \subseteq JS!Named(r) /\ gone \subseteq JS!Named(r)
  BY DEF JS!Named, JS!Changed, JS!Mine, JS!Vanished
<1>5. \A m \in JS!Mine(r) : syncLog[r.at][m] = JS!Row(r.at, m) /\ syncLog[r.at][m] \in {"unread", "seen"}
  <2>1. JS!Mine(r) \subseteq JS!InFolder(r.at)
    BY DEF JS!Mine
  <2> QED BY <1>2, <2>1, StoredIsRow
<1>6. \A m \in gone : JS!Row(r.at, m) = "none"
  BY DEF JS!Vanished, JS!Row
<1>7. \A m \in Messages : syncRows'[m] = IF m \in gone /\ ~owes THEN "none"
                                     ELSE IF m \in JS!Mine(r) THEN JS!Row(r.at, m) ELSE syncRows[m]
  BY <1>1, <1>5 DEF JS!Stored
<1>8. syncRows' \in [Messages -> {"none", "unread", "seen"}]
  <2>1. syncRows' = [m \in Messages |-> syncRows'[m]]
    BY <1>1
  <2>2. \A m \in Messages : syncRows'[m] \in {"none", "unread", "seen"}
    <3>1. \A m \in Messages : syncRows[m] \in {"none", "unread", "seen"}
      BY DEF FollowInv, SyncOK
    <3>2. \A m \in JS!Mine(r) : JS!Row(r.at, m) \in {"unread", "seen"}
      BY <1>5
    <3> QED BY <1>7, <3>1, <3>2
  <2> QED BY <2>1, <2>2
\* A message that is new to the account and gone again has no row to lose.
<1>9. ASSUME NEW m \in JS!Named(r), m \notin JS!Mine(r), m \notin gone
      PROVE  syncLog[r.since][m] = "unborn" /\ JS!Row(r.at, m) = "none" /\ JS!Row(r.since, m) = "none"
  <2>1. m \in Messages /\ syncLog[r.at][m] \notin JS!Here
    BY <1>4, <1>9 DEF JS!Mine, JS!InFolder
  <2>2. syncLog[r.since][m] = "unborn"
    BY <1>9, <2>1 DEF JS!Vanished, JS!IsUpdate
  <2> QED BY <2>1, <2>2 DEF JS!Row, JS!Here
<1>10. ASSUME NEW m \in Messages, m \notin JS!Named(r)
       PROVE  JS!Row(next, m) = JS!Row(r.since, m)
  <2>1. syncLog[next][m] = syncLog[r.since][m]
    <3>1. CASE r.since = r.at
      BY <1>2, <1>3, <3>1
    <3>2. CASE r.since # r.at
      BY <1>3, <1>10, <3>2 DEF JS!Named, JS!Changed
    <3> QED BY <3>1, <3>2
  <2> QED BY <2>1 DEF JS!Row
<1>11. consumed' \in 0 .. JS!Now /\ syncState' \in 0 .. JS!Now
  BY <1>1, <1>2, <1>3
<1>12. JS!HasMore(r) => Sensible(JS!Ask("delta", next))
  <2>1. next \in 0 .. JS!Now /\ next # 0
    BY <1>2, <1>3
  <2> QED BY <1>2, <2>1, AskIsSensible
<1> HIDE DEF gone, next
<1>13. \A x \in syncRequests' : Sensible(x)
  BY <1>1, <1>12 DEF FollowInv, SyncOK
<1>14. ASSUME excuses' = {}, consumed' # 0, NEW m \in Messages
       PROVE  \E n \in consumed' .. JS!Now : syncRows'[m] = JS!Row(n, m)
  <2>1. excuses = {} /\ (owes => gone \cap JS!Listed = {}) /\ (JS!Named(r) # {} => r.at >= consumed)
    <3>1. excuses = {} /\ (JS!Named(r) # {} => JS!Overtaken(r) = {}) /\ ~(owes /\ gone \cap JS!Listed # {})
      BY <1>1, <1>14
    <3>2. JS!Overtaken(r) = {} => ~(r.at < consumed)
      BY DEF JS!Overtaken
    <3> QED BY <1>2, <3>1, <3>2
  <2>2. consumed' = consumed \/ (consumed' = next /\ consumed = r.since /\ next = r.since + 1)
    BY <1>1, <1>2, <1>3
  <2>3. consumed > 0 /\ consumed' > 0
    BY <1>2, <1>11, <1>14, <2>2
  <2>4. PICK k \in consumed .. JS!Now : syncRows[m] = JS!Row(k, m)
    BY <2>1, <2>3 DEF FollowInv, JS!FollowsTheServer
  <2>5. JS!Named(r) # {} => r.at \in consumed' .. JS!Now
    BY <1>2, <1>3, <2>1, <2>2
  <2>6. CASE m \in JS!Mine(r) \/ m \in gone
    <3>1. syncRows'[m] = JS!Row(r.at, m)
      <4>1. CASE m \in gone /\ ~owes
        BY <1>6, <1>7, <4>1
      <4>2. CASE m \in JS!Mine(r) /\ m \notin gone
        BY <1>7, <4>2
      <4>3. CASE m \in gone /\ owes
        <5>1. syncRows[m] = "none"
          BY <2>1, <4>3 DEF JS!Listed
        <5>2. m \notin JS!Mine(r)
          BY <1>5, <1>6, <4>3
        <5> QED BY <1>6, <1>7, <4>3, <5>1, <5>2
      <4> QED BY <2>6, <4>1, <4>2, <4>3
    <3>2. r.at \in consumed' .. JS!Now
      BY <1>4, <2>5, <2>6
    <3> QED BY <3>1, <3>2
  <2>7. CASE m \notin JS!Mine(r) /\ m \notin gone
    <3>1. syncRows'[m] = JS!Row(k, m)
      BY <1>7, <2>4, <2>7
    <3>2. CASE k \in consumed' .. JS!Now
      BY <3>1, <3>2
    <3>3. CASE k \notin consumed' .. JS!Now
      <4>1. k = r.since /\ consumed' = next /\ next \in consumed' .. JS!Now
        BY <1>2, <1>3, <2>2, <2>4, <3>3
      <4>2. CASE m \in JS!Named(r)
        <5>1. JS!Row(k, m) = JS!Row(r.at, m)
          BY <1>9, <2>7, <4>1, <4>2
        <5>2. r.at \in consumed' .. JS!Now
          BY <2>5, <4>2
        <5> QED BY <3>1, <5>1, <5>2
      <4>3. CASE m \notin JS!Named(r)
        BY <1>10, <3>1, <4>1, <4>3
      <4> QED BY <4>2, <4>3
    <3> QED BY <3>2, <3>3
  <2> QED BY <2>6, <2>7
<1>15. excuses \subseteq excuses'
  BY <1>1
<1> QED BY <1>1, <1>2, <1>8, <1>11, <1>13, <1>14, <1>15, HeardStays

LEMMA InvalidatedStays ==
    ASSUME FollowInv, NEW r \in syncRequests, JS!Invalidated(r)
    PROVE  FollowInv'
<1> DEFINE q == JS!Ask("all", 0)
<1>1. /\ syncRows' = JS!None /\ syncState' = 0 /\ consumed' = 0 /\ syncRequests' = (syncRequests \ {r}) \cup {q}
      /\ UNCHANGED <<syncLog, syncToken, excuses>>
  BY DEF JS!Invalidated, JS!server
<1>2. JS!Now \in Nat /\ syncToken \in 0 .. JS!Now /\ 0 \in 0 .. JS!Now
  BY DEF FollowInv, SyncOK, JS!Now
<1>3. Sensible(q)
  BY <1>2, AskIsSensible
<1> HIDE DEF q
<1>4. \A x \in syncRequests' : Sensible(x)
  BY <1>1, <1>3 DEF FollowInv, SyncOK
<1>5. syncRows' \in [Messages -> {"none", "unread", "seen"}]
  BY <1>1 DEF JS!None
<1> QED BY <1>1, <1>2, <1>4, <1>5, HeardStays

LEMMA SyncStays ==
    ASSUME FollowInv, [JS!Next]_(JS!vars)
    PROVE  FollowInv'
<1>1. JS!Now \in Nat /\ syncToken \in 0 .. JS!Now /\ syncState \in 0 .. JS!Now /\ 0 \in 0 .. JS!Now
      /\ \A r \in syncRequests : Sensible(r)
  BY DEF FollowInv, SyncOK, JS!Now
<1>2. CASE UNCHANGED JS!vars
  <2>1. UNCHANGED <<syncLog, syncRows, consumed, excuses, syncToken, syncState, syncRequests>>
    BY <1>2 DEF JS!vars
  <2> QED BY <1>1, <2>1, AskingStays
<1>3. CASE \E m \in Messages : JS!Change(m)
  BY <1>3, ChangeStays
<1>4. CASE \E why \in {"open", "refresh", "none"} : JS!OpenFolder(why)
  BY <1>4, OpenStays
<1>5. ASSUME NEW r \in syncRequests, JS!Answer(r)
      PROVE  FollowInv'
  <2> DEFINE q == [r EXCEPT !.at = JS!Now]
  <2>1. syncRequests' = (syncRequests \ {r}) \cup {q} /\ UNCHANGED <<syncLog, syncRows, consumed, excuses, syncToken, syncState>>
    BY <1>5 DEF JS!Answer, JS!server, JS!client
  <2>2. q = [kind |-> r.kind, since |-> r.since, at |-> JS!Now]
    <3>1. r = [kind |-> r.kind, since |-> r.since, at |-> r.at]
      BY <1>1 DEF Sensible
    <3> QED BY <3>1
  <2> HIDE DEF q
  <2>3. q.kind = r.kind /\ q.since = r.since /\ q.at = JS!Now
    BY <2>2
  <2>4. r.since \in 0 .. JS!Now /\ (r.kind = "delta" => r.since # 0)
    BY <1>1 DEF Sensible
  <2>5. Sensible(q)
    <3>1. JS!Now \in 0 .. JS!Now /\ r.since <= JS!Now
      BY <1>1, <2>4
    <3> QED BY <2>2, <2>3, <2>4, <3>1 DEF Sensible
  <2>6. \A x \in syncRequests' : Sensible(x)
    BY <1>1, <2>1, <2>5
  <2> QED BY <1>1, <2>1, <2>6, AskingStays
<1>6. ASSUME NEW r \in syncRequests, JS!Refused(r)
      PROVE  FollowInv'
  <2>1. syncRequests' \subseteq syncRequests /\ UNCHANGED <<syncLog, syncRows, consumed, excuses, syncToken, syncState>>
    BY <1>6 DEF JS!Refused, JS!server, JS!client
  <2> QED BY <1>1, <2>1, AskingStays
<1>7. CASE JS!Forget
  <2>1. UNCHANGED <<syncLog, syncRows, consumed, excuses, syncToken, syncState, syncRequests>>
    BY <1>7 DEF JS!Forget, JS!client
  <2> QED BY <1>1, <2>1, AskingStays
<1>8. CASE JS!Owe \/ JS!Drain
  <2>1. UNCHANGED <<syncLog, syncRows, consumed, excuses, syncToken, syncState, syncRequests>>
    BY <1>8 DEF JS!Owe, JS!Drain, JS!server
  <2> QED BY <1>1, <2>1, AskingStays
<1>9. CASE JS!Restart
  <2>1. UNCHANGED <<syncLog, syncRows, consumed, excuses, syncToken>> /\ syncState' = 0 /\ syncRequests' = {}
    BY <1>9 DEF JS!Restart, JS!server
  <2> QED BY <1>1, <2>1, AskingStays
<1> QED BY <1>2, <1>3, <1>4, <1>5, <1>6, <1>7, <1>8, <1>9,
           OpenedStays, WindowStays, DeltaStays, InvalidatedStays DEF JS!Next

LEMMA SyncMeans ==
    ASSUME FollowInv
    PROVE  JS!FollowsTheServer
BY DEF FollowInv

(*****************************************************************************)
(* JN, the JMAP connection (JmapSession).  Whatever waits has what wakes     *)
(* it; a stream is wanted without one only where the answer that wants it    *)
(* came between two connections.                                             *)
(*****************************************************************************)

\* A stream is wanted without one only where the answer that wants it came
\* between two connections; and before the first connect nothing is under way.
WatchInv ==
    /\ user \in Accounts /\ discovery \subseteq Accounts
    /\ login \in Accounts \/ (sessionSession = Nobody /\ sessionRequests = {} /\ discovery = {} /\ stream = "none")
    /\ sessionWanted \in BOOLEAN /\ retry \in BOOLEAN /\ sessionLate \in BOOLEAN
    /\ sessionWanted /\ sessionSession = Nobody => sessionLate
    /\ JN!PushIsWatched
    /\ JN!ParkedIsWoken

LEMMA WatchStarts ==
    ASSUME JN!Init
    PROVE  WatchInv
BY DEF JN!Init, WatchInv, JN!PushIsWatched, JN!ParkedIsWoken

\* Disconnected, with the same requests or fewer.
LEMMA ClosedIsWatched ==
    ASSUME WatchInv, JN!Closed, sessionLate' = sessionLate, user' \in Accounts, login' = login,
           sessionRequests' \subseteq sessionRequests
    PROVE  WatchInv'
BY DEF JN!Closed, WatchInv, JN!PushIsWatched, JN!ParkedIsWoken

\* Push is left alone, and so is the session; nothing new is parked without a
\* discovery.
LEMMA LinkIsWatched ==
    ASSUME WatchInv, UNCHANGED <<user, sessionSession, login, sessionWanted, stream, retry, sessionLate>>,
           discovery' \subseteq Accounts, login \in Accounts,
           (\E r \in sessionRequests' : r.phase = "parked") => discovery' # {} \/ sessionSession = Nobody
    PROVE  WatchInv'
BY DEF WatchInv, JN!PushIsWatched, JN!ParkedIsWoken

LEMMA ReadyIsWatched ==
    ASSUME JN!JmapSessionAssumption, WatchInv, NEW a \in discovery, JN!Ready(a)
    PROVE  WatchInv'
<1>1. UNCHANGED <<user, login, sessionWanted, stream, retry, sessionLate>> /\ sessionSession' = a /\ discovery' = {}
  BY DEF JN!Ready, JN!push
<1>2. \A r \in sessionRequests' : r.phase # "parked"
  <2> DEFINE woken(r) == IF r.phase = "parked" THEN [r EXCEPT !.phase = "posted", !.at = a] ELSE r
             first == [kind |-> "folders", of |-> a, at |-> a, phase |-> "posted", again |-> FALSE]
  <2>1. \A r \in sessionRequests : woken(r).phase # "parked"
    OBVIOUS
  <2>2. first.phase # "parked"
    OBVIOUS
  <2>3. \A r \in sessionRequests' : r = first \/ \E q \in sessionRequests : r = woken(q)
    BY DEF JN!Ready
  <2> HIDE DEF woken, first
  <2> QED BY <2>1, <2>2, <2>3
<1>3. a \in Accounts /\ a # Nobody /\ login \in Accounts
  BY DEF WatchInv, JN!JmapSessionAssumption
<1>4. sessionWanted => stream # "none" \/ retry \/ sessionLate
  BY DEF WatchInv, JN!PushIsWatched
<1> QED BY <1>1, <1>2, <1>3, <1>4 DEF WatchInv, JN!PushIsWatched, JN!ParkedIsWoken

LEMMA RequestIsWatched ==
    ASSUME WatchInv, NEW r \in JN!Posted, JN!Answered(r) \/ JN!Expired(r) \/ JN!Refused(r) \/ JN!Broken(r)
    PROVE  WatchInv'
<1>1. r \in sessionRequests /\ login \in Accounts
  BY DEF JN!Posted, WatchInv
<1>2. CASE JN!Answered(r)
  <2>1. \A k : \A q \in JN!Sent(k) : q.phase # "parked"
    BY DEF JN!Sent
  <2>2. \A q \in sessionRequests' : q.phase = "parked" => q \in sessionRequests
    <3>1. PICK s : sessionRequests' = (sessionRequests \ {r}) \cup s /\ \A q \in s : q.phase # "parked"
      BY <1>2, <2>1 DEF JN!Answered
    <3> QED BY <3>1
  <2>3. UNCHANGED <<user, sessionSession, login, discovery>> /\ sessionLate' = (sessionLate \/ sessionSession = Nobody)
        /\ (JN!StartPush \/ UNCHANGED <<sessionWanted, stream, retry>>)
    BY <1>2 DEF JN!Answered, JN!link, JN!push
  <2>4. JN!ParkedIsWoken'
    BY <2>2, <2>3 DEF WatchInv, JN!ParkedIsWoken
  <2>5. CASE UNCHANGED <<sessionWanted, stream, retry>>
    BY <1>1, <2>3, <2>4, <2>5 DEF WatchInv, JN!PushIsWatched
  <2>6. CASE JN!StartPush
    <3>1. sessionWanted' = TRUE /\ retry' = retry /\ (sessionSession # Nobody => stream' # "none")
      BY <2>6 DEF JN!StartPush
    <3> QED BY <1>1, <2>3, <2>4, <3>1 DEF WatchInv, JN!PushIsWatched
  <2> QED BY <2>3, <2>5, <2>6
<1>3. CASE JN!Expired(r)
  <2>1. UNCHANGED <<user, sessionSession, login, sessionWanted, stream, retry, sessionLate>> /\ discovery' = {login}
    BY <1>3 DEF JN!Expired, JN!push
  <2> QED BY <1>1, <2>1, LinkIsWatched
<1>4. CASE JN!Refused(r)
  <2>1. UNCHANGED <<user, sessionSession, login, discovery, sessionWanted, stream, retry, sessionLate>> /\ sessionRequests' \subseteq sessionRequests
    BY <1>4 DEF JN!Refused, JN!link, JN!push
  <2> QED BY <1>1, <2>1, LinkIsWatched DEF WatchInv, JN!ParkedIsWoken
<1>5. CASE JN!Broken(r)
  <2>1. UNCHANGED <<user, login, sessionLate>> /\ sessionRequests' \subseteq sessionRequests /\ JN!Closed
    BY <1>5 DEF JN!Broken
  <2> QED BY <2>1, ClosedIsWatched DEF WatchInv
<1> QED BY <1>2, <1>3, <1>4, <1>5

LEMMA PushStreamIsWatched ==
    ASSUME WatchInv, JN!StreamOpens \/ JN!StreamEnds \/ JN!StreamExpires \/ JN!StreamRefused \/ JN!Retry
    PROVE  WatchInv'
<1>1. UNCHANGED <<user, sessionSession, login, sessionRequests, sessionLate>>
  BY DEF JN!StreamOpens, JN!StreamEnds, JN!StreamExpires, JN!StreamRefused, JN!Retry, JN!link
<1>2. discovery' = discovery \/ (discovery' = {login} /\ stream # "none")
  BY DEF JN!StreamOpens, JN!StreamEnds, JN!StreamExpires, JN!StreamRefused, JN!Retry, JN!link
<1>3. JN!ParkedIsWoken' /\ discovery' \subseteq Accounts
  BY <1>1, <1>2 DEF WatchInv, JN!ParkedIsWoken
<1>4. CASE JN!StreamOpens
  BY <1>1, <1>2, <1>3, <1>4 DEF JN!StreamOpens, WatchInv, JN!PushIsWatched
<1>5. CASE JN!StreamEnds
  BY <1>1, <1>2, <1>3, <1>5 DEF JN!StreamEnds, JN!link, WatchInv, JN!PushIsWatched
<1>6. CASE JN!StreamExpires
  BY <1>1, <1>2, <1>3, <1>6 DEF JN!StreamExpires, WatchInv, JN!PushIsWatched
<1>7. CASE JN!StreamRefused
  BY <1>1, <1>2, <1>3, <1>7 DEF JN!StreamRefused, JN!link, WatchInv, JN!PushIsWatched
<1>8. CASE JN!Retry
  <2>1. sessionWanted' = sessionWanted /\ retry' = FALSE /\ discovery' = discovery
        /\ (sessionWanted /\ sessionSession # Nobody => stream' # "none")
        /\ (~sessionWanted \/ sessionSession = Nobody => stream' = stream)
    BY <1>8 DEF JN!Retry, JN!link
  <2>2. JN!PushIsWatched'
    BY <1>1, <2>1 DEF JN!PushIsWatched
  <2>3. login \in Accounts \/ (sessionSession' = Nobody /\ sessionRequests' = {} /\ discovery' = {} /\ stream' = "none")
    BY <1>1, <2>1 DEF WatchInv
  <2> QED BY <1>1, <1>3, <2>1, <2>2, <2>3 DEF WatchInv
<1> QED BY <1>4, <1>5, <1>6, <1>7, <1>8

LEMMA WatchStays ==
    ASSUME JN!JmapSessionAssumption, WatchInv, [JN!Next]_(JN!vars)
    PROVE  WatchInv'
<1>1. CASE UNCHANGED JN!vars
  BY <1>1 DEF JN!vars, WatchInv, JN!PushIsWatched, JN!ParkedIsWoken
<1>2. CASE \E a \in Accounts : JN!SwitchAccount(a)
  BY <1>2, ClosedIsWatched DEF JN!SwitchAccount
<1>3. CASE JN!Connect
  BY <1>3 DEF JN!Connect, WatchInv, JN!PushIsWatched, JN!ParkedIsWoken
<1>4. CASE \E a \in discovery : JN!DiscoveryFailed
  <2>1. UNCHANGED <<user, login, sessionLate>> /\ sessionRequests' = JN!Posted /\ discovery # {}
    BY <1>4 DEF JN!DiscoveryFailed
  <2>2. JN!Posted \subseteq sessionRequests /\ \A r \in JN!Posted : r.phase # "parked"
    BY DEF JN!Posted
  <2>3. CASE JN!Closed
    BY <2>1, <2>2, <2>3, ClosedIsWatched DEF WatchInv
  <2>4. CASE discovery' = {} /\ UNCHANGED <<sessionSession, sessionConnected, JN!push>>
    <3>1. UNCHANGED <<sessionSession, sessionWanted, stream, retry>> /\ discovery' \subseteq Accounts
      BY <2>4 DEF JN!push
    <3> QED BY <2>1, <2>2, <3>1, LinkIsWatched DEF WatchInv
  <2> QED BY <1>4, <2>3, <2>4 DEF JN!DiscoveryFailed
<1>5. CASE \E k \in JN!Kinds : JN!Ask(k)
  <2>1. PICK k : sessionRequests' = JN!Sent(k) /\ sessionRequests = {}
        /\ UNCHANGED <<user, sessionSession, login, discovery, sessionWanted, stream, retry, sessionLate>>
    BY <1>5 DEF JN!Ask, JN!link, JN!push
  <2>2. (\A r \in JN!Sent(k) : r.phase # "parked") /\ (sessionSession = Nobody => JN!Sent(k) = {})
    BY DEF JN!Sent
  <2> QED BY <2>1, <2>2 DEF WatchInv, JN!PushIsWatched, JN!ParkedIsWoken
<1> QED BY <1>1, <1>2, <1>3, <1>4, <1>5, ReadyIsWatched, RequestIsWatched, PushStreamIsWatched DEF JN!Next

LEMMA WatchMeans ==
    ASSUME WatchInv
    PROVE  JN!NothingWaitsInVain
BY DEF WatchInv, JN!NothingWaitsInVain

(*****************************************************************************)
(* JT, the tree of a JMAP account (JmapTree).  While listings do not         *)
(* overlap, the tree is between the position and the answer on its way,      *)
(* mailbox by mailbox; the last page closes the gap.                         *)
(*****************************************************************************)

Tree    == [Nodes -> SUBSET (Nodes \cup {JT!Top})]
Request == [since : Nat, at : Nat]

\* What is remembered of a mailbox is what it was at state p or later, up to n; or
\* it was destroyed between them, which the next changes will tell.
Within(history, had, b, p, n) ==
    \/ \E k \in p .. n : had = history[k][b]
    \/ history[p][b] # {} /\ \E k \in (p + 1) .. n : history[k][b] = {}

TreeOK == /\ treeLog \in Seq(Tree) /\ JT!Now >= 1 /\ treeFloor \in 1 .. JT!Now /\ overlapped \in BOOLEAN
          /\ treeState \in 0 .. JT!Now /\ boxes \in Tree /\ treeRequests \subseteq Request
          /\ \A r \in treeRequests : r.since <= JT!Now /\ r.at <= JT!Now /\ (r.at # 0 => r.since <= r.at)

\* One listing at a time: it was asked for from the position there is, and the
\* tree is never ahead of the answer on its way.
Alone == /\ \A r, s \in treeRequests : r = s
         /\ \A r \in treeRequests : r.since \in {0, treeState}
         /\ treeState # 0 => \A b \in Nodes :
              /\ Within(treeLog, boxes[b], b, treeState, JT!Now)
              /\ \A r \in treeRequests : r.since # 0 /\ r.at # 0 => Within(treeLog, boxes[b], b, treeState, r.at)
         /\ JT!ListedAsItWas

TreeInv == TreeOK /\ (~overlapped => Alone)

-----------------------------------------------------------------------------
LEMMA TreeStarts ==
    ASSUME JT!JmapTreeAssumption, JT!Init
    PROVE  TreeInv
<1> DEFINE t == [b \in Nodes |-> IF b = 1 THEN {JT!Top} ELSE {}]
<1>1. t \in Tree /\ [b \in Nodes |-> {}] \in Tree
  BY DEF Tree
<1> HIDE DEF t
<1>2. treeLog \in Seq(Tree) /\ JT!Now = 1
  <2>1. treeLog = <<t>>
    BY DEF JT!Init, t
  <2> QED BY <1>1, <2>1 DEF JT!Now
<1>3. treeRequests = {} /\ listed = {} /\ treeState = 0 /\ treeFloor = 1 /\ overlapped = FALSE /\ boxes \in Tree
  BY <1>1 DEF JT!Init
<1>4. TreeOK
  <2>1. JT!Now >= 1 /\ treeFloor \in 1 .. JT!Now /\ treeState \in 0 .. JT!Now
    BY <1>2, <1>3
  <2>2. overlapped \in BOOLEAN
    BY <1>3
  <2>3. /\ treeRequests \subseteq Request
        /\ \A r \in treeRequests : r.since <= JT!Now /\ r.at <= JT!Now /\ (r.at # 0 => r.since <= r.at)
    BY <1>3
  <2> QED BY <1>2, <1>3, <2>1, <2>2, <2>3 DEF TreeOK
<1> QED BY <1>3, <1>4 DEF TreeInv, Alone, JT!ListedAsItWas

LEMMA WithinLater ==
    ASSUME NEW history, NEW later, NEW had, NEW b, NEW p \in Nat, NEW m \in Nat, NEW n \in Nat,
           p <= m, m <= n,
           \A k \in p .. m : later[k] = history[k],
           Within(history, had, b, p, m)
    PROVE  Within(later, had, b, p, n)
<1>1. p \in p .. m /\ p .. m \subseteq p .. n /\ (p + 1) .. m \subseteq p .. m
      /\ (p + 1) .. m \subseteq (p + 1) .. n
  OBVIOUS
<1> QED BY <1>1 DEF Within

\* The server's tree changes: what was remembered was so before.
LEMMA TreeChangeStays ==
    ASSUME TreeInv, NEW t \in Tree, treeLog' = Append(treeLog, t), UNCHANGED <<treeFloor, JT!client, treeRequests>>
    PROVE  TreeInv'
<1>1. treeLog' \in Seq(Tree) /\ JT!Now' = JT!Now + 1 /\ JT!Now \in Nat
  BY DEF TreeInv, TreeOK, JT!Now
<1>2. \A n \in 1 .. JT!Now : treeLog'[n] = treeLog[n]
  BY <1>1 DEF TreeInv, TreeOK, JT!Now
<1>3. UNCHANGED <<boxes, treeState, listed, overlapped, treeFloor, treeRequests>>
  BY DEF JT!client
<1>4. \A r \in treeRequests : r.since \in Nat /\ r.at \in Nat /\ r.since <= JT!Now /\ r.at <= JT!Now
  BY DEF TreeInv, TreeOK, Request
<1>5. TreeOK'
  BY <1>1, <1>3, <1>4 DEF TreeInv, TreeOK
<1>6. ASSUME ~overlapped
      PROVE  Alone'
  <2>1. Alone
    BY <1>6 DEF TreeInv
  <2>2. ASSUME treeState # 0, NEW b \in Nodes
        PROVE  /\ Within(treeLog', boxes[b], b, treeState, JT!Now')
               /\ \A r \in treeRequests : r.since # 0 /\ r.at # 0 => Within(treeLog', boxes[b], b, treeState, r.at)
    <3>1. treeState \in Nat /\ 1 <= treeState /\ treeState <= JT!Now
      BY <2>2 DEF TreeInv, TreeOK
    <3>2. \A k \in treeState .. JT!Now : treeLog'[k] = treeLog[k]
      <4>1. \A k \in treeState .. JT!Now : k \in 1 .. JT!Now
        BY <1>1, <3>1
      <4> QED BY <1>2, <4>1
    <3>3. Within(treeLog, boxes[b], b, treeState, JT!Now)
      BY <2>1, <2>2 DEF Alone
    <3>4. Within(treeLog', boxes[b], b, treeState, JT!Now')
      <4>1. JT!Now <= JT!Now' /\ JT!Now' \in Nat
        BY <1>1
      <4> QED BY <1>1, <3>1, <3>2, <3>3, <4>1, WithinLater
    <3>5. ASSUME NEW r \in treeRequests, r.since # 0, r.at # 0
          PROVE  Within(treeLog', boxes[b], b, treeState, r.at)
      <4>1. Within(treeLog, boxes[b], b, treeState, r.at) /\ r.since = treeState
        BY <2>1, <2>2, <3>5 DEF Alone
      <4>2. r.at \in Nat /\ treeState <= r.at /\ r.at <= JT!Now
        BY <1>4, <3>5, <4>1 DEF TreeInv, TreeOK
      <4>3. \A k \in treeState .. r.at : treeLog'[k] = treeLog[k]
        <5>1. \A k \in treeState .. r.at : k \in treeState .. JT!Now
          BY <1>1, <3>1, <4>2
        <5> QED BY <3>2, <5>1
      <4>4. r.at <= r.at
        BY <4>2
      <4> QED BY <3>1, <4>1, <4>2, <4>3, <4>4, WithinLater
    <3> QED BY <3>4, <3>5
  <2>3. JT!ListedAsItWas'
    <3> SUFFICES ASSUME NEW l \in listed PROVE \E n \in 1 .. JT!Now' : l = JT!Paths(treeLog'[n])
      BY <1>3 DEF JT!ListedAsItWas
    <3>1. PICK n \in 1 .. JT!Now : l = JT!Paths(treeLog[n])
      BY <2>1 DEF Alone, JT!ListedAsItWas
    <3>2. n \in 1 .. JT!Now'
      BY <1>1, <3>1
    <3>3. treeLog'[n] = treeLog[n]
      BY <1>2, <3>1
    <3> QED BY <3>1, <3>2, <3>3
  <2> QED BY <1>3, <2>1, <2>2, <2>3 DEF Alone
<1> QED BY <1>3, <1>5, <1>6 DEF TreeInv

\* A listing is asked for, answered or refused: the tree and the position are as
\* they were.
LEMMA ListingStays ==
    ASSUME TreeInv, UNCHANGED <<treeLog, treeFloor, boxes, treeState, listed>>,
           overlapped' \in BOOLEAN, ~overlapped' => ~overlapped,
           treeRequests' \subseteq Request,
           \A r \in treeRequests' : r.since <= JT!Now /\ r.at <= JT!Now /\ (r.at # 0 => r.since <= r.at),
           ~overlapped' => \A r, s \in treeRequests' : r = s,
           ~overlapped' => \A r \in treeRequests' : r.since \in {0, treeState} /\ r.at \in {0, JT!Now}
    PROVE  TreeInv'
<1>1. TreeOK' /\ JT!Now' = JT!Now
  BY DEF TreeInv, TreeOK, JT!Now
<1>2. ASSUME ~overlapped'
      PROVE  Alone'
  <2>1. Alone
    BY <1>2 DEF TreeInv
  <2>2. JT!ListedAsItWas'
    BY <1>1, <2>1 DEF Alone, JT!ListedAsItWas
  <2>3. ASSUME treeState # 0, NEW b \in Nodes
        PROVE  /\ Within(treeLog, boxes[b], b, treeState, JT!Now)
               /\ \A r \in treeRequests' : r.since # 0 /\ r.at # 0 => Within(treeLog, boxes[b], b, treeState, r.at)
    BY <1>2, <2>1, <2>3 DEF Alone
  <2> QED BY <1>1, <1>2, <2>2, <2>3 DEF Alone
<1> QED BY <1>1, <1>2 DEF TreeInv

LEMMA AllStays ==
    ASSUME TreeInv, NEW r \in treeRequests, JT!ListAllMailboxes(r)
    PROVE  TreeInv'
<1>1. /\ boxes' = treeLog[r.at] /\ treeState' = r.at /\ listed' = {JT!Paths(treeLog[r.at])}
      /\ treeRequests' = treeRequests \ {r} /\ UNCHANGED <<treeLog, treeFloor, overlapped>> /\ r.at # 0
  BY DEF JT!ListAllMailboxes, JT!server
<1>2. r.at \in 1 .. JT!Now /\ JT!Now' = JT!Now /\ JT!Now \in Nat
  BY <1>1 DEF TreeInv, TreeOK, Request, JT!Now
<1>3. treeLog[r.at] \in Tree
  BY <1>2 DEF TreeInv, TreeOK, JT!Now
<1>4. TreeOK'
  BY <1>1, <1>2, <1>3 DEF TreeInv, TreeOK
<1>5. ASSUME ~overlapped
      PROVE  Alone'
  <2>1. treeRequests' = {}
    BY <1>1, <1>5 DEF TreeInv, Alone
  <2>2. \A b : Within(treeLog, treeLog[r.at][b], b, r.at, JT!Now)
    <3>1. r.at \in r.at .. JT!Now
      BY <1>2
    <3> QED BY <3>1 DEF Within
  <2>3. JT!ListedAsItWas'
    BY <1>1, <1>2 DEF JT!ListedAsItWas
  <2> QED BY <1>1, <1>2, <2>1, <2>2, <2>3 DEF Alone
<1> QED BY <1>1, <1>4, <1>5 DEF TreeInv

\* One change is merged: what was within the answer's reach still is, from the
\* next state on.
LEMMA MergedWithin ==
    ASSUME NEW history, NEW b, NEW x, NEW y, NEW s \in Nat, NEW next \in Nat, NEW n \in Nat,
           (next = s /\ s = n) \/ (next = s + 1 /\ next <= n),
           Within(history, x, b, s, n),
           y = IF history[next][b] = history[s][b] THEN x
               ELSE IF history[next][b] = {} THEN {}
               ELSE IF history[n][b] = {} THEN x ELSE history[n][b]
    PROVE  Within(history, y, b, next, n)
<1>1. s \in s .. n /\ next \in next .. n /\ n \in next .. n /\ s <= n /\ next <= n
  OBVIOUS
<1>2. CASE history[next][b] = history[s][b]
  <2>1. y = x
    BY <1>2
  <2>2. CASE \E k \in s .. n : x = history[k][b]
    <3>1. PICK k \in s .. n : x = history[k][b]
      BY <2>2
    <3>2. k \in next .. n \/ k = s
      BY <3>1
    <3> QED BY <1>1, <1>2, <2>1, <3>1, <3>2 DEF Within
  <2>3. CASE history[s][b] # {} /\ \E k \in (s + 1) .. n : history[k][b] = {}
    <3>1. PICK k \in (s + 1) .. n : history[k][b] = {}
      BY <2>3
    <3>2. k # next
      BY <1>2, <2>3, <3>1
    <3>3. k \in (next + 1) .. n
      BY <3>1, <3>2
    <3> QED BY <1>2, <2>3, <3>1, <3>3 DEF Within
  <2> QED BY <2>2, <2>3 DEF Within
<1>3. CASE history[next][b] # history[s][b] /\ history[next][b] = {}
  BY <1>1, <1>3 DEF Within
<1>4. CASE history[next][b] # history[s][b] /\ history[next][b] # {} /\ history[n][b] = {}
  <2>1. n \in (next + 1) .. n
    <3>1. n # next
      BY <1>4
    <3> QED BY <1>1, <3>1
  <2> QED BY <1>4, <2>1 DEF Within
<1>5. CASE history[next][b] # history[s][b] /\ history[next][b] # {} /\ history[n][b] # {}
  <2>1. y = history[n][b]
    BY <1>5
  <2> QED BY <1>1, <2>1 DEF Within
<1> QED BY <1>2, <1>3, <1>4, <1>5

LEMMA ChangesStay ==
    ASSUME TreeInv, NEW r \in treeRequests, JT!ListChangedMailboxes(r)
    PROVE  TreeInv'
<1> DEFINE s    == r.since
           n    == r.at
           next == JT!NewState(r)
           more == {[since |-> next, at |-> 0]}
<1>1. /\ n # 0 /\ s # 0 /\ boxes' = JT!Merged(r) /\ treeState' = next
      /\ treeRequests' = (treeRequests \ {r}) \cup (IF JT!HasMore(r) THEN more ELSE {})
      /\ listed' = (IF JT!HasMore(r) THEN listed ELSE {JT!Paths(boxes')})
      /\ UNCHANGED <<treeLog, treeFloor, overlapped>>
  BY DEF JT!ListChangedMailboxes, JT!server
<1>2. s \in 1 .. JT!Now /\ n \in 1 .. JT!Now /\ s <= n /\ JT!Now' = JT!Now /\ JT!Now \in Nat
  BY <1>1 DEF TreeInv, TreeOK, Request, JT!Now
<1>3. next \in Nat /\ ((next = s /\ s = n) \/ (next = s + 1 /\ next <= n)) /\ next \in 1 .. JT!Now
  BY <1>2 DEF JT!NewState
<1>4. JT!HasMore(r) <=> next < n
  BY DEF JT!HasMore
<1>5. boxes' \in Tree
  <2>1. \A k \in 1 .. JT!Now : \A b \in Nodes : treeLog[k][b] \in SUBSET (Nodes \cup {JT!Top})
    BY DEF TreeInv, TreeOK, Tree, JT!Now
  <2>2. \A b \in Nodes : boxes[b] \in SUBSET (Nodes \cup {JT!Top})
    BY DEF TreeInv, TreeOK, Tree
  <2> QED BY <1>1, <1>2, <2>1, <2>2 DEF JT!Merged, Tree
<1>6. \A b \in Nodes : boxes'[b] = IF treeLog[next][b] = treeLog[s][b] THEN boxes[b]
                                       ELSE IF treeLog[next][b] = {} THEN {}
                                       ELSE IF treeLog[n][b] = {} THEN boxes[b] ELSE treeLog[n][b]
  BY <1>1 DEF JT!Merged
<1>7. \A q \in more : q \in Request /\ q.since = next /\ q.at = 0
  BY <1>3 DEF Request
<1>8. \A q \in treeRequests' : q \in treeRequests \/ q \in more
  BY <1>1
<1> HIDE DEF next, more
<1>9. TreeOK'
  <2>1. treeRequests' \subseteq Request
    BY <1>7, <1>8 DEF TreeInv, TreeOK
  <2>2. \A q \in treeRequests' : q.since <= JT!Now /\ q.at <= JT!Now /\ (q.at # 0 => q.since <= q.at)
    BY <1>2, <1>3, <1>7, <1>8 DEF TreeInv, TreeOK
  <2> QED BY <1>1, <1>2, <1>3, <1>5, <2>1, <2>2 DEF TreeInv, TreeOK
<1>10. ASSUME ~overlapped
       PROVE  Alone'
  <2>1. Alone /\ treeState = s
    BY <1>1, <1>10 DEF TreeInv, Alone
  <2>2. treeRequests' \subseteq more
    BY <1>1, <2>1 DEF Alone
  <2>3. \A b \in Nodes : Within(treeLog, boxes'[b], b, next, n)
    <3> TAKE b \in Nodes
    <3>1. Within(treeLog, boxes[b], b, s, n)
      BY <1>1, <2>1 DEF Alone
    <3>2. s \in Nat /\ n \in Nat
      BY <1>2
    <3> QED BY <1>3, <1>6, <3>1, <3>2, MergedWithin
  <2>4. \A b \in Nodes : Within(treeLog, boxes'[b], b, next, JT!Now)
    <3>1. n \in Nat /\ next <= n /\ n <= JT!Now
      BY <1>2, <1>3
    <3> QED BY <1>2, <1>3, <2>3, <3>1, WithinLater
  <2>5. JT!ListedAsItWas'
    <3>1. CASE JT!HasMore(r)
      <4>1. listed' = listed
        BY <1>1, <3>1
      <4> QED BY <1>1, <1>2, <2>1, <4>1 DEF Alone, JT!ListedAsItWas
    <3>2. CASE ~JT!HasMore(r)
      <4>1. next = n
        BY <1>2, <1>3, <1>4, <3>2
      <4>2. \A b \in Nodes : boxes'[b] = treeLog[n][b]
        <5> TAKE b \in Nodes
        <5>1. Within(treeLog, boxes'[b], b, n, n)
          BY <2>3, <4>1
        <5>2. n .. n = {n} /\ (n + 1) .. n = {}
          BY <1>2
        <5> QED BY <5>1, <5>2 DEF Within
      <4>3. treeLog[n] \in Tree
        BY <1>2 DEF TreeInv, TreeOK, JT!Now
      <4>4. boxes' = treeLog[n]
        BY <1>5, <4>2, <4>3 DEF Tree
      <4>5. listed' = {JT!Paths(treeLog[n])}
        BY <1>1, <3>2, <4>4
      <4> QED BY <1>1, <1>2, <4>5 DEF JT!ListedAsItWas
    <3> QED BY <3>1, <3>2
  <2>6. \A q \in treeRequests' : q.since = next /\ q.at = 0
    BY <1>7, <2>2
  <2>7. \A p, q \in treeRequests' : p = q
    BY <2>2 DEF more
  <2> QED BY <1>1, <1>2, <2>4, <2>5, <2>6, <2>7 DEF Alone
<1> QED BY <1>1, <1>9, <1>10 DEF TreeInv

LEMMA LostPlaceStays ==
    ASSUME TreeInv, NEW r \in treeRequests, JT!CannotCalculate(r)
    PROVE  TreeInv'
<1> DEFINE again == {[since |-> 0, at |-> 0]}
<1>1. treeState' = 0 /\ treeRequests' = (treeRequests \ {r}) \cup again
      /\ UNCHANGED <<treeLog, treeFloor, boxes, listed, overlapped>>
  BY DEF JT!CannotCalculate, JT!server
<1>2. \A q \in again : q \in Request /\ q.since = 0 /\ q.at = 0
  BY DEF Request
<1>3. \A p, q \in again : p = q
  OBVIOUS
<1> HIDE DEF again
<1>4. JT!Now' = JT!Now /\ JT!Now \in Nat
  BY <1>1 DEF TreeInv, TreeOK, JT!Now
<1>5. \A q \in treeRequests' : q \in treeRequests \/ q \in again
  BY <1>1
<1>6. TreeOK'
  <2>1. treeRequests' \subseteq Request
    BY <1>2, <1>5 DEF TreeInv, TreeOK
  <2>2. \A q \in treeRequests' : q.since <= JT!Now /\ q.at <= JT!Now /\ (q.at # 0 => q.since <= q.at)
    BY <1>2, <1>4, <1>5 DEF TreeInv, TreeOK
  <2> QED BY <1>1, <1>4, <2>1, <2>2 DEF TreeInv, TreeOK
<1>7. ASSUME ~overlapped
      PROVE  Alone'
  <2>1. treeRequests' \subseteq again
    BY <1>1, <1>7 DEF TreeInv, Alone
  <2>2. JT!ListedAsItWas'
    BY <1>1, <1>4, <1>7 DEF TreeInv, Alone, JT!ListedAsItWas
  <2> QED BY <1>1, <1>2, <1>3, <2>1, <2>2 DEF Alone
<1> QED BY <1>1, <1>6, <1>7 DEF TreeInv

LEMMA TreeStays ==
    ASSUME TreeInv, [JT!Next]_(JT!vars)
    PROVE  TreeInv'
<1>1. CASE UNCHANGED JT!vars
  BY <1>1 DEF JT!vars, TreeInv, TreeOK, Alone, JT!ListedAsItWas, JT!Now
<1>2. ASSUME NEW b \in Nodes, NEW as \in {{}} \cup {{p} : p \in Nodes \cup {JT!Top}}, JT!Change(b, as)
      PROVE  TreeInv'
  <2> DEFINE old == treeLog[JT!Now]
             t   == [old EXCEPT ![b] = as]
  <2>1. old \in Tree
    BY DEF TreeInv, TreeOK, JT!Now
  <2>4. as \in SUBSET (Nodes \cup {JT!Top})
    OBVIOUS
  <2> HIDE DEF old
  <2>2. t \in Tree
    BY <2>1, <2>4 DEF Tree
  <2>3. treeLog' = Append(treeLog, t) /\ UNCHANGED <<treeFloor, JT!client, treeRequests>>
    BY <1>2 DEF JT!Change, old
  <2> HIDE DEF t
  <2> QED BY <2>2, <2>3, TreeChangeStays
<1>3. CASE JT!Forget
  <2>1. UNCHANGED <<treeLog, boxes, treeState, listed, overlapped, treeRequests>> /\ treeFloor' = JT!Now /\ JT!Now' = JT!Now
    BY <1>3 DEF JT!Forget, JT!client, JT!Now
  <2>2. JT!Now \in Nat
    BY DEF TreeInv, TreeOK, JT!Now
  <2>3. TreeOK'
    BY <2>1, <2>2 DEF TreeInv, TreeOK
  <2> QED BY <2>1, <2>3 DEF TreeInv, Alone, JT!ListedAsItWas
<1>4. CASE JT!ListFolders
  <2> DEFINE q == JT!Ask(treeState)
  <2>1. treeRequests' = treeRequests \cup {q} /\ overlapped' = (overlapped \/ treeRequests # {})
        /\ UNCHANGED <<treeLog, treeFloor, boxes, treeState, listed>>
    BY <1>4 DEF JT!ListFolders, JT!server
  <2>2. treeState \in Nat /\ treeState <= JT!Now /\ JT!Now \in Nat
    BY DEF TreeInv, TreeOK, JT!Now
  <2>3. q \in Request /\ q.since \in {0, treeState} /\ q.at = 0
    BY <2>2 DEF JT!Ask, Request
  <2> HIDE DEF q
  <2>4. treeRequests' \subseteq Request
    BY <2>1, <2>3 DEF TreeInv, TreeOK
  <2>5. \A r \in treeRequests' : r.since <= JT!Now /\ r.at <= JT!Now /\ (r.at # 0 => r.since <= r.at)
    BY <2>1, <2>2, <2>3 DEF TreeInv, TreeOK
  <2>6. ~overlapped' => ~overlapped /\ treeRequests' = {q}
    BY <2>1
  <2>7. overlapped' \in BOOLEAN
    BY <2>1 DEF TreeInv, TreeOK
  <2>8. ~overlapped' => \A r, s \in treeRequests' : r = s
    BY <2>6
  <2>9. ~overlapped' => \A r \in treeRequests' : r.since \in {0, treeState} /\ r.at \in {0, JT!Now}
    BY <2>3, <2>6
  <2> QED BY <2>1, <2>4, <2>5, <2>6, <2>7, <2>8, <2>9, ListingStays
<1>5. ASSUME NEW r \in treeRequests, JT!Answer(r)
      PROVE  TreeInv'
  <2> DEFINE q == [r EXCEPT !.at = JT!Now]
  <2>1. treeRequests' = (treeRequests \ {r}) \cup {q} /\ UNCHANGED <<treeLog, treeFloor, boxes, treeState, listed, overlapped>>
    BY <1>5 DEF JT!Answer, JT!server, JT!client
  <2>2. JT!Now \in Nat /\ r \in Request /\ r.since <= JT!Now
    BY DEF TreeInv, TreeOK, JT!Now
  <2>3. q \in Request /\ q.since = r.since /\ q.at = JT!Now
    BY <2>2 DEF Request
  <2> HIDE DEF q
  <2>4. treeRequests' \subseteq Request
    BY <2>1, <2>3 DEF TreeInv, TreeOK
  <2>5. \A p \in treeRequests' : p.since <= JT!Now /\ p.at <= JT!Now /\ (p.at # 0 => p.since <= p.at)
    BY <2>1, <2>2, <2>3 DEF TreeInv, TreeOK
  <2>6. ~overlapped' => treeRequests' = {q} /\ r.since \in {0, treeState}
    BY <2>1 DEF TreeInv, Alone
  <2>7. ~overlapped' => \A p, s \in treeRequests' : p = s
    BY <2>6
  <2>8. ~overlapped' => \A p \in treeRequests' : p.since \in {0, treeState} /\ p.at \in {0, JT!Now}
    BY <2>3, <2>6
  <2>9. overlapped' \in BOOLEAN
    BY <2>1 DEF TreeInv, TreeOK
  <2> QED BY <2>1, <2>4, <2>5, <2>7, <2>8, <2>9, ListingStays
<1>6. ASSUME NEW r \in treeRequests, JT!Refused(r)
      PROVE  TreeInv'
  <2>1. treeRequests' = treeRequests \ {r} /\ UNCHANGED <<treeLog, treeFloor, boxes, treeState, listed, overlapped>>
    BY <1>6 DEF JT!Refused, JT!server, JT!client
  <2>2. \A q \in treeRequests' : q \in treeRequests
    BY <2>1
  <2>3. ~overlapped' => treeRequests' = {}
    BY <2>1 DEF TreeInv, Alone
  <2>4. overlapped' \in BOOLEAN
    BY <2>1 DEF TreeInv, TreeOK
  <2> QED BY <2>1, <2>2, <2>3, <2>4, ListingStays DEF TreeInv, TreeOK
<1> QED BY <1>1, <1>2, <1>3, <1>4, <1>5, <1>6, AllStays, ChangesStay, LostPlaceStays DEF JT!Next

LEMMA TreeMeans ==
    ASSUME TreeInv
    PROVE  JT!TreeIsWhole
<1> SUFFICES ASSUME ~overlapped, treeState # 0, NEW b \in Nodes
             PROVE  LET since == {treeLog[n][b] : n \in treeState .. JT!Now} IN boxes[b] \in since \/ {} \in since
  BY DEF JT!TreeIsWhole, JT!TreeIsCurrent, TreeInv, Alone
<1>1. Within(treeLog, boxes[b], b, treeState, JT!Now)
  BY DEF TreeInv, Alone
<1>2. (treeState + 1) .. JT!Now \subseteq treeState .. JT!Now
  BY DEF TreeInv, TreeOK, JT!Now
<1> QED BY <1>1, <1>2 DEF Within

(*****************************************************************************)
(* AP, the poll of the other accounts (AccountPoll).  A round is one visit   *)
(* that has not moved it on, with its deadline; a pass is at one folder,     *)
(* and only an answer of its step may store what was collected there.        *)
(*****************************************************************************)

\* What is true of the visits: at most one of them has not moved the round on,
\* one exactly while the round is busy, and its deadline is armed.
IsVisit(v) == /\ v = [account |-> v.account, advanced |-> v.advanced, running |-> v.running,
                      armed |-> v.armed, tick |-> v.tick]
              /\ {v.advanced, v.running, v.armed} \subseteq BOOLEAN
Waiting(vs) == {v \in vs : ~v.advanced}
VisitsOK(vs, b) == /\ \A v \in vs : IsVisit(v)
                   /\ b => \E w : Waiting(vs) = {w} /\ w.armed
                   /\ ~b => Waiting(vs) = {}
RoundInv == busy \in BOOLEAN /\ VisitsOK(visits, busy)

\* What is true of the pass: an answer that is in time is about the folder the
\* pass is at, as are the headers collected, and the step it is at has a deadline.
Reply == [kind : {"open", "fetch", "move"}, folder : AP!Mailboxes, step : Nat, token : {1, 2}]
PassInv ==
    /\ roundsGen \in Nat /\ left \in Seq(AP!Mailboxes)
    /\ current \subseteq AP!Mailboxes /\ \A x, y \in current : x = y
    /\ roundsRows \subseteq current
    /\ roundsToken \in [AP!Mailboxes -> {1, 2}] /\ validity \in [AP!Mailboxes -> {1, 2}]
    /\ cached \in [AP!Mailboxes -> SUBSET AP!Mailboxes] /\ \A f \in AP!Mailboxes : cached[f] \subseteq {f}
    /\ replies \subseteq Reply
    /\ \A r \in replies : r.step <= roundsGen /\ (r.step = roundsGen => r.folder \in current)
    /\ live => roundsGen \in deadlines

PollInv == RoundInv /\ PassInv

-----------------------------------------------------------------------------
LEMMA VisitFields ==
    ASSUME NEW v, IsVisit(v)
    PROVE  /\ IsVisit([v EXCEPT !.running = FALSE]) /\ [v EXCEPT !.running = FALSE].advanced = v.advanced
           /\ IsVisit([v EXCEPT !.armed = FALSE]) /\ [v EXCEPT !.armed = FALSE].advanced = v.advanced
           /\ IsVisit([v EXCEPT !.advanced = TRUE]) /\ [v EXCEPT !.advanced = TRUE].advanced = TRUE
<1> DEFINE rec(a, b, c, d, e) == [account |-> a, advanced |-> b, running |-> c, armed |-> d, tick |-> e]
           no == FALSE
           yes == TRUE
<1>1. v = rec(v.account, v.advanced, v.running, v.armed, v.tick)
      /\ v.advanced \in BOOLEAN /\ v.running \in BOOLEAN /\ v.armed \in BOOLEAN
  BY DEF IsVisit
<1>2. \A a, b, c, d, e : /\ rec(a, b, c, d, e).account = a /\ rec(a, b, c, d, e).advanced = b
                          /\ rec(a, b, c, d, e).running = c /\ rec(a, b, c, d, e).armed = d
                          /\ rec(a, b, c, d, e).tick = e
  OBVIOUS
<1>3. \A a, b, c, d, e, x : /\ [rec(a, b, c, d, e) EXCEPT !.running = x] = rec(a, b, x, d, e)
                             /\ [rec(a, b, c, d, e) EXCEPT !.armed = x] = rec(a, b, c, x, e)
                             /\ [rec(a, b, c, d, e) EXCEPT !.advanced = x] = rec(a, x, c, d, e)
  OBVIOUS
<1>4. no \in BOOLEAN /\ yes \in BOOLEAN
  OBVIOUS
<1>5. \A w : IsVisit(w) <=> /\ w = rec(w.account, w.advanced, w.running, w.armed, w.tick)
                            /\ w.advanced \in BOOLEAN /\ w.running \in BOOLEAN /\ w.armed \in BOOLEAN
  BY DEF IsVisit
<1> HIDE DEF rec, no, yes
<1>6. [v EXCEPT !.running = no] = rec(v.account, v.advanced, no, v.armed, v.tick)
  BY <1>1, <1>3
<1>7. [v EXCEPT !.armed = no] = rec(v.account, v.advanced, v.running, no, v.tick)
  BY <1>1, <1>3
<1>8. [v EXCEPT !.advanced = yes] = rec(v.account, yes, v.running, v.armed, v.tick)
  BY <1>1, <1>3
<1>9. IsVisit([v EXCEPT !.running = no]) /\ [v EXCEPT !.running = no].advanced = v.advanced
  BY <1>1, <1>2, <1>4, <1>5, <1>6
<1>10. IsVisit([v EXCEPT !.armed = no]) /\ [v EXCEPT !.armed = no].advanced = v.advanced
  BY <1>1, <1>2, <1>4, <1>5, <1>7
<1>11. IsVisit([v EXCEPT !.advanced = yes]) /\ [v EXCEPT !.advanced = yes].advanced = yes
  BY <1>1, <1>2, <1>4, <1>5, <1>8
<1> QED BY <1>9, <1>10, <1>11 DEF no, yes

LEMMA NewVisit ==
    ASSUME NEW a
    PROVE  IsVisit(AP!Visit(a)) /\ ~AP!Visit(a).advanced /\ AP!Visit(a).armed
BY DEF IsVisit, AP!Visit

\* Step() ends the round or makes one new visit: the visits it is given have all
\* moved the round on.
LEMMA StepVisits ==
    ASSUME NEW vs, NEW q, \A v \in vs : IsVisit(v) /\ v.advanced, AP!Step(vs, q)
    PROVE  RoundInv'
<1> DEFINE kept == {v \in vs : AP!Pending(v)}
<1>1. \A v \in kept : IsVisit(v) /\ v.advanced
  OBVIOUS
<1>2. CASE q = <<>>
  <2>1. busy' = FALSE /\ visits' = kept
    BY <1>2 DEF AP!Step
  <2> HIDE DEF kept
  <2>2. Waiting(visits') = {}
    BY <1>1, <2>1 DEF Waiting
  <2> QED BY <1>1, <2>1, <2>2 DEF RoundInv, VisitsOK
<1>3. CASE q # <<>>
  <2> DEFINE w == AP!Visit(Head(q))
  <2>1. busy' = TRUE /\ visits' = kept \cup {w}
    BY <1>3 DEF AP!Step
  <2>2. IsVisit(w) /\ ~w.advanced /\ w.armed
    BY NewVisit
  <2> HIDE DEF kept, w
  <2>3. Waiting(visits') = {w}
    BY <1>1, <2>1, <2>2 DEF Waiting
  <2> QED BY <1>1, <2>1, <2>2, <2>3 DEF RoundInv, VisitsOK
<1> QED BY <1>2, <1>3

LEMMA AdvanceVisits ==
    ASSUME RoundInv, NEW v \in visits, NEW next, IsVisit(next), next.advanced = v.advanced,
           AP!Advance(v, next)
    PROVE  RoundInv'
<1>1. \A w \in visits : IsVisit(w)
  BY DEF RoundInv, VisitsOK
<1>2. CASE v.advanced
  <2>1. visits' = {w \in (visits \ {v}) \cup {next} : AP!Pending(w)} /\ busy' = busy
    BY <1>2 DEF AP!Advance
  <2>2. \A w \in visits' : IsVisit(w)
    BY <1>1, <2>1
  <2>3. Waiting(visits') = {w \in Waiting(visits) : AP!Pending(w)}
    BY <1>2, <2>1 DEF Waiting
  <2>4. ASSUME NEW w, Waiting(visits) = {w}, w.armed
        PROVE  Waiting(visits') = {w}
    BY <2>3, <2>4 DEF AP!Pending
  <2> QED BY <2>1, <2>2, <2>3, <2>4 DEF RoundInv, VisitsOK
<1>3. CASE ~v.advanced
  <2> DEFINE moved == [next EXCEPT !.advanced = TRUE]
             vs    == (visits \ {v}) \cup {moved}
  <2>1. IsVisit(moved) /\ moved.advanced
    BY VisitFields
  <2>2. AP!Step(vs, queue)
    BY <1>3 DEF AP!Advance
  <2>3. Waiting(visits) = {v}
    BY <1>3 DEF RoundInv, VisitsOK, Waiting
  <2> HIDE DEF moved
  <2>4. \A w \in vs : IsVisit(w) /\ w.advanced
    BY <1>1, <2>1, <2>3 DEF Waiting
  <2> HIDE DEF vs
  <2> QED BY <2>2, <2>4, StepVisits
<1>4. v.advanced \in BOOLEAN
  BY <1>1 DEF IsVisit
<1> QED BY <1>2, <1>3, <1>4

LEMMA RoundStays ==
    ASSUME RoundInv, AP!Rounds
    PROVE  RoundInv'
<1>1. ASSUME NEW a, AP!Tick(a)
      PROVE  RoundInv'
  <2>1. \A v \in visits : IsVisit(v) /\ v.advanced
    <3>1. busy = FALSE
      BY <1>1 DEF AP!Tick, RoundInv
    <3>2. Waiting(visits) = {} /\ \A v \in visits : IsVisit(v)
      BY <3>1 DEF RoundInv, VisitsOK
    <3> QED BY <3>2 DEF Waiting
  <2>2. PICK q : AP!Step(visits, q)
    BY <1>1 DEF AP!Tick
  <2> QED BY <2>1, <2>2, StepVisits
<1>2. ASSUME NEW v \in visits, AP!Done(v) \/ AP!Deadline(v)
      PROVE  RoundInv'
  <2>1. IsVisit(v)
    BY DEF RoundInv, VisitsOK
  <2>2. PICK next : IsVisit(next) /\ next.advanced = v.advanced /\ AP!Advance(v, next)
    BY <1>2, <2>1, VisitFields DEF AP!Done, AP!Deadline
  <2> QED BY <2>2, AdvanceVisits
<1> QED BY <1>1, <1>2 DEF AP!Rounds

-----------------------------------------------------------------------------
LEMMA WalkStays ==
    ASSUME PassInv, NEW rs \in SUBSET replies, NEW ds,
           AP!Walk(rs, ds), roundsToken' \in [AP!Mailboxes -> {1, 2}], validity' = validity,
           cached' \in [AP!Mailboxes -> SUBSET AP!Mailboxes], \A f \in AP!Mailboxes : cached'[f] \subseteq {f}
    PROVE  PassInv'
<1>1. roundsGen' = roundsGen + 1 /\ roundsGen' \in Nat /\ validity' \in [AP!Mailboxes -> {1, 2}] /\ roundsGen < roundsGen'
  BY DEF AP!Walk, PassInv
<1>2. CASE left = <<>>
  <2>1. /\ live' = FALSE /\ replies' = {} /\ left' = left /\ current' = current /\ roundsRows' = roundsRows
    BY <1>2 DEF AP!Walk
  <2> QED BY <1>1, <2>1 DEF PassInv
<1>3. CASE left # <<>>
  <2> DEFINE f == Head(left)
             r == AP!Ask("open", f)
  <2>1. f \in AP!Mailboxes /\ Tail(left) \in Seq(AP!Mailboxes)
    BY <1>3 DEF PassInv
  <2>2. /\ left' = Tail(left) /\ current' = {f} /\ roundsRows' = {}
        /\ replies' = rs \cup {r} /\ deadlines' = ds \cup {roundsGen'}
    BY <1>3 DEF AP!Walk
  <2>3. r \in Reply /\ r.step = roundsGen' /\ r.folder = f
    <3>1. roundsToken[f] \in {1, 2}
      BY <2>1 DEF PassInv
    <3> QED BY <1>1, <2>1, <3>1 DEF AP!Ask, Reply
  <2> HIDE DEF f, r
  <2>4. \A x \in rs : x \in Reply /\ x.step <= roundsGen /\ x.step \in Nat
    BY DEF PassInv, Reply
  <2>5. replies' \subseteq Reply
    BY <2>2, <2>3, <2>4
  <2>6. ASSUME NEW x \in replies'
        PROVE  x.step <= roundsGen' /\ (x.step = roundsGen' => x.folder \in current')
    <3>1. CASE x = r
      BY <1>1, <2>2, <2>3, <3>1
    <3>2. CASE x \in rs
      <4>1. x.step <= roundsGen /\ x.step \in Nat
        BY <2>4, <3>2
      <4> QED BY <1>1, <4>1 DEF PassInv
    <3> QED BY <2>2, <3>1, <3>2
  <2>7. live' => roundsGen' \in deadlines'
    BY <2>2
  <2>8. current' \subseteq AP!Mailboxes /\ (\A x, y \in current' : x = y) /\ roundsRows' \subseteq current'
        /\ left' \in Seq(AP!Mailboxes)
    BY <2>1, <2>2
  <2> QED BY <1>1, <2>5, <2>6, <2>7, <2>8 DEF PassInv
<1> QED BY <1>2, <1>3

\* An answer is dropped, or asks for another: nothing else of the pass changes but
\* perhaps the step it is at.
LEMMA SameStays ==
    ASSUME PassInv, UNCHANGED <<left, current, roundsRows, roundsGen, cached, roundsToken, validity>>,
           replies' \subseteq Reply,
           \A r \in replies' : r.step <= roundsGen /\ (r.step = roundsGen => r.folder \in current),
           live' => roundsGen \in deadlines'
    PROVE  PassInv'
BY DEF PassInv

LEMMA FolderOpenedStays ==
    ASSUME PassInv, NEW r \in replies, AP!FolderOpened(r)
    PROVE  PassInv'
<1>1. r.folder \in AP!Mailboxes /\ cached' = cached /\ validity' = validity
  BY DEF PassInv, Reply, AP!FolderOpened, AP!folders
<1>2. CASE r.folder \notin current
  <2>1. /\ replies' = replies \ {r} /\ roundsToken' = roundsToken
        /\ UNCHANGED <<left, current, roundsGen, roundsRows, deadlines, live>>
    BY <1>2 DEF AP!FolderOpened
  <2>2. replies' \subseteq Reply /\ \A x \in replies' : x \in replies
    BY <2>1 DEF PassInv
  <2> QED BY <1>1, <2>1, <2>2, SameStays DEF PassInv
<1>3. CASE r.folder \in current
  <2>1. roundsToken' = [roundsToken EXCEPT ![r.folder] = validity[r.folder]]
    BY <1>3 DEF AP!FolderOpened
  <2>2. roundsToken' \in [AP!Mailboxes -> {1, 2}]
    <3>1. validity[r.folder] \in {1, 2}
      BY <1>1 DEF PassInv
    <3> QED BY <1>1, <2>1, <3>1 DEF PassInv
  <2>3. CASE AP!Walk(replies \ {r}, deadlines)
    BY <1>1, <2>2, <2>3, WalkStays DEF PassInv
  <2>4. CASE /\ roundsGen' = roundsGen + 1 /\ deadlines' = deadlines \cup {roundsGen'}
             /\ replies' = (replies \ {r}) \cup {AP!Ask("fetch", r.folder)}
             /\ UNCHANGED <<left, current, roundsRows, live>>
    <3> DEFINE a == AP!Ask("fetch", r.folder)
    <3>1. roundsGen' \in Nat /\ roundsGen < roundsGen' /\ roundsGen \in Nat
      BY <2>4 DEF PassInv
    <3>2. a \in Reply /\ a.step = roundsGen' /\ a.folder = r.folder
      <4>1. roundsToken[r.folder] \in {1, 2}
        BY <1>1 DEF PassInv
      <4> QED BY <1>1, <3>1, <4>1 DEF AP!Ask, Reply
    <3> HIDE DEF a
    <3>3. replies' = (replies \ {r}) \cup {a}
      BY <2>4 DEF a
    <3>4. replies' \subseteq Reply
      BY <3>2, <3>3 DEF PassInv
    <3>5. ASSUME NEW x \in replies'
          PROVE  x.step <= roundsGen' /\ (x.step = roundsGen' => x.folder \in current')
      <4>1. CASE x = a
        BY <1>3, <2>4, <3>1, <3>2, <4>1
      <4>2. CASE x \in replies
        <5>1. x.step <= roundsGen /\ x.step \in Nat
          BY <4>2 DEF PassInv, Reply
        <5> QED BY <3>1, <5>1
      <4> QED BY <3>3, <4>1, <4>2
    <3>6. roundsGen' \in deadlines'
      BY <2>4
    <3> QED BY <1>1, <2>2, <2>4, <3>1, <3>4, <3>5, <3>6 DEF PassInv
  <2> QED BY <1>3, <2>3, <2>4 DEF AP!FolderOpened
<1> QED BY <1>2, <1>3

LEMMA StoredStays ==
    ASSUME PassInv, NEW r \in replies, AP!Stored(r)
    PROVE  PassInv'
<1>1. r \in Reply /\ r.folder \in AP!Mailboxes /\ roundsToken' = roundsToken /\ validity' = validity
  BY DEF PassInv, Reply, AP!Stored
<1>2. CASE ~AP!InTime(r)
  <2>1. /\ replies' = replies \ {r} /\ cached' = cached
        /\ UNCHANGED <<left, current, roundsGen, roundsRows, deadlines, live>>
    BY <1>2 DEF AP!Stored
  <2>2. replies' \subseteq Reply /\ \A x \in replies' : x \in replies
    BY <2>1 DEF PassInv
  <2> QED BY <1>1, <2>1, <2>2, SameStays DEF PassInv
<1>3. CASE AP!InTime(r)
  <2>1. roundsRows \subseteq {r.folder}
    BY <1>3 DEF AP!InTime, PassInv
  <2>2. cached' = [cached EXCEPT ![r.folder] = @ \cup roundsRows]
    BY <1>3 DEF AP!Stored
  <2>3. cached' \in [AP!Mailboxes -> SUBSET AP!Mailboxes] /\ \A f \in AP!Mailboxes : cached'[f] \subseteq {f}
    <3>1. cached[r.folder] \cup roundsRows \in SUBSET AP!Mailboxes /\ cached[r.folder] \cup roundsRows \subseteq {r.folder}
      BY <1>1, <2>1 DEF PassInv
    <3>2. cached' \in [AP!Mailboxes -> SUBSET AP!Mailboxes]
      BY <1>1, <2>2, <3>1 DEF PassInv
    <3>3. ASSUME NEW f \in AP!Mailboxes
          PROVE  cached'[f] \subseteq {f}
      <4>1. CASE f = r.folder
        BY <1>1, <2>2, <3>1, <4>1 DEF PassInv
      <4>2. CASE f # r.folder
        BY <2>2, <4>2 DEF PassInv
      <4> QED BY <4>1, <4>2
    <3> QED BY <3>2, <3>3
  <2>4. CASE AP!Walk(replies \ {r}, deadlines)
    BY <1>1, <2>3, <2>4, WalkStays DEF PassInv
  <2>5. CASE /\ replies' = (replies \ {r}) \cup {[r EXCEPT !.kind = "move"]}
             /\ UNCHANGED <<left, current, roundsGen, roundsRows, deadlines, live>>
    <3> DEFINE a == [r EXCEPT !.kind = "move"]
    <3>1. a \in Reply /\ a.step = r.step /\ a.folder = r.folder
      BY <1>1 DEF Reply
    <3> HIDE DEF a
    <3>2. replies' = (replies \ {r}) \cup {a}
      BY <2>5 DEF a
    <3>3. replies' \subseteq Reply
          /\ \A x \in replies' : x.step <= roundsGen /\ (x.step = roundsGen => x.folder \in current)
      BY <3>1, <3>2 DEF PassInv
    <3> QED BY <1>1, <2>3, <2>5, <3>3 DEF PassInv
  <2> QED BY <1>3, <2>4, <2>5 DEF AP!Stored
<1> QED BY <1>2, <1>3

LEMMA MovedStays ==
    ASSUME PassInv, NEW r \in replies, AP!Moved(r)
    PROVE  PassInv'
<1>1. cached' = cached /\ validity' = validity /\ roundsToken' = roundsToken
  BY DEF AP!Moved, AP!folders
<1>2. CASE AP!Walk(replies \ {r}, deadlines)
  BY <1>1, <1>2, WalkStays DEF PassInv
<1>3. CASE replies' = replies \ {r} /\ UNCHANGED <<left, current, roundsGen, roundsRows, deadlines, live>>
  <2>1. replies' \subseteq Reply /\ \A x \in replies' : x \in replies
    BY <1>3 DEF PassInv
  <2> QED BY <1>1, <1>3, <2>1, SameStays DEF PassInv
<1> QED BY <1>2, <1>3 DEF AP!Moved

LEMMA PassStays ==
    ASSUME AP!AccountPollAssumption, PassInv, AP!Passes
    PROVE  PassInv'
<1>1. CASE AP!Start
  <2> DEFINE f == Head(Folders)
             r == AP!Ask("open", f)
  <2>1. f \in AP!Mailboxes /\ Tail(Folders) \in Seq(AP!Mailboxes)
    BY DEF AP!AccountPollAssumption
  <2>2. roundsGen' = 1 /\ roundsRows' = {} /\ deadlines' = {1} /\ left' = Tail(Folders) /\ current' = {f}
        /\ replies' = {r} /\ UNCHANGED <<cached, validity, roundsToken>>
    BY <1>1 DEF AP!Start
  <2>3. r \in Reply /\ r.step = 1 /\ r.folder = f
    <3>1. roundsToken[f] \in {1, 2}
      BY <2>1 DEF PassInv
    <3> QED BY <2>1, <2>2, <3>1 DEF AP!Ask, Reply
  <2> HIDE DEF f, r
  <2> QED BY <2>1, <2>2, <2>3 DEF PassInv
<1>2. CASE AP!Finish
  BY <1>2 DEF AP!Finish, AP!folders, PassInv
<1>3. ASSUME NEW r \in replies, AP!HeadersFetched(r)
      PROVE  PassInv'
  <2>1. roundsRows' \subseteq current
    BY <1>3 DEF AP!HeadersFetched, PassInv
  <2>2. UNCHANGED <<left, current, roundsGen, replies, deadlines, live, cached, validity, roundsToken>>
    BY <1>3 DEF AP!HeadersFetched, AP!folders
  <2> QED BY <2>1, <2>2 DEF PassInv
<1>4. ASSUME NEW d \in deadlines, AP!TimesOut(d)
      PROVE  PassInv'
  <2>1. UNCHANGED <<cached, validity, roundsToken>>
    BY <1>4 DEF AP!TimesOut, AP!folders
  <2>2. CASE live /\ d = roundsGen
    <3>1. AP!Walk(replies, deadlines \ {d})
      BY <1>4, <2>2 DEF AP!TimesOut
    <3> QED BY <2>1, <3>1, WalkStays DEF PassInv
  <2>3. CASE ~(live /\ d = roundsGen)
    <3>1. deadlines' = deadlines \ {d} /\ UNCHANGED <<left, current, roundsGen, roundsRows, replies, live>>
      BY <1>4, <2>3 DEF AP!TimesOut
    <3> QED BY <2>1, <2>3, <3>1 DEF PassInv
  <2> QED BY <2>2, <2>3
<1>5. ASSUME NEW f \in AP!Mailboxes, AP!Renumber(f)
      PROVE  PassInv'
  <2>1. validity' \in [AP!Mailboxes -> {1, 2}]
    BY <1>5 DEF AP!Renumber, PassInv
  <2>2. UNCHANGED <<left, current, roundsGen, roundsRows, replies, deadlines, live, cached, roundsToken>>
    BY <1>5 DEF AP!Renumber
  <2> QED BY <2>1, <2>2 DEF PassInv
<1>6. ASSUME NEW f \in AP!Mailboxes, AP!OpenAccount(f)
      PROVE  PassInv'
  <2>1. UNCHANGED <<left, current, roundsGen, roundsRows, replies, deadlines, live, validity>>
        /\ roundsToken' = [roundsToken EXCEPT ![f] = validity[f]]
    BY <1>6 DEF AP!OpenAccount
  <2>2. roundsToken' \in [AP!Mailboxes -> {1, 2}]
    BY <2>1 DEF PassInv
  <2>3. PICK s \in SUBSET {f} : cached' = [cached EXCEPT ![f] = s]
    <3>1. cached[f] \cup {f} \in SUBSET {f} /\ {f} \in SUBSET {f}
      BY DEF PassInv
    <3> QED BY <1>6, <3>1 DEF AP!OpenAccount
  <2>4. cached' \in [AP!Mailboxes -> SUBSET AP!Mailboxes]
    BY <2>3 DEF PassInv
  <2>5. \A g \in AP!Mailboxes : cached'[g] \subseteq {g}
    BY <2>3 DEF PassInv
  <2> QED BY <2>1, <2>2, <2>4, <2>5 DEF PassInv
<1> QED BY <1>1, <1>2, <1>3, <1>4, <1>5, <1>6, FolderOpenedStays, StoredStays, MovedStays DEF AP!Passes

-----------------------------------------------------------------------------
LEMMA PollStarts ==
    ASSUME AP!AccountPollAssumption, AP!Init
    PROVE  PollInv
<1>1. RoundInv
  BY DEF AP!Init, RoundInv, VisitsOK, Waiting
<1>2. <<>> \in Seq(AP!Mailboxes)
  OBVIOUS
<1>3. cached \in [AP!Mailboxes -> SUBSET AP!Mailboxes] /\ \A f \in AP!Mailboxes : cached[f] \subseteq {f}
  BY DEF AP!Init
<1>4. roundsToken \in [AP!Mailboxes -> {1, 2}] /\ validity \in [AP!Mailboxes -> {1, 2}]
  BY DEF AP!Init
<1>5. PassInv
  BY <1>2, <1>3, <1>4 DEF AP!Init, PassInv
<1> QED BY <1>1, <1>5 DEF PollInv

LEMMA PollStays ==
    ASSUME AP!AccountPollAssumption, PollInv, [AP!Next]_(AP!vars)
    PROVE  PollInv'
<1>1. CASE AP!Rounds
  <2>1. RoundInv'
    BY <1>1, RoundStays DEF PollInv
  <2>2. UNCHANGED AP!pass
    BY <1>1 DEF AP!Rounds, AP!Tick, AP!Done, AP!Deadline
  <2>3. PassInv'
    BY <2>2 DEF AP!pass, PollInv, PassInv
  <2> QED BY <2>1, <2>3 DEF PollInv
<1>2. CASE AP!Passes
  <2>1. PassInv'
    BY <1>2, PassStays DEF PollInv
  <2>2. UNCHANGED AP!rounds
    BY <1>2 DEF AP!Passes, AP!Start, AP!Finish, AP!FolderOpened, AP!HeadersFetched, AP!Stored, AP!Moved, AP!TimesOut, AP!Renumber, AP!OpenAccount
  <2>3. RoundInv'
    BY <2>2 DEF AP!rounds, PollInv, RoundInv
  <2> QED BY <2>1, <2>3 DEF PollInv
<1>3. CASE UNCHANGED AP!vars
  <2>1. RoundInv'
    BY <1>3 DEF AP!vars, AP!rounds, PollInv, RoundInv
  <2>2. PassInv'
    BY <1>3 DEF AP!vars, AP!pass, PollInv, PassInv
  <2> QED BY <2>1, <2>2 DEF PollInv
<1> QED BY <1>1, <1>2, <1>3 DEF AP!Next

LEMMA PollMeans ==
    ASSUME PollInv
    PROVE  AP!PollsGoOn
<1>1. AP!OneAtATime
  <2> DEFINE w == {v \in visits : ~v.advanced}
  <2>1. w = Waiting(visits)
    BY DEF Waiting
  <2>2. CASE busy
    <3>1. PICK v : w = {v} /\ v.armed
      BY <2>1, <2>2 DEF PollInv, RoundInv, VisitsOK
    <3>2. Cardinality(w) = 1 /\ \A x \in w : x.armed
      BY <3>1, FS_Singleton
    <3>3. AP!Cardinality(w) = Cardinality(w)
      BY DEF AP!Cardinality, AP!IsFiniteSet, Cardinality, IsFiniteSet
    <3> QED BY <2>2, <3>2, <3>3 DEF AP!OneAtATime
  <2>3. CASE ~busy
    <3>1. w = {}
      BY <2>1, <2>3 DEF PollInv, RoundInv, VisitsOK
    <3>2. Cardinality(w) = 0 /\ \A x \in w : x.armed
      BY <3>1, FS_EmptySet
    <3>3. AP!Cardinality(w) = Cardinality(w)
      BY DEF AP!Cardinality, AP!IsFiniteSet, Cardinality, IsFiniteSet
    <3> QED BY <2>3, <3>2, <3>3 DEF AP!OneAtATime
  <2> QED BY <2>2, <2>3
<1>2. AP!FiledWhereFetched
  BY DEF PollInv, PassInv, AP!FiledWhereFetched
<1> QED BY <1>1, <1>2 DEF AP!PollsGoOn

(***************************************************************************)
(* What a behaviour that follows one part does to it.                      *)
(***************************************************************************)

LEMMA PartStarts ==
    ASSUME Init
    PROVE  /\ followed = "mailbox" => IM!Init
           /\ followed = "connections" => IC!Init
           /\ followed \in {"upkeep", "pills"} => MT!Init
           /\ followed = "launches" => MG!Init
           /\ followed = "sync" => JS!Init
           /\ followed = "session" => JN!Init
           /\ followed = "tree" => JT!Init
           /\ followed \in {"rounds", "passes"} => AP!Init
           /\ followed = "tokens" => TK!Init
BY DEF Init

LEMMA PartSteps ==
    ASSUME [Next]_vars
    PROVE  /\ followed' = followed
           /\ followed = "mailbox" => [IM!Next]_(IM!mailboxVars)
           /\ followed = "connections" => [IC!Next]_(IC!connVars)
           /\ followed \in {"upkeep", "pills"} => [MT!Next]_(MT!vars)
           /\ followed = "launches" => [MG!Next]_(MG!vars)
           /\ followed = "sync" => [JS!Next]_(JS!vars)
           /\ followed = "session" => [JN!Next]_(JN!vars)
           /\ followed = "tree" => [JT!Next]_(JT!vars)
           /\ followed \in {"rounds", "passes"} => [AP!Next]_(AP!vars)
           /\ followed = "tokens" => [TK!Next]_(TK!vars)
<1>1. CASE UNCHANGED vars
  <2>1. UNCHANGED <<followed, varsIM, varsIC, varsMT, varsMG, varsJS, varsJN, varsJT, varsAP, varsTK>>
    BY <1>1 DEF vars
  <2>2. UNCHANGED IM!mailboxVars
    BY <2>1 DEF varsIM, IM!mailboxVars, IM!client
  <2>3. UNCHANGED IC!connVars
    BY <2>1 DEF varsIC, IC!connVars, IC!syncVars, IC!bodyVars, IC!pushVars
  <2>4. UNCHANGED TK!vars
    BY <2>1 DEF varsTK, TK!vars, TK!store, TK!held, TK!help
  <2>5. UNCHANGED JS!vars
    BY <2>1 DEF varsJS, JS!vars
  <2>6. UNCHANGED JN!vars
    BY <2>1 DEF varsJN, JN!vars
  <2>7. UNCHANGED JT!vars
    BY <2>1 DEF varsJT, JT!vars
  <2>8. UNCHANGED AP!vars
    BY <2>1 DEF varsAP, AP!vars, AP!rounds, AP!pass
  <2>9. UNCHANGED MT!vars
    BY <2>1 DEF varsMT, MT!vars
  <2>10. UNCHANGED MG!vars
    BY <2>1 DEF varsMG, MG!vars
  <2> QED BY <2>1, <2>2, <2>3, <2>4, <2>5, <2>6, <2>7, <2>8, <2>9, <2>10
<1>2. CASE Next
  BY <1>2 DEF Next, AP!Next, MT!Next
<1> QED BY <1>1, <1>2

-----------------------------------------------------------------------------
(* The theorems.                                                            *)

LEMMA MailboxIsPlaced ==
    ASSUME ServicesAssumption
    PROVE  Spec => [](followed = "mailbox" => PlaceInv /\ Honest)
<1> DEFINE Inv == followed = "mailbox" => PlaceInv /\ Honest
<1>1. IM!ImapMailboxAssumption
  BY DEF ServicesAssumption
<1>2. Init => Inv
  BY <1>1, PartStarts, PlaceStarts, HonestStarts
<1>3. Inv /\ [Next]_vars => Inv'
  <2> SUFFICES ASSUME Inv, [Next]_vars, followed' = "mailbox" PROVE (PlaceInv /\ Honest)'
    OBVIOUS
  <2>1. followed = "mailbox" /\ [IM!Next]_(IM!mailboxVars)
    BY PartSteps
  <2> QED BY <1>1, <2>1, PlaceStays, HonestStays
<1> QED BY <1>2, <1>3, PTL DEF Spec

LEMMA ConnectionsAreKept ==
    ASSUME ServicesAssumption
    PROVE  Spec => [](followed = "connections" => ConnInv)
<1> DEFINE Inv == followed = "connections" => ConnInv
<1>1. IC!ImapConnectionsAssumption
  BY DEF ServicesAssumption
<1>2. Init => Inv
  BY <1>1, PartStarts, InitKeeps
<1>3. Inv /\ [Next]_vars => Inv'
  <2> SUFFICES ASSUME Inv, [Next]_vars, followed' = "connections" PROVE ConnInv'
    OBVIOUS
  <2>1. followed = "connections" /\ [IC!Next]_(IC!connVars)
    BY PartSteps
  <2> QED BY <1>1, <2>1, NextKeeps
<1> QED BY <1>2, <1>3, PTL DEF Spec

LEMMA TokensAreKept ==
    ASSUME ServicesAssumption
    PROVE  Spec => [](followed = "tokens" => WaitInv /\ HomeInv)
<1> DEFINE Inv == followed = "tokens" => WaitInv /\ HomeInv
<1>1. TK!TokensAssumption
  BY DEF ServicesAssumption
<1>2. Init => Inv
  BY <1>1, PartStarts, InitWaits, HomeStarts
<1>3. Inv /\ [Next]_vars => Inv'
  <2> SUFFICES ASSUME Inv, [Next]_vars, followed' = "tokens" PROVE (WaitInv /\ HomeInv)'
    OBVIOUS
  <2>1. followed = "tokens" /\ [TK!Next]_(TK!vars)
    BY PartSteps
  <2> QED BY <1>1, <2>1, StepWaits, StepStaysHome
<1> QED BY <1>2, <1>3, PTL DEF Spec

LEMMA UpkeepIsKept ==
    Spec => [](followed \in {"upkeep", "pills"} => UpkeepInv)
<1> DEFINE Inv == followed \in {"upkeep", "pills"} => UpkeepInv
<1>1. Init => Inv
  BY PartStarts, UpkeepStarts
<1>2. Inv /\ [Next]_vars => Inv'
  <2> SUFFICES ASSUME Inv, [Next]_vars, followed' \in {"upkeep", "pills"} PROVE UpkeepInv'
    OBVIOUS
  <2>1. followed \in {"upkeep", "pills"} /\ [MT!Next]_(MT!vars)
    BY PartSteps
  <2> QED BY <2>1, UpkeepStays
<1> QED BY <1>1, <1>2, PTL DEF Spec

LEMMA MigrationsAreKept ==
    ASSUME ServicesAssumption
    PROVE  Spec => [](followed = "launches" => MigInv)
<1> DEFINE Inv == followed = "launches" => MigInv
<1>1. MG!MigrationsAssumption
  BY DEF ServicesAssumption
<1>2. Init => Inv
  BY <1>1, PartStarts, MigStarts
<1>3. Inv /\ [Next]_vars => Inv'
  <2> SUFFICES ASSUME Inv, [Next]_vars, followed' = "launches" PROVE MigInv'
    OBVIOUS
  <2>1. followed = "launches" /\ [MG!Next]_(MG!vars)
    BY PartSteps
  <2> QED BY <1>1, <2>1, MigStays
<1> QED BY <1>2, <1>3, PTL DEF Spec

LEMMA SyncIsFollowed ==
    Spec => [](followed = "sync" => FollowInv)
<1> DEFINE Inv == followed = "sync" => FollowInv
<1>1. Init => Inv
  BY PartStarts, SyncStarts
<1>2. Inv /\ [Next]_vars => Inv'
  <2> SUFFICES ASSUME Inv, [Next]_vars, followed' = "sync" PROVE FollowInv'
    OBVIOUS
  <2>1. followed = "sync" /\ [JS!Next]_(JS!vars)
    BY PartSteps
  <2> QED BY <2>1, SyncStays
<1> QED BY <1>1, <1>2, PTL DEF Spec

LEMMA SessionIsWatched ==
    ASSUME ServicesAssumption
    PROVE  Spec => [](followed = "session" => WatchInv)
<1> DEFINE Inv == followed = "session" => WatchInv
<1>1. JN!JmapSessionAssumption
  BY DEF ServicesAssumption
<1>2. Init => Inv
  BY <1>1, PartStarts, WatchStarts
<1>3. Inv /\ [Next]_vars => Inv'
  <2> SUFFICES ASSUME Inv, [Next]_vars, followed' = "session" PROVE WatchInv'
    OBVIOUS
  <2>1. followed = "session" /\ [JN!Next]_(JN!vars)
    BY PartSteps
  <2> QED BY <1>1, <2>1, WatchStays
<1> QED BY <1>2, <1>3, PTL DEF Spec

LEMMA TreeIsKept ==
    ASSUME ServicesAssumption
    PROVE  Spec => [](followed = "tree" => TreeInv)
<1> DEFINE Inv == followed = "tree" => TreeInv
<1>1. JT!JmapTreeAssumption
  BY DEF ServicesAssumption
<1>2. Init => Inv
  BY <1>1, PartStarts, TreeStarts
<1>3. Inv /\ [Next]_vars => Inv'
  <2> SUFFICES ASSUME Inv, [Next]_vars, followed' = "tree" PROVE TreeInv'
    OBVIOUS
  <2>1. followed = "tree" /\ [JT!Next]_(JT!vars)
    BY PartSteps
  <2> QED BY <1>1, <2>1, TreeStays
<1> QED BY <1>2, <1>3, PTL DEF Spec

LEMMA PollIsKept ==
    ASSUME ServicesAssumption
    PROVE  Spec => [](followed \in {"rounds", "passes"} => PollInv)
<1> DEFINE Inv == followed \in {"rounds", "passes"} => PollInv
<1>1. AP!AccountPollAssumption
  BY DEF ServicesAssumption
<1>2. Init => Inv
  BY <1>1, PartStarts, PollStarts
<1>3. Inv /\ [Next]_vars => Inv'
  <2> SUFFICES ASSUME Inv, [Next]_vars, followed' \in {"rounds", "passes"} PROVE PollInv'
    OBVIOUS
  <2>1. followed \in {"rounds", "passes"} /\ [AP!Next]_(AP!vars)
    BY PartSteps
  <2> QED BY <1>1, <2>1, PollStays
<1> QED BY <1>2, <1>3, PTL DEF Spec

\* The types of ImapMailbox's variables: every command in the queue is one a
\* caller makes or a handler adds (selectThenQueue, withFolderSelected), and what
\* the client believes of the selection is so.
THEOREM MailboxIsTyped ==
    ASSUME ServicesAssumption
    PROVE  Spec => [](followed = "mailbox" => IM!TypeOK /\ IM!BeliefIsTrue)
<1>1. PlaceInv /\ Honest => IM!TypeOK /\ IM!BeliefIsTrue
  BY DEF PlaceInv, Honest
<1> QED BY <1>1, MailboxIsPlaced, PTL

\* However the SELECTs of other callers are queued around them, refused or
\* granted read-only, none of them leads a STORE or an EXPUNGE to a mailbox it was
\* not made for: selectThenQueue() may trust m_queuedFolder.  The one that runs
\* elsewhere is behind the SELECT of its own mailbox, refused by a server that
\* kept the previous one; nothing asks.  Mail is stored under the
\* folder it was read from.  No busy mark of a background connection outlives its
\* batch, whatever fails or is dropped meanwhile, and no batch is without its
\* mark; no answer is used for another mailbox than it is about.
THEOREM ImapStaysInStep ==
    ASSUME ServicesAssumption
    PROVE  Spec => []ImapKeepsInStep
<1>1. PlaceInv /\ Honest => IM!OnlyRefusalsStray /\ IM!MailIsOfItsFolder
  BY DEF PlaceInv, Honest
<1>2. ConnInv => IC!NothingMixed /\ IC!BusyMeansWorking /\ IC!OneFallback
  BY KeptIsWorking
<1>3. (followed = "mailbox" => PlaceInv /\ Honest) /\ (followed = "connections" => ConnInv) => ImapKeepsInStep
  BY <1>1, <1>2 DEF ImapKeepsInStep
<1> QED BY <1>3, MailboxIsPlaced, ConnectionsAreKept, PTL

\* While no change was skipped, dropped or overtaken, each cached row of a JMAP
\* folder is what the message was at a state no older than the one heard up to.
\* While listings do not overlap, each tree listed is one the account once had,
\* although pages of its change log are merged at different moments.  A request
\* parked on a 401 has a discovery that wakes it, and push that is wanted has a
\* stream or a retry (emitHeaders, ListChangedMailboxes, JmapSession).
THEOREM JmapStaysInStep ==
    ASSUME ServicesAssumption
    PROVE  Spec => []JmapKeepsInStep
<1> DEFINE Inv == /\ followed = "sync" => FollowInv
                  /\ followed = "session" => WatchInv
                  /\ followed = "tree" => TreeInv
<1>1. Inv => JmapKeepsInStep
  BY SyncMeans, WatchMeans, TreeMeans DEF JmapKeepsInStep
<1> QED BY <1>1, SyncIsFollowed, SessionIsWatched, TreeIsKept, PTL

\* While VACUUM copies the cache, no writer is brought back, whatever is fetched,
\* migrated or started meanwhile; the sync goes on once what paused it has ended;
\* no pill is behind the cache with no count to come.  However the one-time
\* migrations are cut short, and whatever the client writes between their slices,
\* the adoption goes through, and once the heal and the backfill are flagged no
\* message has another one's text, or verdicts, or lacks its paperclip, the
\* histories HealedIsRight names excepted (runMigration, maintenancescheduler.cpp).
THEOREM UpkeepStaysSound ==
    ASSUME ServicesAssumption
    PROVE  Spec => []UpkeepIsSound
<1>1. MG!MigrationsAssumption
  BY DEF ServicesAssumption
<1>2. (followed \in {"upkeep", "pills"} => UpkeepInv) /\ (followed = "launches" => MigInv) => UpkeepIsSound
  BY <1>1, UpkeepMeans, MigMeans DEF UpkeepIsSound
<1> QED BY <1>2, UpkeepIsKept, MigrationsAreKept, PTL

\* However late an account answers, one visit at most has still to move the round
\* on, exactly one while the round is busy, and its deadline is armed; a pass
\* has a deadline for the step it is at, and files headers under the folder they
\* were fetched from, whatever answers late.
THEOREM PollsAlwaysGoOn ==
    ASSUME ServicesAssumption
    PROVE  Spec => []PollsGoOn
<1>1. (followed \in {"rounds", "passes"} => PollInv) => PollsGoOn
  BY PollMeans DEF PollsGoOn
<1> QED BY <1>1, PollIsKept, PTL

\* Every parked caller is called back: while one waits, or later ones would
\* park, exactly one thing is under way that ends it (a read of the secret, a
\* sign-in, a request), through account switches, stale timeouts and copied
\* links, and a sign-in has its timeout armed.  Tokens in memory, in the wallet
\* and on the wire are of the account they were issued for, unless an account is
\* opened while a token is being acquired: one helper serves them all.
THEOREM SignInsAlwaysSettle ==
    ASSUME ServicesAssumption
    PROVE  Spec => []SignInsSettle
<1>1. (followed = "tokens" => WaitInv /\ HomeInv) => SignInsSettle
  BY WaitersAreServed, HomeMeans DEF SignInsSettle
<1> QED BY <1>1, TokensAreKept, PTL

\* While the account stays connected, no step leaves push dead that was on its
\* way, idling or to be retried.  A stored sign-in is given up only in a step in
\* which the provider refused the refresh it was used for: a browser tab declined
\* or left until its timeout cannot do it, since nothing is being refreshed then.
THEOREM FaultsAreAlwaysSurvived ==
    ASSUME ServicesAssumption
    PROVE  Spec => FaultsAreSurvived
<1> DEFINE Survived == /\ followed = "connections" => IC!PushIsKept
                       /\ followed = "tokens" => TK!ForgottenByRefusal
           Inv == (followed = "connections" => ConnInv) /\ (followed = "tokens" => WaitInv /\ HomeInv)
<1>1. TK!TokensAssumption
  BY DEF ServicesAssumption
<1>2. ASSUME Inv, [Next]_vars
      PROVE  [Survived]_(<<varsIC, varsTK>>)
  <2> SUFFICES ASSUME <<varsIC, varsTK>>' # <<varsIC, varsTK>> PROVE Survived
    OBVIOUS
  <2>1. CASE followed = "connections"
    <3>1. [IC!PushIsKept]_(IC!connVars)
      BY <1>2, <2>1, PartSteps, PushStays
    <3>2. IC!connVars' # IC!connVars
      <4>1. varsTK' = varsTK
        BY <1>2, <2>1 DEF Next, vars
      <4>2. varsIC' # varsIC
        BY <4>1
      <4> QED BY <4>2 DEF varsIC, IC!connVars, IC!syncVars, IC!bodyVars, IC!pushVars
    <3> QED BY <2>1, <3>1, <3>2
  <2>2. CASE followed = "tokens"
    <3>1. [TK!ForgottenByRefusal]_(TK!vars)
      BY <1>1, <1>2, <2>2, PartSteps, ForgottenOnRefusal
    <3>2. TK!vars' # TK!vars
      <4>1. varsIC' = varsIC
        BY <1>2, <2>2 DEF Next, vars
      <4>2. varsTK' # varsTK
        BY <4>1
      <4> QED BY <4>2 DEF varsTK, TK!vars, TK!store, TK!held, TK!help
    <3> QED BY <2>2, <3>1, <3>2
  <2> QED BY <2>1, <2>2
<1> QED BY <1>2, ConnectionsAreKept, TokensAreKept, PTL DEF Spec, FaultsAreSurvived
===============================================================================
